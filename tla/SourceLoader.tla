---------------------------- MODULE SourceLoader ----------------------------
(***************************************************************************)
(* The loading of source files (main.c, parse in parser.c): a worklist of  *)
(* paths that the files being parsed extend with #load and #import.        *)
(*                                                                         *)
(* A path is the sequence of its components, the last one the file; the    *)
(* code compares paths as text, so two spellings of a file are two files.  *)
(* A file is the sequence of its items, the functions as module Executable *)
(* wants them.  What makes an item malformed is the subject of Parser.     *)
(***************************************************************************)
EXTENDS Integers, SequencesExt, FiniteSetsExt

CONSTANTS
  Disks,       \* the file systems: functions from paths to sequences of items
  Main         \* input_filename

Paths == Seq(STRING)

(* What the code generators make of a statement: a call, a string literal, *)
(* or instructions of some size.                                           *)
Statements ==
  [kind : {"code"}, size : Nat] \cup [kind : {"call"}, name : STRING]
    \cup [kind : {"string"}, count : Nat]

Functions == [kind : {"function"}, name : STRING, returns : BOOLEAN, body : Seq(Statements)]
(* Directives and declarations; structs (parser.c:1002) are left out, since *)
(* nothing reads their declarations.                                       *)
Items == Functions \cup [kind : {"load", "import"}, path : Paths] \cup [kind : {"malformed"}]

ASSUME FilesAssumption ==
  /\ Main \in Paths
  /\ \A files \in Disks :
       IsFiniteSet(DOMAIN files) /\ \A path \in DOMAIN files : files[path] \in Seq(Items)

VARIABLES
  disk,
  filesToLoad,   \* files_to_load
  loading,       \* the index i of the loop over files_to_load
  sourceFiles,   \* compiler.source_files: [path, content]
  parsing,       \* index of the source file the parser is in, 0 outside of parse
  unparsed,      \* the items of that file the lexer has not come to
  declarations,  \* compiler.global_declarations.children
  loader         \* "running", "done", or "failed" when parse returned false

loaderVars ==
  <<disk, filesToLoad, loading, sourceFiles, parsing, unparsed, declarations, loader>>

-----------------------------------------------------------------------------
Directory(path) == Front(path)

(* Where #load and #import look for a file.                                *)
Requested(item, from) ==
  IF item.kind = "import" THEN <<"libraries">> \o item.path ELSE Directory(from) \o item.path

(* read_entire_file: a file that cannot be opened is an empty one.         *)
Contents(path) == IF path \in DOMAIN disk THEN disk[path] ELSE <<>>

AddFileToLoadAlways(path) == Append(filesToLoad, path) \* mutant: without a look at the list
AddFileToLoad(path) ==
  IF Contains(filesToLoad, path) THEN filesToLoad ELSE Append(filesToLoad, path)

(* load_file: the source file of a path, read unless it is there already.  *)
Loaded(path) == \E i \in 1 .. Len(sourceFiles) : sourceFiles[i].path = path
LoadFile(path) ==
  IF Loaded(path) THEN sourceFiles
  ELSE Append(sourceFiles, [path |-> path, content |-> Contents(path)])

InitLoader ==
  /\ disk \in Disks
  /\ filesToLoad = <<Main>>
  /\ loading = 1
  /\ sourceFiles = <<>>
  /\ parsing = 0
  /\ unparsed = <<>>
  /\ declarations = <<>>
  /\ loader = "running"

(* The next file of the worklist becomes the input of the lexer.           *)
LoadNext(more) ==
  /\ loader = "running" /\ parsing = 0 /\ more
  /\ LET path == filesToLoad[loading]
     IN  /\ sourceFiles' = LoadFile(path)
         /\ parsing' = CHOOSE i \in 1 .. Len(sourceFiles') : sourceFiles'[i].path = path
         /\ unparsed' = sourceFiles'[parsing'].content
  /\ UNCHANGED <<disk, filesToLoad, loading, declarations, loader>>

LoadNextButLast == LoadNext(loading < Len(filesToLoad)) \* mutant: the loop ends one early
LoadNextFile == LoadNext(loading <= Len(filesToLoad))

Parsing(kinds) ==
  loader = "running" /\ parsing # 0 /\ unparsed # <<>> /\ Head(unparsed).kind \in kinds

ParseDirective ==
  /\ Parsing({"load", "import"})
  /\ filesToLoad' = AddFileToLoad(Requested(Head(unparsed), sourceFiles[parsing].path))
  /\ unparsed' = Tail(unparsed)
  /\ UNCHANGED <<disk, loading, sourceFiles, parsing, declarations, loader>>

ParseFunction ==
  /\ Parsing({"function"})
  /\ declarations' = Append(declarations, Head(unparsed))
  /\ unparsed' = Tail(unparsed)
  /\ UNCHANGED <<disk, filesToLoad, loading, sourceFiles, parsing, loader>>

(* parse returns false and main gives up.                                  *)
RefuseMalformed ==
  /\ Parsing({"malformed"})
  /\ loader' = "failed"
  /\ UNCHANGED <<disk, filesToLoad, loading, sourceFiles, parsing, unparsed, declarations>>

EndOfFile ==
  /\ loader = "running" /\ parsing # 0 /\ unparsed = <<>>
  /\ parsing' = 0
  /\ loading' = loading + 1
  /\ UNCHANGED <<disk, filesToLoad, sourceFiles, unparsed, declarations, loader>>

AllLoaded ==
  /\ loader = "running" /\ parsing = 0 /\ loading > Len(filesToLoad)
  /\ loader' = "done"
  /\ UNCHANGED <<disk, filesToLoad, loading, sourceFiles, parsing, unparsed, declarations>>

LoaderNext ==
  \/ LoadNextFile
  \/ ParseDirective
  \/ ParseFunction
  \/ RefuseMalformed
  \/ EndOfFile
  \/ AllLoaded

-----------------------------------------------------------------------------
(* What parse can see of a file: all that comes before a malformed item.   *)
Seen(path) ==
  LET content == Contents(path)
  IN  {content[i] : i \in {j \in 1 .. Len(content) :
                             \A k \in 1 .. j : content[k].kind # "malformed"}}

Requests(path) ==
  {Requested(item, path) : item \in {x \in Seen(path) : x.kind \in {"load", "import"}}}

Further(paths, requests) ==
  paths \cup UNION {requests[path] : path \in paths \cap DOMAIN requests}

(* The paths that Main asks for directly or through other files, when each *)
(* file asks for its requests.  A round that adds none but missing files   *)
(* is the last.                                                            *)
ReachedThrough(requests) ==
  LET rounds == Cardinality(DOMAIN requests) + 1
      within[n \in 0 .. rounds] == IF n = 0 THEN {Main} ELSE Further(within[n - 1], requests)
  IN  within[rounds]

Reached == ReachedThrough([path \in DOMAIN disk |-> Requests(path)])

IsMalformed(path) == \E i \in 1 .. Len(Contents(path)) : Contents(path)[i].kind = "malformed"

FunctionsIn(items) ==
  FlattenSeq([i \in 1 .. Len(items) |->
                IF items[i].kind = "function" THEN <<items[i]>> ELSE <<>>])

(* However the files ask for each other, in cycles, twice, through other   *)
(* files or for files that are not there, every file that is asked for is  *)
(* parsed exactly once: the global declarations are those of all of them,  *)
(* in the order of the worklist, and parsing fails only if one of them is  *)
(* malformed (the loop of main with add_file_to_load and load_file).       *)
LoadsWhatIsReached ==
  /\ \A i, j \in 1 .. Len(sourceFiles) : sourceFiles[i].path = sourceFiles[j].path => i = j
  /\ loader = "done" =>
       /\ {sourceFiles[i].path : i \in 1 .. Len(sourceFiles)} = Reached
       /\ ~\E path \in Reached : IsMalformed(path)
       /\ declarations =
            FlattenSeq([i \in 1 .. Len(sourceFiles) |-> FunctionsIn(sourceFiles[i].content)])
  /\ loader = "failed" => \E path \in Reached : IsMalformed(path)
=============================================================================
