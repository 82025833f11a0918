-------------------------- MODULE ExecutableProofs --------------------------
(***************************************************************************)
(* Linking, for all programs in all files, all target systems and all      *)
(* sizes: the symbols cover the text, in the compiler and in the file,     *)
(* every call reaches its function, every string literal is found, the     *)
(* segments of the files can be mapped, and what is linked is all that is  *)
(* reached from the first file.                                            *)
(***************************************************************************)
EXTENDS Executable, SetInduction, SequenceTheorems

(* The provers do not know that a given string is in STRING.               *)
Folders == STRING \cup {"libraries"}
Names == STRING \cup {"_start"}

Sources == [path : Seq(Folders), content : Seq(Items)]
Symbols == [name : Names, offset : Nat, size : Nat]

(***************************************************************************)
(* The loader: everything keeps its type.                                  *)
(***************************************************************************)
LoaderTyped ==
  /\ \A path \in DOMAIN disk : disk[path] \in Seq(Items)
  /\ filesToLoad \in Seq(Seq(Folders))
  /\ loading \in Nat \ {0}
  /\ sourceFiles \in Seq(Sources)
  /\ parsing \in 0 .. Len(sourceFiles)
  /\ unparsed \in Seq(Items)
  /\ declarations \in Seq(Functions)
  /\ loader \in {"running", "done", "failed"}

LEMMA PathTypes == Paths \subseteq Seq(Folders)
BY SeqMonotonic DEF Paths, Folders

LEMMA InitLoaderTyped == InitLoader => LoaderTyped
<1> SUFFICES ASSUME InitLoader PROVE LoaderTyped
  OBVIOUS
<1>1. \A path \in DOMAIN disk : disk[path] \in Seq(Items)
  BY FilesAssumption DEF InitLoader
<1>2. <<Main>> \in Seq(Seq(Folders))
  BY FilesAssumption, PathTypes
<1>3. sourceFiles = <<>> /\ unparsed = <<>> /\ declarations = <<>>
  BY DEF InitLoader
<1>4. sourceFiles \in Seq(Sources) /\ unparsed \in Seq(Items) /\ declarations \in Seq(Functions)
  BY <1>3, EmptySeq
<1>5. parsing = 0 /\ loading = 1 /\ loader = "running" /\ filesToLoad = <<Main>>
  BY DEF InitLoader
<1>6. Len(sourceFiles) \in Nat
  BY <1>4, LenProperties
<1> QED  BY <1>1, <1>2, <1>4, <1>5, <1>6 DEF LoaderTyped

(* The item the lexer is at.                                               *)
LEMMA NextItem ==
  ASSUME LoaderTyped, NEW kinds, Parsing(kinds)
  PROVE  /\ Head(unparsed) \in Items /\ Head(unparsed).kind \in kinds
         /\ Tail(unparsed) \in Seq(Items)
         /\ loader = "running" /\ parsing \in 1 .. Len(sourceFiles)
<1>1. unparsed \in Seq(Items) /\ unparsed # <<>>
  BY DEF LoaderTyped, Parsing
<1>2. Head(unparsed) \in Items /\ Tail(unparsed) \in Seq(Items)
  BY <1>1, HeadTailProperties
<1>3. Len(sourceFiles) \in Nat
  BY LenProperties DEF LoaderTyped
<1> QED  BY <1>2, <1>3 DEF LoaderTyped, Parsing

LEMMA ItemKinds ==
  ASSUME NEW item \in Items
  PROVE  /\ item.kind = "function" => item \in Functions
         /\ item.kind \in {"load", "import"} => item.path \in Seq(Folders)
BY PathTypes DEF Items, Functions

LEMMA RequestedTypes ==
  ASSUME NEW item \in Items, item.kind \in {"load", "import"}, NEW from \in Seq(Folders)
  PROVE  Requested(item, from) \in Seq(Folders)
<1>1. item.path \in Seq(Folders)
  BY ItemKinds
<1>2. <<"libraries">> \in Seq(Folders)
  BY DEF Folders
<1>3. Directory(from) \in Seq(Folders)
  <2>1. Len(from) \in Nat /\ \A i \in 1 .. Len(from) : from[i] \in Folders
    BY LenProperties
  <2>2. SubSeq(from, 1, Len(from) - 1) \in Seq(Folders)
    <3>1. \A i \in 1 .. Len(from) - 1 : from[i] \in Folders
      BY <2>1
    <3>2. 1 \in Int /\ Len(from) - 1 \in Int
      BY <2>1
    <3> QED  BY <3>1, <3>2, SubSeqProperties
  <2> QED  BY <2>2 DEF Directory, Front
<1>4. <<"libraries">> \o item.path \in Seq(Folders)
  BY <1>1, <1>2, ConcatProperties
<1>5. Directory(from) \o item.path \in Seq(Folders)
  BY <1>1, <1>3, ConcatProperties
<1> QED  BY <1>4, <1>5 DEF Requested

LEMMA LoaderStep == LoaderTyped /\ [LoaderNext]_loaderVars => LoaderTyped'
<1> SUFFICES ASSUME LoaderTyped, [LoaderNext]_loaderVars PROVE LoaderTyped'
  OBVIOUS
<1>1. CASE LoadNextFile
  <2> DEFINE path == filesToLoad[loading]
  <2>1. /\ loading <= Len(filesToLoad) /\ sourceFiles' = LoadFile(path)
        /\ parsing' = CHOOSE i \in 1 .. Len(sourceFiles') : sourceFiles'[i].path = path
        /\ unparsed' = sourceFiles'[parsing'].content
        /\ UNCHANGED <<disk, filesToLoad, loading, declarations, loader>>
    BY <1>1 DEF LoadNextFile, LoadNext
  <2>2. path \in Seq(Folders)
    <3>1. loading \in 1 .. Len(filesToLoad)
      BY <2>1, LenProperties DEF LoaderTyped
    <3> QED  BY <3>1, ElementOfSeq DEF LoaderTyped
  <2> HIDE DEF path
  <2>3. Contents(path) \in Seq(Items)
    BY EmptySeq DEF Contents, LoaderTyped
  <2>4. /\ sourceFiles' \in Seq(Sources)
        /\ \E i \in 1 .. Len(sourceFiles') : sourceFiles'[i].path = path
    <3>1. CASE Loaded(path)
      BY <2>1, <3>1 DEF LoadFile, Loaded, LoaderTyped
    <3>2. CASE ~Loaded(path)
      <4> DEFINE file == [path |-> path, content |-> Contents(path)]
      <4>1. file \in Sources /\ file.path = path
        BY <2>2, <2>3 DEF Sources
      <4>2. sourceFiles' = Append(sourceFiles, file)
        BY <2>1, <3>2 DEF LoadFile
      <4> HIDE DEF file
      <4>3. /\ sourceFiles' \in Seq(Sources) /\ Len(sourceFiles') = Len(sourceFiles) + 1
            /\ sourceFiles'[Len(sourceFiles) + 1] = file
        BY <4>1, <4>2, AppendProperties DEF LoaderTyped
      <4>4. Len(sourceFiles) + 1 \in 1 .. Len(sourceFiles')
        BY <4>3, LenProperties DEF LoaderTyped
      <4> QED  BY <4>1, <4>3, <4>4
    <3> QED  BY <3>1, <3>2
  <2>5. parsing' \in 1 .. Len(sourceFiles')
    BY <2>1, <2>4
  <2>6. unparsed' \in Seq(Items) /\ parsing' \in 0 .. Len(sourceFiles')
    <3>1. sourceFiles'[parsing'] \in Sources
      BY <2>4, <2>5, ElementOfSeq
    <3> QED  BY <2>1, <2>5, <3>1 DEF Sources
  <2> QED  BY <2>1, <2>4, <2>6 DEF LoaderTyped
<1>2. CASE ParseDirective
  <2>1. /\ Parsing({"load", "import"}) /\ unparsed' = Tail(unparsed)
        /\ filesToLoad' = AddFileToLoad(Requested(Head(unparsed), sourceFiles[parsing].path))
        /\ UNCHANGED <<disk, loading, sourceFiles, parsing, declarations, loader>>
    BY <1>2 DEF ParseDirective
  <2>2. /\ Head(unparsed) \in Items /\ Head(unparsed).kind \in {"load", "import"}
        /\ Tail(unparsed) \in Seq(Items) /\ parsing \in 1 .. Len(sourceFiles)
    BY <2>1, NextItem
  <2>3. sourceFiles[parsing].path \in Seq(Folders)
    <3>1. sourceFiles[parsing] \in Sources
      BY <2>2, ElementOfSeq DEF LoaderTyped
    <3> QED  BY <3>1 DEF Sources
  <2>4. Requested(Head(unparsed), sourceFiles[parsing].path) \in Seq(Folders)
    BY <2>2, <2>3, RequestedTypes
  <2>5. filesToLoad' \in Seq(Seq(Folders))
    BY <2>1, <2>4, AppendProperties DEF AddFileToLoad, LoaderTyped
  <2> QED  BY <2>1, <2>2, <2>5 DEF LoaderTyped
<1>3. CASE ParseFunction
  <2>1. /\ Parsing({"function"}) /\ unparsed' = Tail(unparsed)
        /\ declarations' = Append(declarations, Head(unparsed))
        /\ UNCHANGED <<disk, filesToLoad, loading, sourceFiles, parsing, loader>>
    BY <1>3 DEF ParseFunction
  <2>2. Head(unparsed) \in Functions /\ Tail(unparsed) \in Seq(Items)
    BY <2>1, NextItem, ItemKinds
  <2>3. declarations' \in Seq(Functions)
    BY <2>1, <2>2, AppendProperties DEF LoaderTyped
  <2> QED  BY <2>1, <2>2, <2>3 DEF LoaderTyped
<1>4. CASE RefuseMalformed
  BY <1>4 DEF RefuseMalformed, LoaderTyped
<1>5. CASE EndOfFile
  <2>1. Len(sourceFiles) \in Nat
    BY LenProperties DEF LoaderTyped
  <2> QED  BY <1>5, <2>1 DEF EndOfFile, LoaderTyped
<1>6. CASE AllLoaded
  BY <1>6 DEF AllLoaded, LoaderTyped
<1>7. CASE UNCHANGED loaderVars
  BY <1>7 DEF loaderVars, LoaderTyped
<1> QED  BY <1>1, <1>2, <1>3, <1>4, <1>5, <1>6, <1>7 DEF LoaderNext

-----------------------------------------------------------------------------
(***************************************************************************)
(* The symbols: where one ends the next begins.                            *)
(***************************************************************************)
Phases == {"loading", "functions", "body", "layout", "done", "aborted", "done without output"}

(* From the start code on, as long as the compiler does not fail.          *)
Emitted == phase \in {"functions", "body", "layout", "done"}

CodegenTyped ==
  /\ target \in Targets
  /\ phase \in Phases
  /\ text \in Nat /\ cstring \in Nat
  /\ emitting \in Nat
  /\ statements \in Seq(Statements)
  /\ addresses \in Seq(Nat)
  /\ symbols \in Seq(Symbols)

(* Where the symbols end so far: at the function that is being emitted.    *)
SymbolsEnd == IF phase = "body" THEN addresses[emitting] ELSE text

NothingYet == phase = "loading" => emitting = 0 /\ addresses = <<>>

SymbolsSound ==
  Emitted =>
    /\ loader # "running"
    /\ emitting <= Len(declarations)
    /\ phase = "body" => emitting >= 1
    /\ phase \in {"layout", "done"} => emitting = Len(declarations)
    /\ Len(addresses) = emitting
    /\ \A i \in 1 .. emitting : addresses[i] <= text
    /\ Len(symbols) = IF phase = "body" THEN emitting ELSE emitting + 1
    /\ symbols[1].name = "_start"
    /\ \A i \in 1 .. Len(symbols) - 1 : /\ symbols[i + 1].name = declarations[i].name
                                       /\ symbols[i + 1].offset = addresses[i]
    /\ \A i \in 1 .. Len(symbols) :
         /\ symbols[i].offset + symbols[i].size <= text
         /\ symbols[i].offset + symbols[i].size =
              IF i < Len(symbols) THEN symbols[i + 1].offset ELSE SymbolsEnd

Layout == LoaderTyped /\ CodegenTyped /\ NothingYet /\ SymbolsSound

LEMMA SymbolTypes ==
  ASSUME CodegenTyped
  PROVE  /\ Len(symbols) \in Nat
         /\ \A i \in 1 .. Len(addresses) : addresses[i] \in Nat
         /\ \A i \in 1 .. Len(symbols) :
              /\ symbols[i].name \in Names
              /\ symbols[i].offset \in Nat /\ symbols[i].size \in Nat
              /\ symbols[i].offset + symbols[i].size \in Nat
<1>1. Len(symbols) \in Nat /\ \A i \in 1 .. Len(symbols) : symbols[i] \in Symbols
  BY LenProperties DEF CodegenTyped
<1>2. \A i \in 1 .. Len(symbols) : /\ symbols[i].name \in Names
                                  /\ symbols[i].offset \in Nat /\ symbols[i].size \in Nat
  BY <1>1 DEF Symbols
<1>3. \A i \in 1 .. Len(addresses) : addresses[i] \in Nat
  BY LenProperties DEF CodegenTyped
<1> QED  BY <1>1, <1>2, <1>3

(* In a body only the text grows.                                          *)
LEMMA TextGrows ==
  ASSUME Layout, phase = "body", phase' = "body", NEW n \in Nat, text' = text + n,
         statements # <<>>, statements' = Tail(statements), cstring' \in Nat,
         UNCHANGED <<loaderVars, target, emitting, addresses, symbols>>
  PROVE  Layout'
<1>1. LoaderTyped'
  BY DEF Layout, LoaderTyped, loaderVars
<1>2. CodegenTyped'
  <2>1. Tail(statements) \in Seq(Statements)
    BY HeadTailProperties DEF Layout, CodegenTyped
  <2> QED  BY <2>1 DEF Layout, CodegenTyped
<1>3. SymbolsSound'
  <2>1. text \in Nat /\ text' \in Nat /\ text <= text'
    BY DEF Layout, CodegenTyped
  <2>2. /\ \A i \in 1 .. Len(addresses) : addresses[i] \in Nat
        /\ \A i \in 1 .. Len(symbols) : symbols[i].offset + symbols[i].size \in Nat
    BY SymbolTypes DEF Layout, CodegenTyped
  <2>3. SymbolsEnd' = SymbolsEnd
    BY DEF SymbolsEnd
  <2>4. declarations' = declarations /\ loader' = loader
    BY DEF loaderVars
  <2>5. \A x \in Nat : x <= text => x <= text'
    BY <2>1
  <2>6. SymbolsSound /\ Emitted
    BY DEF Layout, Emitted
  <2>7. \A i \in 1 .. emitting : addresses[i] <= text'
    BY <2>2, <2>5, <2>6 DEF SymbolsSound
  <2>8. \A i \in 1 .. Len(symbols) : symbols[i].offset + symbols[i].size <= text'
    BY <2>2, <2>5, <2>6 DEF SymbolsSound
  <2> QED  BY <2>3, <2>4, <2>6, <2>7, <2>8 DEF SymbolsSound
<1> QED  BY <1>1, <1>2, <1>3 DEF Layout, NothingYet

LEMMA StatementSizes ==
  ASSUME Layout, statements # <<>>
  PROVE  /\ Head(statements).kind = "code" => Head(statements).size \in Nat
         /\ Head(statements).kind = "string" => Head(statements).count \in Nat
<1>1. Head(statements) \in Statements
  BY HeadTailProperties DEF Layout, CodegenTyped
<1> QED  BY <1>1 DEF Statements

LEMMA InitLayout == Init => Layout
<1> SUFFICES ASSUME Init PROVE Layout
  OBVIOUS
<1>1. LoaderTyped
  BY InitLoaderTyped DEF Init
<1>2. CodegenTyped
  <2>1. statements = <<>> /\ addresses = <<>> /\ symbols = <<>>
    BY DEF Init, InitCodegen
  <2>2. statements \in Seq(Statements) /\ addresses \in Seq(Nat) /\ symbols \in Seq(Symbols)
    BY <2>1, EmptySeq
  <2> QED  BY <2>2 DEF Init, InitCodegen, CodegenTyped, Phases
<1>3. SymbolsSound
  BY DEF Init, InitCodegen, SymbolsSound, Emitted
<1> QED  BY <1>1, <1>2, <1>3 DEF Layout, NothingYet, Init, InitCodegen

LEMMA StartStep == Layout /\ EmitStart => Layout'
<1> SUFFICES ASSUME Layout, EmitStart PROVE Layout'
  OBVIOUS
<1> DEFINE start == [name |-> "_start", offset |-> 0, size |-> text']
<1>1. LoaderTyped'
  BY DEF Layout, EmitStart, LoaderTyped, loaderVars
<1>2. text' \in Nat
  BY DEF EmitStart, StartSize
<1>3. /\ symbols' = <<start>> /\ start \in Symbols
      /\ start.name = "_start" /\ start.offset = 0 /\ start.size = text'
  <2>1. "_start" \in Names
    BY DEF Names
  <2> QED  BY <1>2, <2>1 DEF EmitStart, Symbols
<1> HIDE DEF start
<1>4. symbols' \in Seq(Symbols) /\ Len(symbols') = 1 /\ symbols'[1] = start
  BY <1>3
<1>5. /\ phase = "loading" /\ phase' = "functions" /\ loader = "done"
      /\ UNCHANGED <<loaderVars, target, emitting, statements, addresses, cstring>>
  BY DEF EmitStart
<1>6. emitting = 0 /\ addresses = <<>> /\ addresses \in Seq(Nat) /\ Len(addresses) = 0
  BY <1>5, EmptySeq DEF Layout, NothingYet, CodegenTyped
<1>7. CodegenTyped'
  BY <1>2, <1>4, <1>5 DEF Layout, CodegenTyped, Phases
<1>8. SymbolsSound'
  <2>1. loader' = loader /\ declarations' = declarations /\ Len(declarations) \in Nat
    BY <1>5, LenProperties DEF loaderVars, Layout, LoaderTyped
  <2>2. SymbolsEnd' = text'
    BY <1>5 DEF SymbolsEnd
  <2> QED  BY <1>2, <1>3, <1>4, <1>5, <1>6, <2>1, <2>2 DEF SymbolsSound
<1> QED  BY <1>1, <1>5, <1>7, <1>8 DEF Layout, NothingYet

LEMMA BeginStep == Layout /\ BeginFunction => Layout'
<1> SUFFICES ASSUME Layout, BeginFunction PROVE Layout'
  OBVIOUS
<1> DEFINE n == emitting + 1
<1>1. /\ phase = "functions" /\ phase' = "body" /\ emitting < Len(declarations)
      /\ emitting' = n /\ statements' = declarations[n].body
      /\ addresses' = Append(addresses, text)
      /\ text' = IF Arm64 THEN text + 4 ELSE text
      /\ UNCHANGED <<loaderVars, target, cstring, symbols>>
  BY DEF BeginFunction
<1>2. /\ text \in Nat /\ emitting \in Nat /\ addresses \in Seq(Nat) /\ symbols \in Seq(Symbols)
      /\ declarations \in Seq(Functions) /\ Len(declarations) \in Nat
  BY LenProperties DEF Layout, CodegenTyped, LoaderTyped
<1>3. text' \in Nat /\ text <= text'
  BY <1>1, <1>2
<1>4. LoaderTyped'
  BY <1>1 DEF Layout, LoaderTyped, loaderVars
<1>5. SymbolsSound /\ Emitted /\ phase # "body"
  BY <1>1 DEF Layout, Emitted
<1>6. /\ addresses' \in Seq(Nat) /\ Len(addresses') = n /\ addresses'[n] = text
      /\ \A i \in 1 .. emitting : addresses'[i] = addresses[i] /\ addresses[i] \in Nat
  <2>1. Len(addresses) = emitting
    BY <1>5 DEF SymbolsSound
  <2> QED  BY <1>1, <1>2, <2>1, AppendProperties, ElementOfSeq
<1>7. CodegenTyped'
  <2>1. declarations[n] \in Functions
    BY <1>1, <1>2, ElementOfSeq
  <2>2. statements' \in Seq(Statements)
    BY <1>1, <2>1 DEF Functions
  <2> QED  BY <1>1, <1>2, <1>3, <1>6, <2>2 DEF Layout, CodegenTyped, Phases
<1>8. SymbolsSound'
  <2>1. loader' = loader /\ declarations' = declarations
    BY <1>1 DEF loaderVars
  <2>2. SymbolsEnd' = text /\ SymbolsEnd = text
    BY <1>1, <1>6 DEF SymbolsEnd
  <2>3. \A i \in 1 .. n : addresses'[i] <= text'
    <3> SUFFICES ASSUME NEW i \in 1 .. n PROVE addresses'[i] <= text'
      OBVIOUS
    <3>1. CASE i = n
      BY <1>3, <1>6, <3>1
    <3>2. CASE i \in 1 .. emitting
      <4>1. addresses'[i] \in Nat /\ addresses'[i] <= text
        BY <1>5, <1>6, <3>2 DEF SymbolsSound
      <4> QED  BY <1>2, <1>3, <4>1
    <3> QED  BY <1>2, <3>1, <3>2
  <2>4. \A i \in 1 .. Len(symbols) : symbols[i].offset + symbols[i].size \in Nat
    BY SymbolTypes DEF Layout
  <2>5. \A i \in 1 .. Len(symbols) : symbols[i].offset + symbols[i].size <= text'
    <3> SUFFICES ASSUME NEW i \in 1 .. Len(symbols)
                 PROVE  symbols[i].offset + symbols[i].size <= text'
      OBVIOUS
    <3>1. symbols[i].offset + symbols[i].size <= text
      BY <1>5 DEF SymbolsSound
    <3> QED  BY <1>2, <1>3, <2>4, <3>1
  <2>6. Len(symbols) = emitting + 1 /\ Len(symbols) - 1 = emitting
    BY <1>2, <1>5 DEF SymbolsSound
  <2>7. \A i \in 1 .. Len(symbols) - 1 : symbols[i + 1].offset = addresses'[i]
    BY <1>5, <1>6, <2>6 DEF SymbolsSound
  <2>8. \A i \in 1 .. Len(symbols) :
          symbols[i].offset + symbols[i].size =
            IF i < Len(symbols) THEN symbols[i + 1].offset ELSE SymbolsEnd'
    BY <1>5, <2>2 DEF SymbolsSound
  <2>9. /\ symbols[1].name = "_start"
        /\ \A i \in 1 .. Len(symbols) - 1 : symbols[i + 1].name = declarations[i].name
        /\ loader # "running"
    BY <1>5 DEF SymbolsSound
  <2>10. n >= 1 /\ n <= Len(declarations)
    BY <1>1, <1>2
  <2> QED  BY <1>1, <1>6, <2>1, <2>3, <2>5, <2>6, <2>7, <2>8, <2>9, <2>10 DEF SymbolsSound
<1> QED  BY <1>1, <1>4, <1>7, <1>8 DEF Layout, NothingYet

LEMMA EndStep == Layout /\ EndFunction => Layout'
<1> SUFFICES ASSUME Layout, EndFunction PROVE Layout'
  OBVIOUS
<1> DEFINE offset == addresses[emitting]
           new == [name |-> declarations[emitting].name, offset |-> offset,
                   size |-> text' - offset]
<1>1. /\ phase = "body" /\ phase' = "functions"
      /\ text' = (IF declarations[emitting].returns THEN text
                  ELSE IF Arm64 THEN text + 8 ELSE text + 1)
      /\ symbols' = Append(symbols, new)
      /\ UNCHANGED <<loaderVars, target, emitting, statements, addresses, cstring>>
  BY DEF EndFunction, EndWithSymbol
<1>2. /\ text \in Nat /\ emitting \in Nat /\ addresses \in Seq(Nat) /\ symbols \in Seq(Symbols)
      /\ declarations \in Seq(Functions) /\ Len(declarations) \in Nat
  BY LenProperties DEF Layout, CodegenTyped, LoaderTyped
<1>3. text' \in Nat /\ text <= text'
  BY <1>1, <1>2
<1>4. SymbolsSound /\ Emitted
  BY <1>1 DEF Layout, Emitted
<1>5. /\ emitting >= 1 /\ emitting \in 1 .. Len(declarations) /\ Len(addresses) = emitting
      /\ Len(symbols) = emitting
  BY <1>1, <1>2, <1>4 DEF SymbolsSound
<1>6. offset \in Nat /\ offset <= text
  BY <1>2, <1>4, <1>5, ElementOfSeq DEF SymbolsSound
<1>7. declarations[emitting].name \in Names
  <2>1. declarations[emitting] \in Functions
    BY <1>2, <1>5, ElementOfSeq
  <2> QED  BY <2>1 DEF Functions, Names
<1>8. /\ new \in Symbols /\ new.name = declarations[emitting].name /\ new.offset = offset
      /\ new.offset + new.size = text'
  <2>1. text' - offset \in Nat /\ offset + (text' - offset) = text'
    BY <1>2, <1>3, <1>6
  <2> HIDE DEF offset
  <2>2. new.offset = offset /\ new.size = text' - offset /\ new.name = declarations[emitting].name
    OBVIOUS
  <2>3. new \in Symbols
    BY <1>6, <1>7, <2>1 DEF Symbols
  <2> HIDE DEF new
  <2> QED  BY <2>1, <2>2, <2>3
<1> HIDE DEF new
<1>9. /\ symbols' \in Seq(Symbols) /\ Len(symbols') = emitting + 1
      /\ symbols'[emitting + 1] = new
      /\ \A i \in 1 .. emitting : symbols'[i] = symbols[i]
  BY <1>1, <1>2, <1>5, <1>8, AppendProperties
<1>10. LoaderTyped'
  BY <1>1 DEF Layout, LoaderTyped, loaderVars
<1>11. CodegenTyped'
  BY <1>1, <1>3, <1>9 DEF Layout, CodegenTyped, Phases
<1>12. SymbolsSound'
  <2>1. loader' = loader /\ declarations' = declarations
    BY <1>1 DEF loaderVars
  <2>2. SymbolsEnd' = text' /\ SymbolsEnd = offset
    BY <1>1 DEF SymbolsEnd
  <2>3. \A x \in Nat : x <= text => x <= text'
    BY <1>2, <1>3
  <2>4. \A i \in 1 .. emitting : addresses[i] <= text'
    BY <1>4, <1>5, <2>3, SymbolTypes DEF SymbolsSound, Layout
  <2>5. ASSUME NEW i \in 1 .. emitting
        PROVE  symbols'[i + 1].name = declarations[i].name /\ symbols'[i + 1].offset = addresses[i]
    <3>1. CASE i = emitting
      BY <1>8, <1>9, <3>1
    <3>2. CASE i # emitting
      <4>1. i \in 1 .. Len(symbols) - 1 /\ i + 1 \in 1 .. emitting
        BY <1>2, <1>5, <3>2
      <4> QED  BY <1>4, <1>9, <4>1 DEF SymbolsSound
    <3> QED  BY <3>1, <3>2
  <2>6. ASSUME NEW i \in 1 .. emitting
        PROVE  /\ symbols'[i].offset + symbols'[i].size <= text'
               /\ symbols'[i].offset + symbols'[i].size = symbols'[i + 1].offset
    <3>1. /\ symbols[i].offset + symbols[i].size \in Nat
          /\ symbols[i].offset + symbols[i].size <= text
      BY <1>4, <1>5, SymbolTypes DEF SymbolsSound, Layout
    <3>2. symbols[i].offset + symbols[i].size =
            IF i < emitting THEN symbols[i + 1].offset ELSE offset
      BY <1>4, <1>5, <2>2 DEF SymbolsSound
    <3>3. CASE i = emitting
      BY <1>2, <1>8, <1>9, <2>3, <3>1, <3>2, <3>3
    <3>4. CASE i # emitting
      <4>1. i < emitting /\ i + 1 \in 1 .. emitting
        BY <1>2, <3>4
      <4> QED  BY <1>9, <2>3, <3>1, <3>2, <4>1
    <3> QED  BY <3>3, <3>4
  <2>7. symbols'[1].name = "_start" /\ emitting <= Len(declarations) /\ loader # "running"
    BY <1>4, <1>5, <1>9 DEF SymbolsSound
  <2>8. /\ symbols'[emitting + 1].offset + symbols'[emitting + 1].size = text'
        /\ text' <= text'
    BY <1>3, <1>8, <1>9
  <2>9. \A i \in 1 .. emitting + 1 :
          /\ symbols'[i].offset + symbols'[i].size <= text'
          /\ symbols'[i].offset + symbols'[i].size =
               IF i < emitting + 1 THEN symbols'[i + 1].offset ELSE text'
    <3> SUFFICES ASSUME NEW i \in 1 .. emitting + 1
                 PROVE  /\ symbols'[i].offset + symbols'[i].size <= text'
                        /\ symbols'[i].offset + symbols'[i].size =
                             IF i < emitting + 1 THEN symbols'[i + 1].offset ELSE text'
      OBVIOUS
    <3>1. CASE i \in 1 .. emitting
      <4>1. i < emitting + 1
        BY <1>2, <3>1
      <4> QED  BY <2>6, <3>1, <4>1
    <3>2. CASE i = emitting + 1
      BY <1>2, <2>8, <3>2
    <3> QED  BY <1>2, <3>1, <3>2
  <2>10. \A i \in 1 .. Len(symbols') - 1 : i \in 1 .. emitting
    BY <1>2, <1>9
  <2> QED  BY <1>1, <1>5, <1>9, <2>1, <2>2, <2>4, <2>5, <2>7, <2>9, <2>10 DEF SymbolsSound
<1> QED  BY <1>1, <1>10, <1>11, <1>12 DEF Layout, NothingYet

(* The rest of the actions, which add to the text alone or to nothing.     *)
LEMMA BodySteps ==
  ASSUME Layout,
         EmitCode \/ EmitCall \/ EmitForwardCall \/ EmitBuiltin \/ EmitString
  PROVE  Layout'
<1>1. cstring \in Nat /\ text \in Nat
  BY DEF Layout, CodegenTyped
<1>2. CASE EmitCode
  <2> DEFINE n == (IF Arm64 THEN 4 ELSE 1) * Head(statements).size
  <2>1. /\ phase = "body" /\ phase' = phase /\ statements # <<>> /\ statements' = Tail(statements)
        /\ Head(statements).kind = "code" /\ text' = text + n /\ cstring' = cstring
        /\ UNCHANGED <<loaderVars, target, emitting, addresses, symbols>>
    BY <1>2 DEF EmitCode, Emitting
  <2>2. n \in Nat
    BY <2>1, StatementSizes
  <2> HIDE DEF n
  <2> QED  BY <1>1, <2>1, <2>2, TextGrows
<1>3. CASE EmitCall \/ EmitForwardCall
  <2> DEFINE n == IF Arm64 THEN 4 ELSE 5
  <2>1. /\ phase = "body" /\ phase' = phase /\ statements # <<>> /\ statements' = Tail(statements)
        /\ text' = text + n /\ cstring' = cstring
        /\ UNCHANGED <<loaderVars, target, emitting, addresses, symbols>>
    BY <1>3 DEF EmitCall, EmitForwardCall, CallWithFrom, Emitting, CallEnd
  <2>2. n \in Nat
    OBVIOUS
  <2> HIDE DEF n
  <2> QED  BY <1>1, <2>1, <2>2, TextGrows
<1>4. CASE EmitBuiltin
  <2> DEFINE n == IF Windows THEN 0 ELSE 12
  <2>1. /\ phase = "body" /\ phase' = phase /\ statements # <<>> /\ statements' = Tail(statements)
        /\ text' = text + n /\ cstring' = cstring
        /\ UNCHANGED <<loaderVars, target, emitting, addresses, symbols>>
    BY <1>1, <1>4 DEF EmitBuiltin, Emitting
  <2>2. n \in Nat
    OBVIOUS
  <2> HIDE DEF n
  <2> QED  BY <1>1, <2>1, <2>2, TextGrows
<1>5. CASE EmitString
  <2>1. /\ phase = "body" /\ phase' = phase /\ statements # <<>> /\ statements' = Tail(statements)
        /\ Head(statements).kind = "string"
        /\ text' = text + 12 /\ cstring' = cstring + Head(statements).count
        /\ UNCHANGED <<loaderVars, target, emitting, addresses, symbols>>
    BY <1>5 DEF EmitString, Emitting
  <2>2. cstring' \in Nat
    BY <1>1, <2>1, StatementSizes
  <2> QED  BY <2>1, <2>2, TextGrows
<1> QED  BY <1>2, <1>3, <1>4, <1>5

LEMMA LayoutStep == Layout /\ [Next]_vars => Layout'
<1> SUFFICES ASSUME Layout, [Next]_vars PROVE Layout'
  OBVIOUS
<1>1. CASE LoadSources
  <2>1. /\ phase = "loading" /\ phase' \in {"loading", "done without output"} /\ LoaderNext
        /\ UNCHANGED <<target, emitting, statements, addresses, text, cstring, symbols>>
    BY <1>1 DEF LoadSources
  <2>2. LoaderTyped'
    BY <2>1, LoaderStep DEF Layout
  <2>3. CodegenTyped' /\ NothingYet' /\ SymbolsSound'
    BY <2>1 DEF Layout, CodegenTyped, NothingYet, SymbolsSound, Emitted, Phases
  <2> QED  BY <2>2, <2>3 DEF Layout
<1>2. CASE AbortOnUndeclared
  BY <1>2 DEF AbortOnUndeclared, Layout, LoaderTyped, loaderVars, CodegenTyped, NothingYet,
              SymbolsSound, Emitted, Phases
<1>3. ASSUME PatchCalls \/ LayOut PROVE Layout'
  <2>1. /\ phase \in {"functions", "layout"} /\ phase' \in {"layout", "done"}
        /\ phase = "functions" => emitting = Len(declarations)
        /\ UNCHANGED <<loaderVars, target, emitting, statements, addresses, text, cstring, symbols>>
    BY <1>3 DEF PatchCalls, LayOut
  <2>2. LoaderTyped'
    BY <2>1 DEF Layout, LoaderTyped, loaderVars
  <2>3. CodegenTyped' /\ NothingYet'
    BY <2>1 DEF Layout, CodegenTyped, NothingYet, Phases
  <2>4. SymbolsEnd' = text' /\ SymbolsEnd = text /\ phase # "body" /\ phase' # "body"
    BY <2>1 DEF SymbolsEnd
  <2>5. SymbolsSound'
    <3>1. loader' = loader /\ declarations' = declarations
      BY <2>1 DEF loaderVars
    <3> QED  BY <2>1, <2>4, <3>1 DEF Layout, SymbolsSound, Emitted
  <2> QED  BY <2>2, <2>3, <2>5 DEF Layout
<1>4. CASE UNCHANGED vars
  BY <1>4 DEF vars, codegenVars, Layout, LoaderTyped, loaderVars, CodegenTyped, NothingYet,
              SymbolsSound, SymbolsEnd, Emitted
<1> QED  BY <1>1, <1>2, <1>3, <1>4, StartStep, BeginStep, EndStep, BodySteps DEF Next

-----------------------------------------------------------------------------
(***************************************************************************)
(* The file: the symbols point at what is mapped from their functions.     *)
(***************************************************************************)
LEMMA AlignedUp ==
  ASSUME NEW n \in Nat, NEW a \in Nat \ {0}
  PROVE  AlignUp(n, a) \in Nat /\ n <= AlignUp(n, a)
<1> DEFINE m == n + a - 1
           q == m \div a
<1>1. m \in Nat
  OBVIOUS
<1> HIDE DEF m
<1>2. m = a * q + (m % a) /\ m % a \in 0 .. a - 1 /\ q \in Nat
  BY <1>1
<1> HIDE DEF q
<1>3. a * q \in Nat /\ q * a = a * q
  BY <1>2
<1>4. q * a \in Nat /\ n <= q * a
  BY <1>1, <1>2, <1>3 DEF m
<1> QED  BY <1>4 DEF AlignUp, q, m

(* What every entry of a symbol table needs: an address in the text        *)
(* section is mapped from the text in the file.                            *)
TextFound(file, section) ==
  /\ file.textAddress \in Nat /\ file.textAt \in Nat
  /\ \A o \in 0 .. text - 1 :
       /\ {s.offset + (file.textAddress + o) - s.address :
             s \in {x \in file.segments : Maps(x, file.textAddress + o)}} = {file.textAt + o}
       /\ Maps(file.sections[section], file.textAddress + o)
  /\ \A i \in 1 .. Len(symbols) :
       file.table[i + 1] = [address |-> file.textAddress + symbols[i].offset, section |-> section]

(* The table begins with an entry that is not a function's.                *)
LEMMA TableEntries ==
  ASSUME CodegenTyped, NEW first, NEW textAddress, NEW section
  PROVE  \A i \in 1 .. Len(symbols) :
           (<<first>> \o [k \in 1 .. Len(symbols) |->
                           [address |-> textAddress + symbols[k].offset, section |-> section]])[i + 1]
             = [address |-> textAddress + symbols[i].offset, section |-> section]
<1> DEFINE Entry(k) == [address |-> textAddress + symbols[k].offset, section |-> section]
           entries == [k \in 1 .. Len(symbols) |-> Entry(k)]
           All == {first} \cup {Entry(k) : k \in 1 .. Len(symbols)}
<1>1. Len(symbols) \in Nat
  BY SymbolTypes
<1>2. first \in All /\ \A k \in 1 .. Len(symbols) : Entry(k) \in All
  OBVIOUS
<1> HIDE DEF All, Entry
<1>3. entries \in Seq(All) /\ Len(entries) = Len(symbols) /\ <<first>> \in Seq(All)
  BY <1>1, <1>2
<1>4. \A k \in 1 .. Len(symbols) : entries[k] = Entry(k)
  OBVIOUS
<1> HIDE DEF entries
<1>5. \A i \in 1 .. 1 + Len(symbols) :
        (<<first>> \o entries)[i] = IF i <= 1 THEN <<first>>[i] ELSE entries[i - 1]
  BY <1>3, ConcatProperties
<1>6. \A i \in 1 .. Len(symbols) : (<<first>> \o entries)[i + 1] = Entry(i)
  <2> SUFFICES ASSUME NEW i \in 1 .. Len(symbols) PROVE (<<first>> \o entries)[i + 1] = Entry(i)
    OBVIOUS
  <2>1. i + 1 \in 1 .. 1 + Len(symbols) /\ ~(i + 1 <= 1) /\ (i + 1) - 1 = i
    BY <1>1
  <2> QED  BY <1>4, <1>5, <2>1
<1> QED  BY <1>6 DEF entries, Entry

LEMMA ElfTextFound == CodegenTyped => TextFound(ElfImage, 2)
<1> SUFFICES ASSUME CodegenTyped PROVE TextFound(ElfImage, 2)
  OBVIOUS
<1> DEFINE textAt == AlignUp(ElfHeaders + cstring, 4)
           textAddress == ElfTextAddress(textAt)
           first == [address |-> ElfBase, offset |-> 0, size |-> textAt]
           second == [address |-> textAddress, offset |-> textAt, size |-> text]
<1>1. text \in Nat /\ cstring \in Nat
  BY DEF CodegenTyped
<1>2. textAt \in Nat
  <2>1. ElfHeaders + cstring \in Nat
    BY <1>1 DEF ElfHeaders
  <2> QED  BY <2>1, AlignedUp
<1> HIDE DEF textAt
<1>3. textAddress \in Nat /\ ElfBase + textAt <= textAddress /\ ElfBase \in Nat
  <2>1. ElfBase \in Nat /\ ElfBase + textAt \in Nat /\ ElfPage \in Nat \ {0}
    BY <1>2 DEF ElfBase, ElfPage
  <2>2. AlignUp(ElfBase + textAt, ElfPage) \in Nat
        /\ ElfBase + textAt <= AlignUp(ElfBase + textAt, ElfPage)
    BY <2>1, AlignedUp
  <2> QED  BY <1>2, <2>1, <2>2 DEF ElfTextAddress
<1> HIDE DEF textAddress
<1>4. /\ ElfImage.textAddress = textAddress /\ ElfImage.textAt = textAt
      /\ ElfImage.segments = {first, second}
      /\ ElfImage.table = ElfTable(textAddress)
      /\ ElfImage.sections = ElfSections(textAt, textAddress)
  BY DEF ElfImage, textAt, textAddress
<1>5. ElfSections(textAt, textAddress)[2] = second
  BY DEF ElfSections
<1>6. ASSUME NEW o \in 0 .. text - 1
      PROVE  /\ {s.offset + (textAddress + o) - s.address :
                   s \in {x \in {first, second} : Maps(x, textAddress + o)}} = {textAt + o}
             /\ Maps(second, textAddress + o)
  <2>1. ~Maps(first, textAddress + o)
    BY <1>1, <1>2, <1>3 DEF Maps
  <2>2. Maps(second, textAddress + o)
    BY <1>1, <1>2, <1>3 DEF Maps
  <2>3. second.offset + (textAddress + o) - second.address = textAt + o
    BY <1>1, <1>2, <1>3
  <2> HIDE DEF first, second
  <2>4. {x \in {first, second} : Maps(x, textAddress + o)} = {second}
    BY <2>1, <2>2
  <2> QED  BY <2>2, <2>3, <2>4
<1>7. \A i \in 1 .. Len(symbols) :
        ElfTable(textAddress)[i + 1] = [address |-> textAddress + symbols[i].offset, section |-> 2]
  <2> DEFINE none == [address |-> 0, section |-> 0]
  <2>1. ElfTable(textAddress) =
          <<none>> \o [k \in 1 .. Len(symbols) |->
                        [address |-> textAddress + symbols[k].offset, section |-> 2]]
    BY DEF ElfTable
  <2> HIDE DEF none
  <2> QED  BY <2>1, TableEntries
<1> HIDE DEF first, second
<1> QED  BY <1>2, <1>3, <1>4, <1>5, <1>6, <1>7, ZenonT(60) DEF TextFound

LEMMA MachOTextFound == CodegenTyped => TextFound(MachOImage, 1)
<1> SUFFICES ASSUME CodegenTyped PROVE TextFound(MachOImage, 1)
  OBVIOUS
<1> DEFINE sections == AlignUp(text, 4) + AlignUp(cstring, 4)
           padded == AlignUp(MachOHeaders + sections, MachOPage)
           textAt == padded - sections
           cstringAt == textAt + sections - cstring
           first == [address |-> VmBase, offset |-> 0, size |-> cstringAt + cstring]
           last == MachOLinkEdit(cstringAt + cstring)
           second == [address |-> VmBase + textAt, offset |-> textAt, size |-> text]
<1>1. text \in Nat /\ cstring \in Nat /\ VmBase \in Nat
  BY SizesAssumption DEF CodegenTyped
<1>2. sections \in Nat /\ text <= sections
  <2>1. AlignUp(text, 4) \in Nat /\ text <= AlignUp(text, 4) /\ AlignUp(cstring, 4) \in Nat
    BY <1>1, AlignedUp
  <2> QED  BY <1>1, <2>1
<1> HIDE DEF sections
<1>3. padded \in Nat /\ MachOHeaders + sections <= padded /\ MachOHeaders \in Nat
  <2>1. MachOHeaders + sections \in Nat /\ MachOPage \in Nat \ {0} /\ MachOHeaders \in Nat
    BY <1>2 DEF MachOHeaders, MachOPage
  <2> QED  BY <2>1, AlignedUp
<1> HIDE DEF padded
<1>4. textAt \in Nat /\ cstringAt + cstring = textAt + sections /\ cstringAt \in Int
  BY <1>1, <1>2, <1>3
<1>5. /\ MachOImage.textAddress = VmBase + textAt /\ MachOImage.textAt = textAt
      /\ MachOImage.segments = {first, last}
      /\ MachOImage.table = MachOTable(VmBase + textAt)
      /\ MachOImage.sections[1] = second
  BY DEF MachOImage, sections, padded
<1> HIDE DEF textAt, cstringAt
<1>6. ASSUME NEW o \in 0 .. text - 1
      PROVE  /\ {s.offset + (VmBase + textAt + o) - s.address :
                   s \in {x \in {first, last} : Maps(x, VmBase + textAt + o)}} = {textAt + o}
             /\ Maps(second, VmBase + textAt + o)
  <2>1. Maps(first, VmBase + textAt + o)
    BY <1>1, <1>2, <1>4 DEF Maps
  <2>2. ~Maps(last, VmBase + textAt + o)
    <3>1. last.address = VmBase + (cstringAt + cstring)
      BY DEF MachOLinkEdit
    <3> HIDE DEF last
    <3> QED  BY <1>1, <1>2, <1>4, <3>1 DEF Maps
  <2>3. Maps(second, VmBase + textAt + o)
    BY <1>1, <1>2, <1>4 DEF Maps
  <2>4. first.offset + (VmBase + textAt + o) - first.address = textAt + o
    BY <1>1, <1>4
  <2> HIDE DEF first, last
  <2>5. {x \in {first, last} : Maps(x, VmBase + textAt + o)} = {first}
    BY <2>1, <2>2
  <2> QED  BY <2>3, <2>4, <2>5
<1>7. \A i \in 1 .. Len(symbols) :
        MachOTable(VmBase + textAt)[i + 1] =
          [address |-> VmBase + textAt + symbols[i].offset, section |-> 1]
  <2> DEFINE header == [address |-> VmBase, section |-> 1]
             textAddress == VmBase + textAt
  <2>1. MachOTable(textAddress) =
          <<header>> \o [k \in 1 .. Len(symbols) |->
                          [address |-> textAddress + symbols[k].offset, section |-> 1]]
    BY DEF MachOTable
  <2> HIDE DEF header, textAddress
  <2>2. \A i \in 1 .. Len(symbols) :
          MachOTable(textAddress)[i + 1] =
            [address |-> textAddress + symbols[i].offset, section |-> 1]
    BY <2>1, TableEntries
  <2> QED  BY <2>2 DEF textAddress
<1> HIDE DEF first, second, last
<1> DEFINE textAddress == VmBase + textAt
<1>8. textAddress \in Nat
  BY <1>1, <1>4
<1>9. /\ MachOImage.textAddress = textAddress
      /\ MachOImage.table = MachOTable(textAddress)
      /\ \A o \in 0 .. text - 1 :
           /\ {s.offset + (textAddress + o) - s.address :
                 s \in {x \in {first, last} : Maps(x, textAddress + o)}} = {textAt + o}
           /\ Maps(second, textAddress + o)
      /\ \A i \in 1 .. Len(symbols) :
           MachOTable(textAddress)[i + 1] =
             [address |-> textAddress + symbols[i].offset, section |-> 1]
  BY <1>5, <1>6, <1>7
<1> HIDE DEF textAddress
<1>10. MachOImage.textAddress \in Nat /\ MachOImage.textAt \in Nat
  BY <1>4, <1>5, <1>8, <1>9
<1>11. ASSUME NEW o \in 0 .. text - 1
       PROVE  /\ {s.offset + (MachOImage.textAddress + o) - s.address :
                     s \in {x \in MachOImage.segments : Maps(x, MachOImage.textAddress + o)}}
                   = {MachOImage.textAt + o}
              /\ Maps(MachOImage.sections[1], MachOImage.textAddress + o)
  BY <1>5, <1>9
<1>12. \A i \in 1 .. Len(symbols) :
         MachOImage.table[i + 1] =
           [address |-> MachOImage.textAddress + symbols[i].offset, section |-> 1]
  BY <1>9
<1> QED  BY <1>10, <1>11, <1>12, Zenon DEF TextFound

(* The image is that of the symbols and sections as they are.              *)
ImageSound == phase = "done" => image = Platforms[target.platform]

(* A file is determined by what was compiled.                              *)
LEMMA PlatformsStay ==
  ASSUME UNCHANGED <<target, text, cstring, symbols>>
  PROVE  Platforms' = Platforms
<1>1. ElfImage' = ElfImage
  <2>1. \A a : ElfTable(a)' = ElfTable(a)
    BY DEF ElfTable
  <2>2. \A a, b : ElfSections(a, b)' = ElfSections(a, b)
    BY DEF ElfSections
  <2> QED  BY <2>1, <2>2 DEF ElfImage
<1>2. MachOImage' = MachOImage
  <2>1. MachOPage' = MachOPage
    BY DEF MachOPage, Arm64
  <2>2. \A a : MachOTable(a)' = MachOTable(a) /\ MachOLinkEdit(a)' = MachOLinkEdit(a)
    BY DEF MachOTable, MachOLinkEdit
  <2> QED  BY <2>1, <2>2 DEF MachOImage
<1>3. PeImage' = PeImage
  BY DEF PeImage
<1> QED  BY <1>1, <1>2, <1>3 DEF Platforms

LEMMA ImageStep == Layout /\ ImageSound /\ [Next]_vars => ImageSound'
<1> SUFFICES ASSUME Layout, ImageSound, [Next]_vars PROVE ImageSound'
  OBVIOUS
<1>1. CASE LayOut
  <2>1. /\ image' = Platforms[target.platform]
        /\ UNCHANGED <<target, text, cstring, symbols>>
    BY <1>1 DEF LayOut
  <2> QED  BY <2>1, PlatformsStay DEF ImageSound
<1>2. CASE UNCHANGED vars
  <2>1. UNCHANGED <<target, text, cstring, symbols, image, phase>>
    BY <1>2 DEF vars, codegenVars
  <2> QED  BY <2>1, PlatformsStay DEF ImageSound
<1>3. CASE ~LayOut /\ ~UNCHANGED vars
  <2>1. phase' # "done"
    BY <1>3 DEF Next, LoadSources, EmitStart, BeginFunction, EmitCode, EmitCall, EmitForwardCall,
                CallWithFrom, EmitBuiltin, AbortOnUndeclared, EmitString, EndFunction,
                EndWithSymbol, PatchCalls, Emitting
  <2> QED  BY <2>1 DEF ImageSound
<1> QED  BY <1>1, <1>2, <1>3

LEMMA SymbolsFollow == Layout /\ ImageSound => SymbolsCoverTheText
<1> SUFFICES ASSUME Layout, ImageSound, phase \in {"layout", "done"}
             PROVE  SymbolsCoverTheText
  BY DEF SymbolsCoverTheText
<1>1. SymbolsSound /\ Emitted /\ SymbolsEnd = text /\ CodegenTyped
  BY DEF Layout, Emitted, SymbolsEnd
<1>2. /\ symbols \in Seq(Symbols) /\ Len(symbols) \in Nat
      /\ declarations \in Seq(Functions) /\ Len(declarations) \in Nat
      /\ Len(symbols) = Len(declarations) + 1 /\ Len(symbols) - 1 = Len(declarations)
  <2>1. /\ symbols \in Seq(Symbols) /\ Len(symbols) \in Nat
        /\ declarations \in Seq(Functions) /\ Len(declarations) \in Nat
    BY LenProperties DEF Layout, CodegenTyped, LoaderTyped
  <2>2. Len(symbols) = Len(declarations) + 1
    BY <1>1 DEF SymbolsSound
  <2> QED  BY <2>1, <2>2
<1>3. [i \in 1 .. Len(symbols) |-> symbols[i].name] =
        <<"_start">> \o [i \in 1 .. Len(declarations) |-> declarations[i].name]
  <2> DEFINE declared == [i \in 1 .. Len(declarations) |-> declarations[i].name]
             named == [i \in 1 .. Len(symbols) |-> symbols[i].name]
             start == "_start"
  <2>1. \A i \in 1 .. Len(declarations) : declarations[i].name \in Names
    <3>1. \A i \in 1 .. Len(declarations) : declarations[i] \in Functions
      BY <1>2, ElementOfSeq
    <3> QED  BY <3>1 DEF Functions, Names
  <2>2. declared \in Seq(Names) /\ Len(declared) = Len(declarations)
    BY <1>2, <2>1
  <2>3. named \in Seq(Names) /\ Len(named) = Len(symbols)
    BY <1>2, <1>1, SymbolTypes
  <2>4. start \in Names /\ symbols[1].name = start
    BY <1>1 DEF Names, SymbolsSound
  <2>5. \A i \in 1 .. Len(declarations) : named[i + 1] = declared[i]
    <3> SUFFICES ASSUME NEW i \in 1 .. Len(declarations) PROVE named[i + 1] = declared[i]
      OBVIOUS
    <3>1. symbols[i + 1].name = declarations[i].name
      BY <1>1, <1>2 DEF SymbolsSound
    <3>2. i + 1 \in 1 .. Len(symbols)
      BY <1>2
    <3> QED  BY <3>1, <3>2
  <2>6. named[1] = start
    BY <1>2, <2>4
  <2> HIDE DEF declared, named, start
  <2>7. <<start>> \in Seq(Names) /\ Len(<<start>>) = 1 /\ <<start>>[1] = start
    BY <2>4
  <2>8. /\ <<start>> \o declared \in Seq(Names)
        /\ Len(<<start>> \o declared) = 1 + Len(declarations)
        /\ \A i \in 1 .. 1 + Len(declarations) :
             (<<start>> \o declared)[i] = IF i <= 1 THEN <<start>>[i] ELSE declared[i - 1]
    BY <2>2, <2>7, ConcatProperties
  <2>9. \A i \in 1 .. Len(named) : named[i] = (<<start>> \o declared)[i]
    <3> SUFFICES ASSUME NEW i \in 1 .. Len(symbols) PROVE named[i] = (<<start>> \o declared)[i]
      BY <2>3
    <3>1. CASE i = 1
      BY <1>2, <2>6, <2>7, <2>8, <3>1
    <3>2. CASE i # 1
      <4>1. i - 1 \in 1 .. Len(declarations) /\ ~(i <= 1) /\ (i - 1) + 1 = i
            /\ i \in 1 .. 1 + Len(declarations)
        BY <1>2, <3>2
      <4>2. named[(i - 1) + 1] = declared[i - 1]
        BY <2>5, <4>1
      <4> QED  BY <2>8, <4>1, <4>2
    <3> QED  BY <3>1, <3>2
  <2>10. Len(named) = Len(<<start>> \o declared)
    BY <1>2, <2>3, <2>8
  <2>11. named = <<start>> \o declared
    BY <2>3, <2>8, <2>9, <2>10, SeqEqual
  <2> QED  BY <2>11 DEF named, declared, start
<1>4. \A i \in 1 .. Len(symbols) :
        symbols[i].offset + symbols[i].size =
          IF i < Len(symbols) THEN symbols[i + 1].offset ELSE text
  BY <1>1 DEF SymbolsSound
<1>5. ASSUME phase = "done", ~Windows, NEW i \in {k \in 1 .. Len(symbols) : symbols[k].size > 0}
      PROVE  LET entry == image.table[i + 1]
                 section == image.sections[entry.section]
             IN  /\ FileOffsets(entry.address) = {image.textAt + symbols[i].offset}
                 /\ Maps(section, entry.address)
                 /\ Maps(section, entry.address + symbols[i].size - 1)
  <2>1. PICK section \in {1, 2} : TextFound(image, section)
    <3>1. target.platform \in {"linux", "macos"}
      BY <1>1, <1>5, TargetsAssumption DEF CodegenTyped, Windows
    <3>2. image = Platforms[target.platform]
      BY <1>5 DEF ImageSound
    <3>3. CASE target.platform = "linux"
      <4>1. image = ElfImage
        BY <3>2, <3>3 DEF Platforms
      <4> QED  BY <1>1, <4>1, ElfTextFound
    <3>4. CASE target.platform = "macos"
      <4>1. image = MachOImage
        BY <3>2, <3>4 DEF Platforms
      <4> QED  BY <1>1, <4>1, MachOTextFound
    <3> QED  BY <3>1, <3>3, <3>4
  <2> DEFINE offset == symbols[i].offset
             size == symbols[i].size
             address == image.textAddress + offset
  <2>2. /\ image.table[i + 1] = [address |-> address, section |-> section]
        /\ image.textAddress \in Nat /\ image.textAt \in Nat
    BY <2>1 DEF TextFound
  <2>3. offset \in Nat /\ size \in Nat /\ size > 0 /\ offset + size <= text /\ text \in Nat
    BY <1>1, <1>5, SymbolTypes DEF SymbolsSound, CodegenTyped
  <2>4. offset \in 0 .. text - 1 /\ offset + size - 1 \in 0 .. text - 1
        /\ image.textAddress + (offset + size - 1) = address + size - 1
    BY <2>2, <2>3, SMTT(30)
  <2>5. /\ FileOffsets(address) = {image.textAt + offset}
        /\ Maps(image.sections[section], address)
    BY <2>1, <2>4 DEF TextFound, FileOffsets
  <2>6. Maps(image.sections[section], address + size - 1)
    BY <2>1, <2>4 DEF TextFound
  <2> QED  BY <2>2, <2>5, <2>6
<1> QED  BY <1>3, <1>4, <1>5 DEF SymbolsCoverTheText

(* For every program, every target and all sizes of code and strings, the  *)
(* symbols cover the text without gaps or overlaps, and the addresses in   *)
(* the symbol table of the file are mapped from the functions they name.   *)
THEOREM SymbolsAlwaysCover == Spec => []SymbolsCoverTheText
<1>1. Init => Layout /\ ImageSound
  BY InitLayout DEF Init, InitCodegen, ImageSound
<1> QED  BY <1>1, LayoutStep, ImageStep, SymbolsFollow, PTL DEF Spec

-----------------------------------------------------------------------------
(***************************************************************************)
(* The calls.  A BL of arm64 reaches as far as 26 bits can tell, which the *)
(* code does not check.                                                    *)
(***************************************************************************)
TextInReach == Arm64 => text < 2^27

(* Numbers this large are for the SMT solver alone.                        *)
LEMMA DisplacementIsInt == ASSUME NEW distance \in Int PROVE Displacement(distance) \in Int
<1>1. 2^26 = 67108864
  BY SMT
<1>2. (distance \div 4) % 67108864 \in Int
  BY SMT
<1> QED  BY <1>1, <1>2, SMT DEF Displacement

LEMMA DisplacementReaches ==
  ASSUME NEW call, call.from \in Nat, NEW address \in Nat,
         call.word = Displacement(address - call.from),
         Arm64 => /\ call.from % 4 = 0 /\ address % 4 = 0
                  /\ call.from < 2^27 /\ address < 2^27
  PROVE  CallTarget(call) = address
<1> DEFINE from == call.from
           words == (address - from) \div 4
<1>1. CASE ~Arm64
  BY <1>1, SMT DEF CallTarget, Displacement
<1>2. CASE Arm64
  <2>1. 2^26 = 67108864 /\ 2^27 = 134217728 /\ 2^(26 - 1) = 33554432
    BY SMT
  <2>2. from \in Nat /\ from % 4 = 0 /\ address % 4 = 0 /\ from < 134217728 /\ address < 134217728
    BY <1>2, <2>1, SMT
  <2>3. call.word = words % 2^26 /\ CallTarget(call) = from + 4 * Signed(call.word, 26)
    BY <1>2, SMT DEF Displacement, CallTarget
  <2> HIDE DEF from
  <2>4. words \in Int /\ 4 * words = address - from /\ words >= -33554432 /\ words < 33554432
    BY <2>2, SMT
  <2> HIDE DEF words
  <2>5. Signed(words % 67108864, 26) = words
    BY <2>1, <2>4, SMT DEF Signed
  <2>6. CallTarget(call) = from + 4 * words
    BY <2>1, <2>3, <2>5, SMT
  <2> QED  BY <2>2, <2>4, <2>6, SMT
<1> QED  BY <1>1, <1>2

Calls == [decl : Nat, from : Nat, word : Int]

CallsTyped ==
  /\ calls \in Seq(Calls) /\ callPatches \in Seq(Nat)
  /\ mainAddress \in Nat
  /\ entryCall \in [from : Nat, word : Int]
  /\ phase = "loading" => calls = <<>> /\ callPatches = <<>> /\ mainAddress = 0

Reaches(call) ==
  /\ call.decl \in 1 .. emitting
  /\ call.word = Displacement(addresses[call.decl] - call.from)
WillBePatched(i) == phase \in {"functions", "body"} /\ \E k \in 1 .. Len(callPatches) : callPatches[k] = i

(* A call reaches its function or is in the list of those to be patched.   *)
CallsSound ==
  Emitted =>
    \A i \in 1 .. Len(calls) :
      /\ calls[i].decl \in 1 .. Len(declarations)
      /\ calls[i].decl = Declaration(declarations[calls[i].decl].name)
      /\ WillBePatched(i) \/ Reaches(calls[i])

(* The address of main is 0 only as long as there is none: the start code  *)
(* comes before all functions.                                             *)
EntrySound ==
  Emitted =>
    /\ text > 0
    /\ (\E k \in 1 .. emitting : declarations[k].name = "main") => mainAddress > 0
    /\ mainAddress > 0 =>
         \E k \in 1 .. emitting : declarations[k].name = "main" /\ addresses[k] = mainAddress
    /\ phase \in {"layout", "done"} /\ mainAddress > 0 =>
         entryCall.word = Displacement(mainAddress - entryCall.from)

Links == CallsTyped /\ CallsSound /\ EntrySound

(* find_function_declaration_by_name finds what IsDeclared says is there.  *)
LEMMA DeclarationFound ==
  ASSUME LoaderTyped, NEW name, IsDeclared(name)
  PROVE  Declaration(name) \in 1 .. Len(declarations) /\ declarations[Declaration(name)].name = name
<1> DEFINE All == {i \in 1 .. Len(declarations) : declarations[i].name = name}
<1>1. All \in SUBSET Nat /\ All # {}
  <2>1. Len(declarations) \in Nat
    BY LenProperties DEF LoaderTyped
  <2>2. \A i \in All : i \in Nat
    BY <2>1
  <2>3. \E i \in 1 .. Len(declarations) : declarations[i].name = name
    BY DEF IsDeclared
  <2>4. \E i \in All : TRUE
    BY <2>3
  <2> HIDE DEF All
  <2> QED  BY <2>2, <2>4
<1>2. PICK i \in All : \A j \in All : i <= j
  <2> HIDE DEF All
  <2> QED  BY <1>1, LeastElement
<1>3. \A j \in 1 .. i - 1 : declarations[j].name # name
  <2> SUFFICES ASSUME NEW j \in 1 .. i - 1, declarations[j].name = name PROVE FALSE
    OBVIOUS
  <2>1. Len(declarations) \in Nat
    BY LenProperties DEF LoaderTyped
  <2>2. j \in All /\ ~(i <= j)
    BY <2>1
  <2> QED  BY <1>2, <2>2
<1> QED  BY <1>2, <1>3 DEF Declaration

LEMMA InitLinks == Init => Links
<1> SUFFICES ASSUME Init PROVE Links
  OBVIOUS
<1>1. CallsTyped
  <2>1. calls = <<>> /\ callPatches = <<>>
    BY DEF Init, InitCodegen
  <2>2. calls \in Seq(Calls) /\ callPatches \in Seq(Nat)
    BY <2>1, EmptySeq
  <2> QED  BY <2>1, <2>2 DEF Init, InitCodegen, CallsTyped
<1> QED  BY <1>1 DEF Links, CallsSound, EntrySound, Emitted, Init, InitCodegen

(* Steps that neither call nor patch.                                      *)
LEMMA OtherLinks ==
  ASSUME Layout, Links, Emitted, Emitted', phase' # "loading",
         phase' = phase \/ (phase \in {"functions", "body"} /\ phase' \in {"functions", "body"})
                        \/ (phase = "layout" /\ phase' = "done"),
         text' \in Nat, text <= text',
         UNCHANGED <<loaderVars, target, emitting, addresses, entryCall, mainAddress, calls,
                     callPatches>>
  PROVE  Links'
<1>1. declarations' = declarations
  BY DEF loaderVars
<1>2. CallsTyped'
  BY DEF Links, CallsTyped
<1>3. CallsSound'
  <2>1. \A i : WillBePatched(i)' <=> WillBePatched(i)
    BY DEF WillBePatched
  <2>2. \A i \in 1 .. Len(calls) : Reaches(calls[i])' <=> Reaches(calls[i])
    BY DEF Reaches, Displacement, Arm64
  <2> QED  BY <1>1, <2>1, <2>2, SMTT(30) DEF Links, CallsSound, Declaration
<1>4. EntrySound'
  <2>1. text \in Nat /\ text' > 0
    BY DEF Layout, CodegenTyped, Links, EntrySound
  <2> QED  BY <1>1, <2>1 DEF Links, EntrySound, Displacement, Arm64
<1> QED  BY <1>2, <1>3, <1>4 DEF Links

LEMMA StartLinks == Layout /\ Links /\ EmitStart => Links'
<1> SUFFICES ASSUME Layout, Links, EmitStart PROVE Links'
  OBVIOUS
<1>1. /\ phase = "loading" /\ phase' = "functions" /\ text' = StartSize
      /\ entryCall' = [from |-> IF Arm64 THEN 0 ELSE 5, word |-> 0]
      /\ UNCHANGED <<loaderVars, emitting, addresses, mainAddress, calls, callPatches>>
  BY DEF EmitStart
<1>2. calls = <<>> /\ mainAddress = 0 /\ emitting = 0 /\ calls \in Seq(Calls) /\ Len(calls) = 0
  BY <1>1, EmptySeq DEF Layout, NothingYet, Links, CallsTyped
<1>3. CallsTyped'
  BY <1>1 DEF Links, CallsTyped
<1>4. CallsSound'
  BY <1>1, <1>2 DEF CallsSound
<1>5. text' > 0
  BY <1>1 DEF StartSize
<1>6. EntrySound'
  BY <1>1, <1>2, <1>5 DEF EntrySound
<1> QED  BY <1>3, <1>4, <1>6 DEF Links

LEMMA BeginLinks == Layout /\ Links /\ BeginFunction => Links'
<1> SUFFICES ASSUME Layout, Links, BeginFunction PROVE Links'
  OBVIOUS
<1> DEFINE n == emitting + 1
<1>1. /\ phase = "functions" /\ phase' = "body" /\ emitting < Len(declarations)
      /\ emitting' = n /\ addresses' = Append(addresses, text)
      /\ mainAddress' = (IF declarations[n].name = "main" THEN text ELSE mainAddress)
      /\ text' = (IF Arm64 THEN text + 4 ELSE text)
      /\ UNCHANGED <<loaderVars, target, entryCall, calls, callPatches>>
  BY DEF BeginFunction
<1>2. /\ text \in Nat /\ emitting \in Nat /\ addresses \in Seq(Nat) /\ Len(addresses) = emitting
      /\ Len(declarations) \in Nat /\ declarations' = declarations
  BY <1>1, LenProperties DEF Layout, CodegenTyped, LoaderTyped, SymbolsSound, Emitted, loaderVars
<1>3. /\ addresses'[n] = text
      /\ \A i \in 1 .. emitting : addresses'[i] = addresses[i]
  BY <1>1, <1>2, AppendProperties
<1>4. CallsSound /\ EntrySound /\ Emitted /\ CallsTyped
  BY <1>1 DEF Links, Emitted
<1>5. CallsTyped'
  BY <1>1, <1>2, <1>4 DEF CallsTyped
<1>6. CallsSound'
  <2>1. \A i : WillBePatched(i)' <=> WillBePatched(i)
    BY <1>1 DEF WillBePatched
  <2>2. \A i \in 1 .. Len(calls) : Reaches(calls[i]) => Reaches(calls[i])'
    BY <1>1, <1>2, <1>3, SMTT(30) DEF Reaches, Displacement, Arm64
  <2> QED  BY <1>1, <1>2, <1>4, <2>1, <2>2, ZenonT(60) DEF CallsSound, Declaration
<1>7. EntrySound'
  <2>1. text > 0 /\ text' > 0
    BY <1>1, <1>2, <1>4 DEF EntrySound
  <2>2. CASE declarations[n].name = "main"
    <3>1. n \in 1 .. n /\ mainAddress' = text
      BY <1>1, <1>2, <2>2
    <3> QED  BY <1>1, <1>2, <1>3, <2>1, <2>2, <3>1 DEF EntrySound
  <2>3. CASE declarations[n].name # "main"
    <3>1. mainAddress' = mainAddress
      BY <1>1, <2>3
    <3>2. \A k \in 1 .. n : declarations[k].name = "main" => k \in 1 .. emitting
      BY <1>2, <2>3
    <3>3. \A k \in 1 .. emitting : k \in 1 .. n
      BY <1>2
    <3> QED  BY <1>1, <1>2, <1>3, <1>4, <2>1, <3>1, <3>2, <3>3 DEF EntrySound
  <2> QED  BY <2>2, <2>3
<1> QED  BY <1>5, <1>6, <1>7 DEF Links

LEMMA CallLinks ==
  ASSUME Layout, Links, EmitCall \/ EmitForwardCall
  PROVE  Links'
<1>1. PICK known \in BOOLEAN : CallWithFrom(known, CallFrom)
  BY DEF EmitCall, EmitForwardCall
<1> DEFINE name == Head(statements).name
           decl == Declaration(name)
           new == [decl |-> decl, from |-> CallFrom,
                   word |-> IF known THEN Displacement(addresses[decl] - CallFrom) ELSE 0]
<1>2. /\ phase = "body" /\ phase' = phase /\ IsDeclared(name)
      /\ (decl <= Len(addresses)) = known
      /\ calls' = Append(calls, new)
      /\ callPatches' = IF known THEN callPatches ELSE Append(callPatches, Len(calls'))
      /\ text' = CallEnd
      /\ UNCHANGED <<loaderVars, target, emitting, addresses, entryCall, mainAddress>>
  BY <1>1 DEF CallWithFrom, Emitting, NewPatch
<1>3. text \in Nat /\ CallFrom \in Nat /\ text' \in Nat /\ text <= text'
  BY <1>2 DEF Layout, CodegenTyped, CallFrom, CallEnd
<1>4. decl \in 1 .. Len(declarations) /\ declarations[decl].name = name
  BY <1>2, DeclarationFound DEF Layout
<1>5. /\ emitting \in Nat /\ Len(addresses) = emitting /\ Len(declarations) \in Nat
      /\ \A k \in 1 .. emitting : addresses[k] \in Nat
  BY <1>2, LenProperties, SymbolTypes
     DEF Layout, CodegenTyped, LoaderTyped, SymbolsSound, Emitted
<1>6. decl = Declaration(declarations[decl].name)
  BY <1>4
<1> HIDE DEF decl, name
<1>7. /\ new \in Calls /\ new.decl = decl
      /\ known => Reaches(new)
  <2>1. CASE known
    <3>1. decl \in 1 .. emitting /\ addresses[decl] \in Nat
      <4>1. decl <= Len(addresses)
        BY <1>2, <2>1
      <4>2. decl \in Int /\ 1 <= decl
        BY <1>4, <1>5
      <4> QED  BY <1>5, <4>1, <4>2
    <3>2. /\ new = [decl |-> decl, from |-> CallFrom, word |-> new.word]
          /\ new.word = Displacement(addresses[decl] - CallFrom)
      BY <2>1
    <3>3. addresses[decl] - CallFrom \in Int
      BY <1>3, <3>1
    <3>4. new.word \in Int
      BY <3>2, <3>3, DisplacementIsInt
    <3> HIDE DEF new
    <3>5. new.decl = decl /\ new.from = CallFrom /\ new \in Calls
      BY <1>3, <3>1, <3>2, <3>4 DEF Calls
    <3> QED  BY <3>1, <3>2, <3>5 DEF Reaches
  <2>2. CASE ~known
    <3>1. new = [decl |-> decl, from |-> CallFrom, word |-> 0]
      BY <2>2
    <3> HIDE DEF new
    <3> QED  BY <1>3, <1>4, <1>5, <2>2, <3>1 DEF Calls
  <2> QED  BY <2>1, <2>2
<1> HIDE DEF new
<1>8. calls \in Seq(Calls) /\ callPatches \in Seq(Nat) /\ Len(calls) \in Nat
  BY LenProperties DEF Links, CallsTyped
<1>9. /\ calls' \in Seq(Calls) /\ Len(calls') = Len(calls) + 1
      /\ calls'[Len(calls) + 1] = new
      /\ \A i \in 1 .. Len(calls) : calls'[i] = calls[i]
  BY <1>2, <1>7, <1>8, AppendProperties
<1>10. /\ callPatches' \in Seq(Nat)
       /\ \A i : WillBePatched(i) => WillBePatched(i)'
       /\ ~known => WillBePatched(Len(calls))'
  <2>1. CASE known
    <3>1. callPatches' = callPatches /\ phase' = phase
      BY <1>2, <2>1
    <3>2. \A i : WillBePatched(i)' <=> WillBePatched(i)
      BY <3>1 DEF WillBePatched
    <3>3. callPatches' \in Seq(Nat)
      BY <1>8, <3>1
    <3> HIDE DEF WillBePatched
    <3> QED  BY <2>1, <3>2, <3>3
  <2>2. CASE ~known
    <3>1. Len(callPatches) \in Nat
      BY <1>8, LenProperties
    <3>2. /\ callPatches' \in Seq(Nat) /\ Len(callPatches') = Len(callPatches) + 1
          /\ callPatches'[Len(callPatches) + 1] = Len(calls) + 1
          /\ \A k \in 1 .. Len(callPatches) : callPatches'[k] = callPatches[k]
      BY <1>2, <1>8, <1>9, <2>2, AppendProperties
    <3>3. /\ Len(callPatches) + 1 \in 1 .. Len(callPatches')
          /\ \A k \in 1 .. Len(callPatches) : k \in 1 .. Len(callPatches')
      BY <3>1, <3>2
    <3>4. phase' = "body" /\ phase = "body"
      BY <1>2
    <3>5. ASSUME NEW i, WillBePatched(i) PROVE WillBePatched(i)'
      <4>1. PICK k \in 1 .. Len(callPatches) : callPatches[k] = i
        BY <3>5 DEF WillBePatched
      <4>2. k \in 1 .. Len(callPatches') /\ callPatches'[k] = i
        BY <3>2, <3>3, <4>1
      <4> QED  BY <3>4, <4>2 DEF WillBePatched
    <3>6. WillBePatched(Len(calls))'
      <4>1. \E k \in 1 .. Len(callPatches') : callPatches'[k] = Len(calls) + 1
        BY <3>2, <3>3
      <4>2. Len(calls') = Len(calls) + 1
        BY <1>9
      <4> QED  BY <3>4, <4>1, <4>2 DEF WillBePatched
    <3> HIDE DEF WillBePatched
    <3> QED  BY <3>2, <3>5, <3>6
  <2> QED  BY <2>1, <2>2
<1>11. declarations' = declarations
  BY <1>2 DEF loaderVars
<1>12. CallsTyped'
  BY <1>2, <1>9, <1>10 DEF Links, CallsTyped
<1>13. CallsSound'
  <2>1. Emitted /\ CallsSound
    BY <1>2 DEF Emitted, Links
  <2>2. ASSUME NEW i \in 1 .. Len(calls')
        PROVE  /\ calls'[i].decl \in 1 .. Len(declarations)
               /\ calls'[i].decl = Declaration(declarations[calls'[i].decl].name)
               /\ WillBePatched(i)' \/ Reaches(calls'[i])
    <3>1. CASE i \in 1 .. Len(calls)
      <4>1. calls'[i] = calls[i]
        BY <1>9, <3>1
      <4>2. /\ calls[i].decl \in 1 .. Len(declarations)
            /\ calls[i].decl = Declaration(declarations[calls[i].decl].name)
            /\ WillBePatched(i) \/ Reaches(calls[i])
        BY <2>1, <3>1 DEF CallsSound
      <4>3. WillBePatched(i) => WillBePatched(i)'
        BY <1>10
      <4>4. Reaches(calls[i]) => Reaches(calls'[i])
        BY <4>1 DEF Reaches
      <4>5. calls'[i].decl = calls[i].decl
        BY <4>1
      <4>6. WillBePatched(i)' \/ Reaches(calls'[i])
        BY <4>2, <4>3, <4>4
      <4>7. calls'[i].decl = Declaration(declarations[calls'[i].decl].name)
        BY <4>2, <4>5
      <4>8. calls'[i].decl \in 1 .. Len(declarations)
        BY <4>2, <4>5
      <4> QED  BY <4>6, <4>7, <4>8
    <3>2. CASE i = Len(calls) + 1
      <4>1. calls'[i] = new
        BY <1>9, <3>2
      <4>2. calls'[i].decl = decl
        BY <1>7, <4>1
      <4>3. /\ calls'[i].decl \in 1 .. Len(declarations)
            /\ calls'[i].decl = Declaration(declarations[calls'[i].decl].name)
        BY <1>4, <1>6, <4>2
      <4>4. ASSUME known PROVE Reaches(calls'[i])
        <5>1. Reaches(new)
          BY <1>7, <4>4
        <5> QED  BY <4>1, <5>1 DEF Reaches
      <4>5. ~known => WillBePatched(i)'
        <5>1. i = Len(calls')
          BY <1>9, <3>2
        <5>2. ~known => \E k \in 1 .. Len(callPatches') : callPatches'[k] = Len(calls')
          BY <1>10 DEF WillBePatched
        <5> QED  BY <1>2, <5>1, <5>2 DEF WillBePatched
      <4> QED  BY <4>3, <4>4, <4>5
    <3> QED  BY <1>8, <1>9, <3>1, <3>2
  <2>3. \A i \in 1 .. Len(calls') : Reaches(calls'[i]) => Reaches(calls[i])'
    BY <1>2 DEF Reaches, Displacement, Arm64
  <2> QED  BY <1>11, <2>2, <2>3 DEF CallsSound, Declaration
<1>14. EntrySound'
  <2>1. Emitted /\ text > 0
    BY <1>2 DEF Links, EntrySound, Emitted
  <2>2. text' > 0
    BY <1>3, <2>1
  <2> QED  BY <1>2, <1>11, <2>1, <2>2 DEF Links, EntrySound
<1> QED  BY <1>12, <1>13, <1>14 DEF Links

LEMMA PatchLinks ==
  ASSUME Layout, Links, PatchCalls
  PROVE  Links'
<1> DEFINE Word(i) == Displacement(addresses[calls[i].decl] - calls[i].from)
           Patched(i) == [calls[i] EXCEPT !.word = Word(i)]
<1>1. /\ phase = "functions" /\ phase' = "layout" /\ emitting = Len(declarations)
      /\ Emitted /\ CallsSound /\ EntrySound /\ CallsTyped
      /\ UNCHANGED <<loaderVars, target, emitting, addresses, text, mainAddress, callPatches>>
      /\ declarations' = declarations
  BY DEF PatchCalls, Links, Emitted, loaderVars
<1>2. \A distance : Displacement(distance)' = Displacement(distance)
  BY <1>1 DEF Displacement, Arm64
<1>3. /\ Len(addresses) = emitting
      /\ \A k \in 1 .. emitting : addresses[k] \in Nat
  BY <1>1, SymbolTypes DEF Layout, SymbolsSound
<1>4. calls' = [i \in 1 .. Len(calls) |-> IF Contains(callPatches, i) THEN Patched(i) ELSE calls[i]]
  BY DEF PatchCalls
<1>5. calls \in Seq(Calls) /\ Len(calls) \in Nat /\ \A i \in 1 .. Len(calls) : calls[i] \in Calls
  BY <1>1, LenProperties DEF CallsTyped
<1>6. ASSUME NEW i \in 1 .. Len(calls)
      PROVE  /\ calls'[i] \in Calls /\ calls'[i].decl = calls[i].decl
             /\ calls'[i].decl \in 1 .. Len(declarations)
             /\ calls'[i].decl = Declaration(declarations[calls'[i].decl].name)
             /\ Reaches(calls'[i])
  <2>1. /\ calls[i] \in Calls /\ calls[i].decl \in Nat /\ calls[i].from \in Nat
        /\ calls[i].word \in Int
    BY <1>5 DEF Calls
  <2>2. /\ calls[i].decl \in 1 .. Len(declarations)
        /\ calls[i].decl = Declaration(declarations[calls[i].decl].name)
        /\ WillBePatched(i) \/ Reaches(calls[i])
    BY <1>1 DEF CallsSound
  <2>3. CASE Contains(callPatches, i)
    <3>1. calls'[i] = Patched(i)
      BY <1>4, <2>3
    <3>2. addresses[calls[i].decl] \in Nat
      BY <1>1, <1>3, <2>2
    <3>3. Word(i) \in Int
      <4>1. addresses[calls[i].decl] - calls[i].from \in Int
        BY <2>1, <3>2
      <4> QED  BY <4>1, DisplacementIsInt
    <3> HIDE DEF Word
    <3>4. /\ calls'[i].decl = calls[i].decl /\ calls'[i].from = calls[i].from
          /\ calls'[i].word = Word(i) /\ calls'[i] \in Calls
      BY <2>1, <3>1, <3>3 DEF Calls
    <3> QED  BY <1>1, <2>2, <3>4 DEF Reaches, Word
  <2>4. CASE ~Contains(callPatches, i)
    <3>1. calls'[i] = calls[i]
      BY <1>4, <2>4
    <3>2. ~WillBePatched(i)
      BY <2>4 DEF WillBePatched, Contains
    <3> QED  BY <2>1, <2>2, <3>1, <3>2
  <2> QED  BY <2>3, <2>4
<1> HIDE DEF Patched, Word
<1>7. calls' \in Seq(Calls) /\ Len(calls') = Len(calls)
  <2>1. DOMAIN calls' = 1 .. Len(calls)
    BY <1>4
  <2>2. calls' \in [1 .. Len(calls) -> Calls]
    BY <1>4, <1>6, <2>1
  <2> QED  BY <1>5, <2>2, SeqDef, LenProperties
<1>8. /\ entryCall' \in [from : Nat, word : Int]
      /\ mainAddress > 0 => entryCall'.word = Displacement(mainAddress - entryCall'.from)
  <2>1. mainAddress \in Nat /\ entryCall \in [from : Nat, word : Int]
    BY <1>1 DEF CallsTyped
  <2>2. entryCall' = IF mainAddress > 0
                     THEN [entryCall EXCEPT !.word = Displacement(mainAddress - entryCall.from)]
                     ELSE entryCall
    BY DEF PatchCalls
  <2>3. entryCall.from \in Nat /\ entryCall.word \in Int
    BY <2>1
  <2>4. CASE mainAddress > 0
    <3> DEFINE word == Displacement(mainAddress - entryCall.from)
    <3>1. entryCall' = [entryCall EXCEPT !.word = word]
      BY <2>2, <2>4
    <3>2. word \in Int
      <4>1. mainAddress - entryCall.from \in Int
        BY <2>1, <2>3
      <4> QED  BY <4>1, DisplacementIsInt
    <3> HIDE DEF word
    <3>3. entryCall'.from = entryCall.from /\ entryCall'.word = word
      BY <2>1, <3>1
    <3>4. entryCall' \in [from : Nat, word : Int]
      BY <2>1, <3>1, <3>2
    <3> QED  BY <3>3, <3>4 DEF word
  <2>5. CASE ~(mainAddress > 0)
    BY <2>1, <2>2, <2>5
  <2> QED  BY <2>4, <2>5
<1>9. CallsTyped'
  BY <1>1, <1>7, <1>8 DEF CallsTyped
<1>10. CallsSound'
  <2>1. ASSUME NEW i \in 1 .. Len(calls)
        PROVE  /\ calls'[i].decl \in 1 .. Len(declarations')
               /\ calls'[i].decl = Declaration(declarations[calls[i].decl].name)'
               /\ Reaches(calls[i])'
    <3>1. calls'[i].decl \in 1 .. Len(declarations')
      BY <1>1, <1>6
    <3>2. calls'[i].decl = Declaration(declarations[calls[i].decl].name)'
      BY <1>1, <1>6 DEF Declaration
    <3>3. Reaches(calls[i])'
      BY <1>1, <1>2, <1>6 DEF Reaches
    <3> QED  BY <3>1, <3>2, <3>3
  <2> QED  BY <1>7, <2>1 DEF CallsSound
<1>11. EntrySound'
  BY <1>1, <1>2, <1>8 DEF EntrySound
<1> QED  BY <1>9, <1>10, <1>11 DEF Links

LEMMA LinksStep == Layout /\ Links /\ [Next]_vars => Links'
<1> SUFFICES ASSUME Layout, Links, [Next]_vars PROVE Links'
  OBVIOUS
<1> DEFINE linkVars == <<target, emitting, addresses, entryCall, mainAddress, calls, callPatches>>
<1>1. CASE LoadSources
  <2>1. /\ phase = "loading" /\ phase' \in {"loading", "done without output"}
        /\ UNCHANGED <<entryCall, mainAddress, calls, callPatches>>
    BY <1>1 DEF LoadSources
  <2> QED  BY <2>1 DEF Links, CallsTyped, CallsSound, EntrySound, Emitted
<1>2. CASE AbortOnUndeclared
  <2>1. phase' = "aborted" /\ UNCHANGED <<entryCall, mainAddress, calls, callPatches>>
    BY <1>2 DEF AbortOnUndeclared
  <2> QED  BY <2>1 DEF Links, CallsTyped, CallsSound, EntrySound, Emitted
<1>3. ASSUME EmitCode \/ EmitBuiltin \/ EmitString \/ EndFunction PROVE Links'
  <2>1. /\ phase = "body" /\ phase' \in {"functions", "body"}
        /\ UNCHANGED <<loaderVars, linkVars>>
    BY <1>3 DEF EmitCode, EmitBuiltin, EmitString, EndFunction, EndWithSymbol, Emitting
  <2>2. text' \in Nat /\ text <= text'
    <3>1. text \in Nat
      BY DEF Layout, CodegenTyped
    <3>2. CASE EmitCode
      <4> DEFINE n == (IF Arm64 THEN 4 ELSE 1) * Head(statements).size
      <4>1. Head(statements).size \in Nat /\ text' = text + n
        BY <3>2, StatementSizes DEF EmitCode, Emitting
      <4>2. n \in Nat
        BY <4>1
      <4> HIDE DEF n
      <4> QED  BY <3>1, <4>1, <4>2
    <3>3. CASE EmitBuiltin
      BY <3>1, <3>3 DEF EmitBuiltin
    <3>4. CASE EmitString
      BY <3>1, <3>4 DEF EmitString
    <3>5. CASE EndFunction
      BY <3>1, <3>5 DEF EndFunction, EndWithSymbol
    <3> QED  BY <1>3, <3>2, <3>3, <3>4, <3>5
  <2> QED  BY <2>1, <2>2, OtherLinks DEF Emitted
<1>4. CASE LayOut
  <2>1. /\ phase = "layout" /\ phase' = "done" /\ text' = text
        /\ UNCHANGED <<loaderVars, linkVars>>
    BY <1>4 DEF LayOut
  <2>2. text \in Nat
    BY DEF Layout, CodegenTyped
  <2> QED  BY <2>1, <2>2, OtherLinks DEF Emitted
<1>5. CASE UNCHANGED vars
  <2>1. UNCHANGED <<loaderVars, linkVars, phase, text>>
    BY <1>5 DEF vars, codegenVars
  <2>2. CASE Emitted /\ phase # "loading"
    <3>1. text \in Nat /\ Emitted'
      BY <2>1, <2>2 DEF Layout, CodegenTyped, Emitted
    <3> QED  BY <2>1, <2>2, <3>1, OtherLinks
  <2>3. CASE ~(Emitted /\ phase # "loading")
    <3>1. ~Emitted'
      BY <2>1, <2>3 DEF Emitted
    <3> QED  BY <2>1, <3>1 DEF Links, CallsTyped, CallsSound, EntrySound
  <2> QED  BY <2>2, <2>3
<1> QED  BY <1>1, <1>2, <1>3, <1>4, <1>5, StartLinks, BeginLinks, CallLinks, PatchLinks DEF Next

(* On arm64 every instruction is a word: text, functions and calls are at  *)
(* multiples of 4.                                                         *)
WordsAligned ==
  Emitted /\ Arm64 =>
    /\ text % 4 = 0
    /\ \A i \in 1 .. emitting : addresses[i] % 4 = 0
    /\ \A i \in 1 .. Len(calls) : calls[i].from % 4 = 0 /\ calls[i].from <= text
    /\ entryCall.from = 0

(* What grows by words and keeps the places of functions and calls.        *)
LEMMA WordsAdded ==
  ASSUME Layout, WordsAligned, Emitted, Arm64, NEW n \in Nat, text' = text + 4 * n,
         UNCHANGED <<emitting, addresses, entryCall>>,
         \A i \in 1 .. Len(calls') : calls'[i].from \in Nat,
         \A i \in 1 .. Len(calls') :
           \/ calls'[i].from = text
           \/ i \in 1 .. Len(calls) /\ calls'[i].from = calls[i].from
  PROVE  WordsAligned'
<1>1. text \in Nat /\ text % 4 = 0
  BY DEF WordsAligned, Layout, CodegenTyped
<1>2. text' \in Nat /\ text <= text' /\ text' % 4 = 0
  BY <1>1
<1>3. ASSUME NEW i \in 1 .. Len(calls')
      PROVE  calls'[i].from % 4 = 0 /\ calls'[i].from <= text'
  <2>1. calls'[i].from \in Nat
    OBVIOUS
  <2>2. CASE calls'[i].from = text
    BY <1>1, <1>2, <2>2
  <2>3. CASE i \in 1 .. Len(calls) /\ calls'[i].from = calls[i].from
    <3>1. calls[i].from % 4 = 0 /\ calls[i].from <= text
      BY <2>3 DEF WordsAligned
    <3> QED  BY <1>1, <1>2, <2>1, <2>3, <3>1
  <2> QED  BY <2>2, <2>3
<1> QED  BY <1>2, <1>3 DEF WordsAligned

LEMMA WordsStep == Layout /\ Links /\ WordsAligned /\ [Next]_vars => WordsAligned'
<1> SUFFICES ASSUME Layout, Links, WordsAligned, [Next]_vars, Emitted', Arm64'
             PROVE  WordsAligned'
  BY DEF WordsAligned
<1>1. Arm64
  BY DEF Arm64, Next, vars, codegenVars, LoadSources, EmitStart, BeginFunction, EmitCode, EmitCall,
         EmitForwardCall, CallWithFrom, EmitBuiltin, AbortOnUndeclared, EmitString, EndFunction,
         EndWithSymbol, PatchCalls, LayOut
<1>2. /\ text \in Nat /\ emitting \in Nat /\ addresses \in Seq(Nat)
      /\ calls \in Seq(Calls) /\ Len(calls) \in Nat
  BY LenProperties DEF Layout, CodegenTyped, Links, CallsTyped
<1>3. \A i \in 1 .. Len(calls) : calls[i] \in Calls /\ calls[i].from \in Nat
  <2>1. \A i \in 1 .. Len(calls) : calls[i] \in Calls
    BY <1>2, ElementOfSeq
  <2> QED  BY <2>1 DEF Calls
<1>4. CASE EmitStart
  <2>1. /\ phase = "loading" /\ emitting = 0 /\ calls = <<>>
        /\ text' = StartSize /\ entryCall' = [from |-> 0, word |-> 0]
        /\ UNCHANGED <<emitting, calls>>
    BY <1>1, <1>4 DEF EmitStart, Layout, NothingYet, Links, CallsTyped
  <2>2. text' % 4 = 0
    BY <1>1, <2>1 DEF StartSize
  <2> QED  BY <2>1, <2>2 DEF WordsAligned
<1>5. CASE BeginFunction
  <2> DEFINE n == emitting + 1
  <2>1. /\ Emitted /\ text' = text + 4 /\ emitting' = n /\ addresses' = Append(addresses, text)
        /\ UNCHANGED <<calls, entryCall>>
    BY <1>1, <1>5 DEF BeginFunction, Emitted
  <2>2. Len(addresses) = emitting
    BY <2>1 DEF Layout, SymbolsSound
  <2>3. addresses'[n] = text /\ \A i \in 1 .. emitting : addresses'[i] = addresses[i]
    BY <1>2, <2>1, <2>2, AppendProperties
  <2>4. /\ text % 4 = 0 /\ entryCall.from = 0
        /\ \A i \in 1 .. emitting : addresses[i] % 4 = 0
        /\ \A i \in 1 .. Len(calls) : calls[i].from % 4 = 0 /\ calls[i].from <= text
    BY <1>1, <2>1 DEF WordsAligned
  <2>5. text' % 4 = 0 /\ \A x \in Nat : x <= text => x <= text'
    BY <1>2, <2>1, <2>4
  <2>6. \A i \in 1 .. n : addresses'[i] % 4 = 0
    <3>1. \A i \in 1 .. n : i = n \/ i \in 1 .. emitting
      BY <1>2
    <3> QED  BY <2>3, <2>4, <3>1
  <2> QED  BY <1>3, <2>1, <2>4, <2>5, <2>6 DEF WordsAligned
<1>6. CASE EmitCode
  <2>1. /\ Emitted /\ Head(statements).size \in Nat /\ text' = text + 4 * Head(statements).size
        /\ UNCHANGED <<emitting, addresses, entryCall, calls>>
    BY <1>1, <1>6, StatementSizes DEF EmitCode, Emitting, Emitted
  <2> QED  BY <1>1, <1>3, <2>1, WordsAdded
<1>7. CASE EmitCall \/ EmitForwardCall
  <2>1. PICK known \in BOOLEAN : CallWithFrom(known, CallFrom)
    BY <1>7 DEF EmitCall, EmitForwardCall
  <2>2. PICK new : calls' = Append(calls, new) /\ new.from = text
    BY <1>1, <2>1 DEF CallWithFrom, CallFrom
  <2>3. Emitted /\ text' = text + 4 /\ UNCHANGED <<emitting, addresses, entryCall>>
    BY <1>1, <2>1 DEF CallWithFrom, Emitting, Emitted, CallEnd
  <2>4. \A i \in 1 .. Len(calls') :
          \/ calls'[i].from = text
          \/ i \in 1 .. Len(calls) /\ calls'[i].from = calls[i].from
    <3> DEFINE All == Calls \cup {new}
    <3>1. calls \in Seq(All) /\ new \in All
      BY <1>2
    <3> HIDE DEF All
    <3>2. /\ Len(calls') = Len(calls) + 1 /\ calls'[Len(calls) + 1] = new
          /\ \A i \in 1 .. Len(calls) : calls'[i] = calls[i]
      BY <2>2, <3>1, AppendProperties
    <3>3. \A i \in 1 .. Len(calls') : i = Len(calls) + 1 \/ i \in 1 .. Len(calls)
      BY <1>2, <3>2
    <3> QED  BY <2>2, <3>2, <3>3
  <2>5. \A i \in 1 .. Len(calls') : calls'[i].from \in Nat
    BY <1>2, <1>3, <2>4
  <2>6. 1 \in Nat /\ text' = text + 4 * 1
    BY <1>2, <2>3
  <2> QED  BY <1>1, <2>3, <2>4, <2>5, <2>6, WordsAdded
<1>8. CASE EmitBuiltin
  <2> DEFINE n == IF Windows THEN 0 ELSE 3
  <2>1. /\ Emitted /\ n \in Nat /\ text' = text + 4 * n
        /\ UNCHANGED <<emitting, addresses, entryCall, calls>>
    BY <1>2, <1>8 DEF EmitBuiltin, Emitting, Emitted
  <2> HIDE DEF n
  <2> QED  BY <1>1, <1>3, <2>1, WordsAdded
<1>9. CASE EmitString
  <2>1. /\ Emitted /\ text' = text + 4 * 3
        /\ UNCHANGED <<emitting, addresses, entryCall, calls>>
    BY <1>2, <1>9 DEF EmitString, Emitting, Emitted
  <2> QED  BY <1>1, <1>3, <2>1, WordsAdded
<1>10. CASE EndFunction
  <2> DEFINE n == IF declarations[emitting].returns THEN 0 ELSE 2
  <2>1. /\ Emitted /\ n \in Nat /\ text' = text + 4 * n
        /\ UNCHANGED <<emitting, addresses, entryCall, calls>>
    BY <1>1, <1>2, <1>10 DEF EndFunction, EndWithSymbol, Emitted
  <2> HIDE DEF n
  <2> QED  BY <1>1, <1>3, <2>1, WordsAdded
<1>11. CASE PatchCalls
  <2>1. /\ Emitted /\ UNCHANGED <<emitting, addresses, text>>
        /\ calls' = [i \in 1 .. Len(calls) |->
                       IF Contains(callPatches, i)
                       THEN [calls[i] EXCEPT
                               !.word = Displacement(addresses[calls[i].decl] - calls[i].from)]
                       ELSE calls[i]]
        /\ entryCall' = IF mainAddress > 0
                        THEN [entryCall EXCEPT !.word = Displacement(mainAddress - entryCall.from)]
                        ELSE entryCall
    BY <1>11 DEF PatchCalls, Emitted
  <2>2. /\ Len(calls') = Len(calls)
        /\ \A i \in 1 .. Len(calls) : calls'[i].from = calls[i].from
    <3>1. \A i \in 1 .. Len(calls) : calls'[i].from = calls[i].from
      BY <1>3, <2>1 DEF Calls
    <3>2. calls' \in [1 .. Len(calls) -> {calls'[i] : i \in 1 .. Len(calls)}]
      BY <2>1
    <3>3. Len(calls') = Len(calls)
      BY <1>2, <3>2, SeqDef, LenProperties
    <3> QED  BY <3>1, <3>3
  <2>3. entryCall'.from = entryCall.from
    BY <2>1 DEF Links, CallsTyped
  <2> QED  BY <1>1, <2>1, <2>2, <2>3 DEF WordsAligned
<1>12. CASE LayOut \/ UNCHANGED vars
  <2>1. Emitted /\ UNCHANGED <<emitting, addresses, text, calls, entryCall>>
    BY <1>12 DEF LayOut, vars, codegenVars, Emitted
  <2> QED  BY <1>1, <2>1 DEF WordsAligned
<1>13. CASE LoadSources \/ AbortOnUndeclared
  BY <1>13 DEF LoadSources, AbortOnUndeclared, Emitted
<1> QED  BY <1>4, <1>5, <1>6, <1>7, <1>8, <1>9, <1>10, <1>11, <1>12, <1>13 DEF Next

LEMMA CallsFollow ==
  Layout /\ Links /\ WordsAligned => (TextInReach => CallsReachTheirFunction)
<1> SUFFICES ASSUME Layout, Links, WordsAligned, TextInReach, phase \in {"layout", "done"}
             PROVE  CallsReachTheirFunction
  BY DEF CallsReachTheirFunction
<1>1. /\ Emitted /\ phase # "body" /\ phase # "functions"
      /\ SymbolsSound /\ CallsSound /\ EntrySound /\ CallsTyped
  BY DEF Emitted, Layout, Links
<1>2. /\ emitting = Len(declarations) /\ emitting \in Nat
      /\ Len(symbols) = emitting + 1 /\ Len(addresses) = emitting
      /\ \A i \in 1 .. Len(symbols) - 1 : /\ symbols[i + 1].name = declarations[i].name
                                         /\ symbols[i + 1].offset = addresses[i]
  BY <1>1 DEF SymbolsSound, Layout, CodegenTyped
<1>3. \A i \in 1 .. emitting : /\ i + 1 \in 2 .. Len(symbols) /\ i + 1 \in 1 .. Len(symbols)
                              /\ symbols[i + 1].name = declarations[i].name
                              /\ symbols[i + 1].offset = addresses[i]
  <2> SUFFICES ASSUME NEW i \in 1 .. emitting
               PROVE  /\ i + 1 \in 2 .. Len(symbols) /\ i + 1 \in 1 .. Len(symbols)
                      /\ symbols[i + 1].name = declarations[i].name
                      /\ symbols[i + 1].offset = addresses[i]
    OBVIOUS
  <2>1. /\ i + 1 \in 2 .. Len(symbols) /\ i + 1 \in 1 .. Len(symbols)
        /\ i \in 1 .. Len(symbols) - 1
    BY <1>2
  <2> QED  BY <1>2, <2>1
<1>4. text \in Nat
  BY DEF Layout, CodegenTyped
<1>5. ASSUME NEW k \in 1 .. emitting
      PROVE  /\ addresses[k] \in Nat
             /\ Arm64 => addresses[k] % 4 = 0 /\ addresses[k] < 2^27
  <2>1. addresses[k] \in Nat /\ addresses[k] <= text
    BY <1>1, <1>2, SymbolTypes DEF Layout, SymbolsSound
  <2>2. Arm64 => addresses[k] % 4 = 0
    BY <1>1 DEF WordsAligned
  <2>3. 2^27 = 134217728
    BY SMT
  <2> QED  BY <1>4, <2>1, <2>2, <2>3, SMT DEF TextInReach
<1>6. ASSUME NEW i \in 1 .. Len(calls)
      PROVE  LET name == declarations[calls[i].decl].name
             IN  /\ calls[i].decl = Declaration(name)
                 /\ \E k \in 1 .. Len(symbols) :
                      symbols[k].name = name /\ symbols[k].offset = CallTarget(calls[i])
                 /\ CallTarget(calls[i]) = addresses[calls[i].decl]
  <2>1. calls[i].decl = Declaration(declarations[calls[i].decl].name) /\ Reaches(calls[i])
    BY <1>1 DEF CallsSound, WillBePatched
  <2>2. /\ calls[i].decl \in 1 .. emitting
        /\ calls[i].word = Displacement(addresses[calls[i].decl] - calls[i].from)
    BY <2>1 DEF Reaches
  <2>3. calls[i].from \in Nat
    <3>1. calls[i] \in Calls
      BY <1>1, ElementOfSeq DEF CallsTyped
    <3> QED  BY <3>1 DEF Calls
  <2>4. Arm64 => calls[i].from % 4 = 0 /\ calls[i].from < 2^27
    <3>1. Arm64 => calls[i].from % 4 = 0 /\ calls[i].from <= text
      BY <1>1 DEF WordsAligned
    <3>2. 2^27 = 134217728
      BY SMT
    <3> QED  BY <1>4, <2>3, <3>1, <3>2, SMT DEF TextInReach
  <2>5. CallTarget(calls[i]) = addresses[calls[i].decl]
    BY <1>5, <2>2, <2>3, <2>4, DisplacementReaches
  <2> HIDE DEF Declaration
  <2> QED  BY <1>3, <2>1, <2>2, <2>5
<1>7. ASSUME IsDeclared("main")
      PROVE  \E k \in 2 .. Len(symbols) :
               symbols[k].name = "main" /\ symbols[k].offset = CallTarget(entryCall)
  <2>1. \E k \in 1 .. emitting : declarations[k].name = "main"
    BY <1>2, <1>7 DEF IsDeclared
  <2>2. mainAddress > 0 /\ entryCall.word = Displacement(mainAddress - entryCall.from)
    BY <1>1, <2>1 DEF EntrySound
  <2>3. PICK k \in 1 .. emitting : declarations[k].name = "main" /\ addresses[k] = mainAddress
    BY <1>1, <2>2 DEF EntrySound
  <2>4. CallTarget(entryCall) = mainAddress
    <3>1. entryCall.from \in Nat
      BY <1>1 DEF CallsTyped
    <3>2. 0 < 2^27
      <4>1. 2^27 = 134217728
        BY SMT
      <4> QED  BY <4>1, SMT
    <3>3. Arm64 => entryCall.from % 4 = 0 /\ entryCall.from < 2^27
      BY <1>1, <3>2 DEF WordsAligned
    <3> QED  BY <1>5, <2>2, <2>3, <3>1, <3>3, DisplacementReaches
  <2> QED  BY <1>3, <2>3, <2>4
<1> QED  BY <1>6, <1>7 DEF CallsReachTheirFunction

(* For every program and every target, as long as the text is not longer   *)
(* than a BL reaches, every call reaches the function its name stands for, *)
(* in whatever order functions and calls come, and the start code a main.  *)
THEOREM CallsAlwaysReach == Spec => [](TextInReach => CallsReachTheirFunction)
<1>1. Init => Layout /\ Links /\ WordsAligned
  BY InitLayout, InitLinks DEF Init, InitCodegen, WordsAligned, Emitted
<1>2. Layout /\ Links /\ WordsAligned /\ [Next]_vars => Layout' /\ Links' /\ WordsAligned'
  BY LayoutStep, LinksStep, WordsStep
<1>3. Layout /\ Links /\ WordsAligned => (TextInReach => CallsReachTheirFunction)
  BY CallsFollow
<1> QED  BY <1>1, <1>2, <1>3, PTL DEF Spec

-----------------------------------------------------------------------------
(***************************************************************************)
(* The string literals.  An ADRP reaches as far as 21 bits of pages.       *)
(***************************************************************************)
LiteralsInReach == Arm64 => text < 2^30 /\ cstring < 2^30

(* What AlignUp does for the alignments of the files.                      *)
LEMMA AlignedTo4 ==
  ASSUME NEW n \in Nat
  PROVE  /\ AlignUp(n, 4) \in Nat /\ AlignUp(n, 4) % 4 = 0
         /\ n <= AlignUp(n, 4) /\ AlignUp(n, 4) < n + 4
BY SMT DEF AlignUp

LEMMA AlignedTo512 ==
  ASSUME NEW n \in Nat
  PROVE  /\ AlignUp(n, 512) \in Nat /\ AlignUp(n, 512) % 512 = 0
         /\ n <= AlignUp(n, 512) /\ AlignUp(n, 512) < n + 512
BY SMT DEF AlignUp

LEMMA AlignedTo4096 ==
  ASSUME NEW n \in Nat
  PROVE  /\ AlignUp(n, 4096) \in Nat /\ AlignUp(n, 4096) % 4096 = 0
         /\ n <= AlignUp(n, 4096) /\ AlignUp(n, 4096) < n + 4096
BY SMT DEF AlignUp

LEMMA AlignedTo16384 ==
  ASSUME NEW n \in Nat
  PROVE  /\ AlignUp(n, 16384) \in Nat /\ AlignUp(n, 16384) % 16384 = 0
         /\ n <= AlignUp(n, 16384) /\ AlignUp(n, 16384) < n + 16384
BY SMT DEF AlignUp

(* FileOffsets of a file that is not written yet.                          *)
Offsets(segments, address) ==
  {s.offset + address - s.address : s \in {x \in segments : Maps(x, address)}}

(* The strings are mapped once, and not far from the text.                 *)
CstringFound(file) ==
  /\ file.cstringAddress \in Nat /\ file.cstringAt \in Nat /\ file.textAddress \in Nat
  /\ \A o \in 0 .. cstring - 1 :
       Offsets(file.segments, file.cstringAddress + o) = {file.cstringAt + o}
  /\ file.textAddress <= file.cstringAddress + 2 * cstring + 8192
  /\ file.cstringAddress <= file.textAddress + text + 8192

LEMMA CstringByte ==
  ASSUME text \in Nat, cstring \in Nat, NEW file, CstringFound(file), NEW o \in 0 .. cstring - 1
  PROVE  Offsets(file.segments, file.cstringAddress + o) = {file.cstringAt + o}
BY SMTT(30) DEF CstringFound

LEMMA ElfCstringFound == CodegenTyped => CstringFound(ElfImage)
<1> SUFFICES ASSUME CodegenTyped PROVE CstringFound(ElfImage)
  OBVIOUS
<1> DEFINE textAt == AlignUp(176 + cstring, 4)
           page == AlignUp(2097152 + textAt, 4096)
           first == [address |-> ElfBase, offset |-> 0, size |-> textAt]
           second == [address |-> page + textAt, offset |-> textAt, size |-> text]
           start == ElfBase + ElfHeaders
<1>1. text \in Nat /\ cstring \in Nat
  BY DEF CodegenTyped
<1>2. ElfBase = 2097152 /\ ElfHeaders = 176 /\ ElfPage = 4096
  BY SMT DEF ElfBase, ElfHeaders, ElfPage
<1>3. textAt \in Nat /\ 176 + cstring <= textAt /\ textAt < 180 + cstring
  <2>1. 176 + cstring \in Nat
    BY <1>1
  <2> QED  BY <1>1, <2>1, AlignedTo4
<1>4. /\ ElfImage.textAddress = page + textAt /\ ElfImage.cstringAt = ElfHeaders
      /\ ElfImage.cstringAddress = start /\ ElfImage.segments = {first, second}
  BY <1>2 DEF ElfImage, ElfTextAddress
<1> HIDE DEF textAt
<1>5. page \in Nat /\ 2097152 + textAt <= page /\ page < 2097152 + textAt + 4096
  <2> DEFINE end == 2097152 + textAt
  <2>1. end \in Nat
    BY <1>3, SMT
  <2> HIDE DEF end
  <2>2. AlignUp(end, 4096) \in Nat /\ end <= AlignUp(end, 4096) /\ AlignUp(end, 4096) < end + 4096
    BY <2>1, AlignedTo4096
  <2> QED  BY <2>2, SMT DEF end
<1> HIDE DEF page
<1>6. ASSUME NEW o \in 0 .. cstring - 1
      PROVE  Offsets({first, second}, start + o) = {ElfHeaders + o}
  <2>1. Maps(first, start + o)
    BY <1>1, <1>2, <1>3, SMT DEF Maps
  <2>2. ~Maps(second, start + o)
    BY <1>1, <1>2, <1>3, <1>5, SMT DEF Maps
  <2>3. first.offset + (start + o) - first.address = ElfHeaders + o
    BY <1>1, <1>2, SMT
  <2> HIDE DEF first, second, start
  <2>4. {x \in {first, second} : Maps(x, start + o)} = {first}
    BY <2>1, <2>2
  <2> QED  BY <2>3, <2>4 DEF Offsets
<1>7. /\ start \in Nat /\ ElfHeaders \in Nat /\ page + textAt \in Nat
      /\ page + textAt <= start + 2 * cstring + 8192
      /\ start <= page + textAt + text + 8192
  BY <1>1, <1>2, <1>3, <1>5, SMT
<1> HIDE DEF first, second, start
<1>8. \A o \in 0 .. cstring - 1 :
        Offsets(ElfImage.segments, ElfImage.cstringAddress + o) = {ElfImage.cstringAt + o}
  BY <1>4, <1>6
<1> DEFINE file == ElfImage
<1>9. /\ file.cstringAddress \in Nat /\ file.cstringAt \in Nat /\ file.textAddress \in Nat
      /\ file.textAddress <= file.cstringAddress + 2 * cstring + 8192
      /\ file.cstringAddress <= file.textAddress + text + 8192
      /\ \A o \in 0 .. cstring - 1 :
           Offsets(file.segments, file.cstringAddress + o) = {file.cstringAt + o}
  BY <1>4, <1>7, <1>8
<1> HIDE DEF file
<1>10. CstringFound(file)
  BY <1>1, <1>9 DEF CstringFound
<1> QED  BY <1>10 DEF file

LEMMA MachOCstringFound == CodegenTyped => CstringFound(MachOImage)
<1> SUFFICES ASSUME CodegenTyped PROVE CstringFound(MachOImage)
  OBVIOUS
<1> DEFINE words == AlignUp(text, 4)
           sections == words + AlignUp(cstring, 4)
           padded == AlignUp(MachOHeaders + sections, MachOPage)
           textAt == padded - sections
           cstringAt == textAt + sections - cstring
           first == [address |-> VmBase, offset |-> 0, size |-> cstringAt + cstring]
           last == MachOLinkEdit(cstringAt + cstring)
<1>1. text \in Nat /\ cstring \in Nat /\ VmBase \in Nat
  BY SizesAssumption DEF CodegenTyped
<1>2. /\ words \in Nat /\ words < text + 4
      /\ sections \in Nat /\ words + cstring <= sections /\ sections < words + cstring + 4
  <2>1. words \in Nat /\ words < text + 4
    BY <1>1, AlignedTo4
  <2> HIDE DEF words
  <2>2. /\ AlignUp(cstring, 4) \in Nat
        /\ cstring <= AlignUp(cstring, 4) /\ AlignUp(cstring, 4) < cstring + 4
    BY <1>1, AlignedTo4
  <2> QED  BY <1>1, <2>1, <2>2
<1> HIDE DEF words
<1> HIDE DEF sections
<1>3. padded \in Nat /\ MachOHeaders + sections <= padded /\ MachOHeaders \in Nat
  <2>1. MachOHeaders + sections \in Nat /\ MachOPage \in Nat \ {0} /\ MachOHeaders \in Nat
    BY <1>2 DEF MachOHeaders, MachOPage
  <2> QED  BY <2>1, AlignedUp
<1> HIDE DEF padded
<1>4. /\ textAt \in Nat /\ cstringAt \in Nat /\ textAt <= cstringAt
      /\ cstringAt <= textAt + text + 8
  BY <1>1, <1>2, <1>3
<1>5. /\ MachOImage.textAddress = VmBase + textAt /\ MachOImage.cstringAt = cstringAt
      /\ MachOImage.cstringAddress = VmBase + cstringAt
      /\ MachOImage.segments = {first, last}
  BY DEF MachOImage, sections, words, padded
<1> HIDE DEF textAt, cstringAt
<1>6. ASSUME NEW o \in 0 .. cstring - 1
      PROVE  Offsets({first, last}, VmBase + cstringAt + o) = {cstringAt + o}
  <2>1. Maps(first, VmBase + cstringAt + o)
    BY <1>1, <1>4 DEF Maps
  <2>2. ~Maps(last, VmBase + cstringAt + o)
    <3>1. last.address = VmBase + (cstringAt + cstring)
      BY DEF MachOLinkEdit
    <3> HIDE DEF last
    <3> QED  BY <1>1, <1>4, <3>1 DEF Maps
  <2>3. first.offset + (VmBase + cstringAt + o) - first.address = cstringAt + o
    BY <1>1, <1>4
  <2> HIDE DEF first, last
  <2>4. {x \in {first, last} : Maps(x, VmBase + cstringAt + o)} = {first}
    BY <2>1, <2>2
  <2> QED  BY <2>3, <2>4 DEF Offsets
<1> HIDE DEF first, last
<1> DEFINE start == VmBase + cstringAt
<1>7. /\ start \in Nat /\ VmBase + textAt \in Nat
      /\ VmBase + textAt <= start + 2 * cstring + 8192
      /\ start <= VmBase + textAt + text + 8192
  BY <1>1, <1>4
<1>8. /\ MachOImage.cstringAddress = start
      /\ \A o \in 0 .. cstring - 1 :
           Offsets({first, last}, start + o) = {cstringAt + o}
  BY <1>5, <1>6
<1> HIDE DEF start
<1> QED  BY <1>4, <1>5, <1>7, <1>8 DEF CstringFound

LEMMA FileFound ==
  ASSUME CodegenTyped, ~Windows
  PROVE  CstringFound(Platforms[target.platform])
<1>1. target.platform \in {"linux", "macos"}
  BY TargetsAssumption DEF CodegenTyped, Windows
<1>2. CASE target.platform = "linux"
  BY <1>2, ElfCstringFound DEF Platforms
<1>3. CASE target.platform = "macos"
  BY <1>3, MachOCstringFound DEF Platforms
<1> QED  BY <1>1, <1>2, <1>3

LEMMA StringWordTypes ==
  ASSUME NEW address \in Nat, NEW instruction \in Nat
  PROVE  StringWord(address, instruction) \in Seq(Int)
<1> DEFINE pages == (address \div 4096) - (instruction \div 4096)
<1>1. pages \in Int
  BY SMT
<1>2. 2^19 = 524288
  BY SMT
<1> HIDE DEF pages
<1>3. pages % 4 \in Int /\ (pages \div 4) % 2^19 \in Int /\ address % 4096 \in Int
  BY <1>1, <1>2, SMT
<1>4. <<pages % 4, (pages \div 4) % 2^19, address % 4096>> \in Seq(Int)
  BY <1>3
<1>5. <<address - instruction>> \in Seq(Int)
  BY SMT
<1> QED  BY <1>4, <1>5 DEF StringWord, pages

LEMMA StringWordReaches ==
  ASSUME NEW address \in Nat, NEW instruction \in Nat,
         Arm64 => /\ address <= instruction + 4294000000
                  /\ instruction <= address + 4294000000
  PROVE  StringTarget(StringWord(address, instruction), instruction) = address
<1>1. CASE ~Arm64
  BY <1>1, SMT DEF StringTarget, StringWord
<1>2. CASE Arm64
  <2> DEFINE from == instruction \div 4096
             pages == (address \div 4096) - from
             low == pages % 4
             high == (pages \div 4) % 2^19
             rest == address % 4096
  <2>1. 2^19 = 524288 /\ 2^21 = 2097152 /\ 2^(21 - 1) = 1048576
    BY SMT
  <2>2. /\ from \in Nat /\ rest \in Nat /\ pages \in Int
        /\ (from + pages) * 4096 + rest = address
        /\ pages >= -1048576 /\ pages < 1048576
    BY <1>2, SMT
  <2>3. StringWord(address, instruction) = <<low, high, rest>>
    BY <1>2 DEF StringWord
  <2>4. StringTarget(<<low, high, rest>>, instruction) = (from + Signed(4 * high + low, 21)) * 4096 + rest
    BY <1>2 DEF StringTarget
  <2> HIDE DEF from, pages, rest
  <2>5. 4 * high + low = IF pages >= 0 THEN pages ELSE pages + 2097152
    BY <2>1, <2>2, SMT
  <2> HIDE DEF high, low
  <2>6. Signed(4 * high + low, 21) = pages
    BY <2>1, <2>2, <2>5, SMT DEF Signed
  <2> QED  BY <2>2, <2>3, <2>4, <2>6
<1> QED  BY <1>1, <1>2

Literals == [from : Nat, offset : Nat, count : Nat, word : Seq(Int)]

(* The literals have bytes of their own, and once the file is laid out     *)
(* their instructions have words.                                          *)
StringsSound ==
  /\ strings \in Seq(Literals)
  /\ phase = "loading" => strings = <<>>
  /\ Emitted => \A i \in 1 .. Len(strings) : /\ strings[i].from <= text
                                            /\ strings[i].offset + strings[i].count <= cstring
  /\ phase = "done" /\ ~Windows =>
       \A i \in 1 .. Len(strings) :
         strings[i].word = StringWord(StringAddress(image, strings[i]),
                                      image.textAddress + strings[i].from)

LEMMA LiteralTypes ==
  ASSUME strings \in Seq(Literals)
  PROVE  /\ Len(strings) \in Nat
         /\ \A i \in 1 .. Len(strings) :
              /\ strings[i] \in Literals
              /\ strings[i].from \in Nat /\ strings[i].offset \in Nat /\ strings[i].count \in Nat
<1>1. Len(strings) \in Nat /\ \A i \in 1 .. Len(strings) : strings[i] \in Literals
  BY LenProperties, ElementOfSeq
<1> QED  BY <1>1 DEF Literals

LEMMA StringsStep == Layout /\ StringsSound /\ [Next]_vars => StringsSound'
<1> SUFFICES ASSUME Layout, StringsSound, [Next]_vars PROVE StringsSound'
  OBVIOUS
<1>1. text \in Nat /\ cstring \in Nat /\ strings \in Seq(Literals)
  BY DEF Layout, CodegenTyped, StringsSound
<1>2. CASE EmitString
  <2> DEFINE new == [from |-> IF Arm64 THEN text + 4 ELSE text + 12,
                     offset |-> cstring, count |-> Head(statements).count, word |-> <<>>]
  <2>1. /\ Emitted /\ phase = "body" /\ phase' = "body" /\ strings' = Append(strings, new)
        /\ Head(statements).count \in Nat
        /\ cstring' = cstring + Head(statements).count /\ text' = text + 12
    BY <1>2, StatementSizes DEF EmitString, Emitting, Emitted
  <2>2. /\ new \in Literals /\ new.from <= text'
        /\ new.offset = cstring /\ new.count = Head(statements).count
    <3>1. <<>> \in Seq(Int)
      BY EmptySeq
    <3> QED  BY <1>1, <2>1, <3>1 DEF Literals
  <2> HIDE DEF new
  <2>3. /\ strings' \in Seq(Literals) /\ Len(strings') = Len(strings) + 1
        /\ strings'[Len(strings) + 1] = new
        /\ \A i \in 1 .. Len(strings) : strings'[i] = strings[i]
    BY <1>1, <2>1, <2>2, AppendProperties
  <2>4. ASSUME NEW i \in 1 .. Len(strings')
        PROVE  /\ strings'[i].from <= text'
               /\ strings'[i].offset + strings'[i].count <= cstring'
    <3>1. CASE i = Len(strings) + 1
      BY <1>1, <2>1, <2>2, <2>3, <3>1
    <3>2. CASE i \in 1 .. Len(strings)
      <4>1. /\ strings[i].from <= text /\ strings[i].offset + strings[i].count <= cstring
            /\ strings[i].from \in Nat /\ strings[i].offset + strings[i].count \in Nat
        BY <1>1, <2>1, <3>2, LiteralTypes, SMTT(30) DEF StringsSound
      <4>2. strings'[i] = strings[i]
        BY <2>3, <3>2
      <4> QED  BY <1>1, <2>1, <4>1, <4>2, SMTT(30)
    <3>3. Len(strings) \in Nat
      BY <1>1, LiteralTypes
    <3> QED  BY <2>3, <3>1, <3>2, <3>3
  <2> QED  BY <2>1, <2>3, <2>4 DEF StringsSound
<1>3. CASE LayOut
  <2> DEFINE Word(i) == StringWord(StringAddress(image', strings[i]),
                                   image'.textAddress + strings[i].from)
  <2>1. /\ phase = "layout" /\ phase' = "done" /\ image' = Platforms[target.platform]
        /\ strings' = (IF Windows THEN strings ELSE
                       [i \in 1 .. Len(strings) |-> [strings[i] EXCEPT !.word = Word(i)]])
        /\ UNCHANGED <<target, text, cstring>>
    BY <1>3 DEF LayOut
  <2>2. Windows' <=> Windows
    BY <2>1 DEF Windows
  <2>3. CASE Windows
    BY <1>1, <2>1, <2>2, <2>3 DEF StringsSound, Emitted
  <2>4. CASE ~Windows
    <3>1. /\ image'.cstringAddress \in Nat /\ image'.textAddress \in Nat
      BY <2>1, <2>4, FileFound DEF Layout, CstringFound
    <3>2. /\ Len(strings) \in Nat
          /\ \A i \in 1 .. Len(strings) :
               /\ strings[i] \in Literals
               /\ strings[i].from \in Nat /\ strings[i].offset \in Nat /\ strings[i].count \in Nat
      BY <1>1, LiteralTypes
    <3>3. \A i \in 1 .. Len(strings) : Word(i) \in Seq(Int)
      <4> SUFFICES ASSUME NEW i \in 1 .. Len(strings) PROVE Word(i) \in Seq(Int)
        OBVIOUS
      <4>1. /\ StringAddress(image', strings[i]) \in Nat
            /\ image'.textAddress + strings[i].from \in Nat
        BY <3>1, <3>2, SMTT(30) DEF StringAddress
      <4> QED  BY <4>1, StringWordTypes
    <3>4. \A i \in 1 .. Len(strings) :
            StringWord(StringAddress(image, strings[i]), image.textAddress + strings[i].from)'
              = StringWord(StringAddress(image', strings'[i]), image'.textAddress + strings'[i].from)
      BY <2>1 DEF StringWord, Arm64
    <3> HIDE DEF Word
    <3>5. \A i \in 1 .. Len(strings) :
            /\ strings'[i] \in Literals /\ strings'[i].from = strings[i].from
            /\ strings'[i].offset = strings[i].offset /\ strings'[i].count = strings[i].count
            /\ strings'[i].word = Word(i)
      BY <2>1, <2>4, <3>2, <3>3 DEF Literals
    <3>6. strings' \in Seq(Literals) /\ Len(strings') = Len(strings)
      <4>1. DOMAIN strings' = 1 .. Len(strings)
        BY <2>1, <2>4
      <4>2. strings' \in [1 .. Len(strings) -> Literals]
        BY <2>1, <2>4, <3>5, <4>1
      <4> QED  BY <3>2, <4>2, SeqDef, LenProperties
    <3>7. \A i \in 1 .. Len(strings) :
            strings'[i].word = StringWord(StringAddress(image', strings'[i]),
                                          image'.textAddress + strings'[i].from)
      BY <3>5 DEF Word, StringAddress
    <3>8. Emitted
      BY <2>1 DEF Emitted
    <3>9. (\A i \in 1 .. Len(strings) :
             strings[i].word = StringWord(StringAddress(image, strings[i]),
                                          image.textAddress + strings[i].from))'
      <4> SUFFICES ASSUME NEW i \in 1 .. Len(strings')
                   PROVE  strings'[i].word = StringWord(StringAddress(image, strings[i]),
                                                        image.textAddress + strings[i].from)'
        OBVIOUS
      <4>1. i \in 1 .. Len(strings)
        BY <3>6
      <4> QED  BY <3>4, <3>7, <4>1
    <3> QED  BY <2>1, <3>5, <3>6, <3>8, <3>9, ZenonT(60) DEF StringsSound
  <2> QED  BY <2>3, <2>4
<1>4. CASE UNCHANGED vars
  BY <1>4 DEF vars, codegenVars, StringsSound, Emitted, StringAddress, StringWord, Windows, Arm64
<1>5. CASE ~EmitString /\ ~LayOut /\ ~UNCHANGED vars
  <2>1. /\ strings' = strings /\ phase' # "done"
        /\ phase' = "loading" => phase = "loading"
        /\ Emitted' => cstring' = cstring /\ (Emitted \/ phase = "loading")
    BY <1>5 DEF Next, LoadSources, EmitStart, BeginFunction, EmitCode, EmitCall, EmitForwardCall,
                CallWithFrom, EmitBuiltin, AbortOnUndeclared, EndFunction,
                EndWithSymbol, PatchCalls, Emitting, Emitted
  <2>2. Emitted /\ Emitted' => text' \in Nat /\ text <= text'
    <3>1. CASE EmitCode
      <4> DEFINE n == (IF Arm64 THEN 4 ELSE 1) * Head(statements).size
      <4>1. Head(statements).size \in Nat /\ text' = text + n
        BY <3>1, StatementSizes DEF EmitCode, Emitting
      <4>2. n \in Nat
        BY <4>1
      <4> HIDE DEF n
      <4> QED  BY <1>1, <4>1, <4>2
    <3>2. CASE EmitStart
      BY <3>2 DEF EmitStart, Emitted
    <3>3. CASE LoadSources
      BY <3>3 DEF LoadSources, Emitted
    <3>4. CASE BeginFunction \/ EmitCall \/ EmitForwardCall
      BY <1>1, <3>4 DEF BeginFunction, EmitCall, EmitForwardCall, CallWithFrom, CallEnd
    <3>5. CASE EmitBuiltin \/ EndFunction
      BY <1>1, <3>5 DEF EmitBuiltin, EndFunction, EndWithSymbol
    <3>6. CASE AbortOnUndeclared \/ PatchCalls
      BY <1>1, <3>6 DEF AbortOnUndeclared, PatchCalls
    <3> QED  BY <1>5, <3>1, <3>2, <3>3, <3>4, <3>5, <3>6 DEF Next
  <2>3. ASSUME Emitted', NEW i \in 1 .. Len(strings)
        PROVE  /\ strings[i].from <= text'
               /\ strings[i].offset + strings[i].count <= cstring'
    <3>1. CASE phase = "loading"
      <4>1. strings = <<>> /\ Len(strings) = 0
        BY <3>1, EmptySeq DEF StringsSound
      <4> QED  BY <4>1
    <3>2. CASE Emitted
      <4>1. /\ strings[i].from <= text /\ strings[i].offset + strings[i].count <= cstring
            /\ strings[i].from \in Nat
        BY <1>1, <3>2, LiteralTypes DEF StringsSound
      <4> QED  BY <1>1, <2>1, <2>2, <2>3, <3>2, <4>1
    <3> QED  BY <2>1, <2>3, <3>1, <3>2
  <2> QED  BY <1>1, <2>1, <2>3 DEF StringsSound
<1> QED  BY <1>2, <1>3, <1>4, <1>5

LEMMA StringsFollow ==
  Layout /\ ImageSound /\ StringsSound => (LiteralsInReach => StringsAreFound)
<1> SUFFICES ASSUME Layout, ImageSound, StringsSound, LiteralsInReach, phase = "done", ~Windows,
                    NEW i \in 1 .. Len(strings), NEW k \in 0 .. strings[i].count - 1
             PROVE  FileOffsets(StringTarget(strings[i].word, image.textAddress + strings[i].from) + k)
                      = {image.cstringAt + strings[i].offset + k}
  BY DEF StringsAreFound
<1> DEFINE string == strings[i]
           address == image.cstringAddress + string.offset
           instruction == image.textAddress + string.from
<1>1. text \in Nat /\ cstring \in Nat /\ Emitted
  BY DEF Layout, CodegenTyped, Emitted
<1>2. CstringFound(image)
  BY FileFound DEF Layout, ImageSound
<1>3. /\ string.from \in Nat /\ string.offset \in Nat /\ string.count \in Nat
      /\ string.from <= text /\ string.offset + string.count <= cstring
  BY <1>1, LiteralTypes DEF StringsSound
<1>4. string.word = StringWord(address, instruction)
  BY DEF StringsSound, StringAddress
<1> HIDE DEF string
<1>5. /\ address \in Nat /\ instruction \in Nat
      /\ Arm64 => /\ address <= instruction + 4294000000
                  /\ instruction <= address + 4294000000
  <2>1. /\ image.cstringAddress \in Nat /\ image.textAddress \in Nat
        /\ image.textAddress <= image.cstringAddress + 2 * cstring + 8192
        /\ image.cstringAddress <= image.textAddress + text + 8192
    BY <1>2 DEF CstringFound
  <2>2. Arm64 => text < 1073741824 /\ cstring < 1073741824
    <3>1. 2^30 = 1073741824
      BY SMT
    <3> QED  BY <3>1, SMT DEF LiteralsInReach
  <2> DEFINE a == image.cstringAddress
             t == image.textAddress
             o == string.offset
             f == string.from
  <2>3. o \in Nat /\ f \in Nat /\ f <= text /\ o <= cstring
    BY <1>1, <1>3
  <2> HIDE DEF a, t, o, f
  <2>4. a \in Nat /\ t \in Nat /\ t <= a + 2 * cstring + 8192 /\ a <= t + text + 8192
    BY <2>1 DEF a, t
  <2>5. /\ a + o \in Nat /\ t + f \in Nat
        /\ Arm64 => a + o <= t + f + 4294000000 /\ t + f <= a + o + 4294000000
    BY <1>1, <2>2, <2>3, <2>4, SMT
  <2> QED  BY <2>5, SMT DEF a, t, o, f
<1>6. StringTarget(string.word, instruction) = address
  BY <1>4, <1>5, StringWordReaches
<1>7. PICK o \in 0 .. cstring - 1 : o = string.offset + k
  <2>1. k \in 0 .. string.count - 1
    BY DEF string
  <2> QED  BY <1>1, <1>3, <2>1
<1>8. /\ address + k = image.cstringAddress + o
      /\ image.cstringAt + string.offset + k = image.cstringAt + o
  <2>1. k \in Nat /\ image.cstringAddress \in Nat /\ image.cstringAt \in Nat
    BY <1>2 DEF CstringFound
  <2> QED  BY <1>3, <1>7, <2>1, SMTT(30)
<1>9. FileOffsets(image.cstringAddress + o) = {image.cstringAt + o}
  <2>1. o \in 0 .. cstring - 1
    BY <1>7
  <2>2. Offsets(image.segments, image.cstringAddress + o) = {image.cstringAt + o}
    BY <1>1, <1>2, <2>1, CstringByte
  <2> QED  BY <2>2 DEF Offsets, FileOffsets
<1> HIDE DEF address
<1>10. FileOffsets(StringTarget(string.word, instruction) + k) = {image.cstringAt + string.offset + k}
  BY <1>6, <1>8, <1>9
<1> QED  BY <1>10 DEF string

(* For every program and all targets but Windows, as long as text and      *)
(* strings are not larger than an ADRP reaches, the address computed for a *)
(* string literal is mapped, once, from the literal's own bytes.           *)
THEOREM StringsAlwaysFound == Spec => [](LiteralsInReach => StringsAreFound)
<1>1. Init => Layout /\ ImageSound /\ StringsSound
  <2> SUFFICES ASSUME Init PROVE Layout /\ ImageSound /\ StringsSound
    OBVIOUS
  <2>1. strings = <<>> /\ phase = "loading"
    BY DEF Init, InitCodegen
  <2>2. strings \in Seq(Literals)
    BY <2>1, EmptySeq
  <2> QED  BY <2>1, <2>2, InitLayout DEF ImageSound, StringsSound, Emitted
<1>2. Layout /\ ImageSound /\ StringsSound /\ [Next]_vars => Layout' /\ ImageSound' /\ StringsSound'
  BY LayoutStep, ImageStep, StringsStep
<1> QED  BY <1>1, <1>2, StringsFollow, PTL DEF Spec

-----------------------------------------------------------------------------
(***************************************************************************)
(* The segments, for each kind of file.                                    *)
(***************************************************************************)
LEMMA MappedOnce ==
  ASSUME NEW s \in image.segments, NEW address, Maps(s, address),
         \A t \in image.segments : Maps(t, address) => t = s
  PROVE  FileOffsets(address) = {s.offset + address - s.address}
<1>1. {x \in image.segments : Maps(x, address)} = {s}
  OBVIOUS
<1> QED  BY <1>1 DEF FileOffsets

LEMMA ElfMapped ==
  ASSUME CodegenTyped, text > 0, ~Windows, image = ElfImage
  PROVE  SegmentsCanBeMapped
<1> DEFINE textAt == AlignUp(176 + cstring, 4)
           page == AlignUp(2097152 + textAt, 4096)
           first == [address |-> 2097152, offset |-> 0, size |-> textAt]
           second == [address |-> page + textAt, offset |-> textAt, size |-> text]
           strings1 == [address |-> 2097328, offset |-> 176, size |-> textAt - 176]
<1>1. text \in Nat /\ cstring \in Nat
  BY DEF CodegenTyped
<1>2. ElfBase = 2097152 /\ ElfHeaders = 176 /\ ElfPage = 4096 /\ ElfBase + ElfHeaders = 2097328
  BY SMT DEF ElfBase, ElfHeaders, ElfPage
<1>3. textAt \in Nat /\ 176 + cstring <= textAt /\ textAt % 4 = 0
  <2>1. 176 + cstring \in Nat
    BY <1>1
  <2> QED  BY <1>1, <2>1, AlignedTo4
<1>4. /\ image.textAddress = page + textAt /\ image.entry = page + textAt
      /\ image.textAt = textAt /\ image.page = 4096 /\ image.segments = {first, second}
      /\ image.sections[1] = strings1 /\ image.sections[2] = second
  BY <1>2 DEF ElfImage, ElfTextAddress, ElfSections
<1> HIDE DEF textAt
<1>5. page \in Nat /\ page % 4096 = 0 /\ 2097152 + textAt <= page
  <2> DEFINE end == 2097152 + textAt
  <2>1. end \in Nat
    BY <1>3, SMT
  <2> HIDE DEF end
  <2>2. AlignUp(end, 4096) \in Nat /\ AlignUp(end, 4096) % 4096 = 0 /\ end <= AlignUp(end, 4096)
    BY <2>1, AlignedTo4096
  <2> QED  BY <2>2, SMT DEF end
<1> HIDE DEF page
<1>6. /\ first.address = 2097152 /\ first.offset = 0 /\ first.size = textAt
      /\ second.address = page + textAt /\ second.offset = textAt /\ second.size = text
      /\ strings1.address = 2097328 /\ strings1.offset = 176 /\ strings1.size = textAt - 176
  OBVIOUS
<1> HIDE DEF first, second, strings1
<1>7. \A s \in image.segments : s.address % image.page = s.offset % image.page
  <2>1. 2097152 % 4096 = 0 % 4096 /\ (page + textAt) % 4096 = textAt % 4096
    BY <1>3, <1>5, SMT
  <2> QED  BY <1>4, <1>6, <2>1
<1>8. ASSUME NEW s \in image.segments, NEW t \in image.segments, s.address < t.address
      PROVE  (s.address + s.size - 1) \div image.page < t.address \div image.page
  <2>1. s = first /\ t = second
    <3>1. ~(page + textAt < 2097152) /\ ~(page + textAt < page + textAt)
      BY <1>3, <1>5, SMT
    <3>2. ~(2097152 < 2097152)
      BY SMT
    <3> QED  BY <1>4, <1>6, <1>8, <3>1, <3>2
  <2>2. (2097152 + textAt - 1) \div 4096 < (page + textAt) \div 4096
    BY <1>3, <1>5, SMT
  <2> QED  BY <1>4, <1>6, <2>1, <2>2
<1>9. ASSUME NEW k \in 0 .. text - 1
      PROVE  FileOffsets(page + textAt + k) = {textAt + k}
  <2>1. Maps(second, page + textAt + k) /\ ~Maps(first, page + textAt + k)
    BY <1>1, <1>3, <1>5, <1>6, SMT DEF Maps
  <2>2. second.offset + (page + textAt + k) - second.address = textAt + k
    BY <1>1, <1>3, <1>5, <1>6
  <2>3. FileOffsets(page + textAt + k) = {second.offset + (page + textAt + k) - second.address}
    <3>1. second \in image.segments /\ \A t \in image.segments : Maps(t, page + textAt + k) => t = second
      BY <1>4, <2>1
    <3> QED  BY <2>1, <3>1, MappedOnce
  <2> QED  BY <2>2, <2>3
<1>10. ASSUME NEW k \in 0 .. textAt - 177
       PROVE  FileOffsets(2097328 + k) = {176 + k}
  <2>1. Maps(first, 2097328 + k) /\ ~Maps(second, 2097328 + k)
    BY <1>1, <1>3, <1>5, <1>6, SMT DEF Maps
  <2>2. first.offset + (2097328 + k) - first.address = 176 + k
    BY <1>3, <1>6, SMT
  <2>3. FileOffsets(2097328 + k) = {first.offset + (2097328 + k) - first.address}
    <3>1. first \in image.segments /\ \A t \in image.segments : Maps(t, 2097328 + k) => t = first
      BY <1>4, <2>1
    <3> QED  BY <2>1, <3>1, MappedOnce
  <2> QED  BY <2>2, <2>3
<1>11. FileOffsets(image.entry) = {image.textAt}
  <2>1. 0 \in 0 .. text - 1 /\ page + textAt + 0 = page + textAt /\ textAt + 0 = textAt
    BY <1>1, <1>3, <1>5
  <2>2. FileOffsets(page + textAt + 0) = {textAt + 0}
    BY <1>9, <2>1
  <2> QED  BY <1>4, <2>1, <2>2
<1>12. image.textAddress % 4 = 0
  <2>1. (page + textAt) % 4 = 0
    BY <1>3, <1>5, SMT
  <2> QED  BY <1>4, <2>1
<1>13. ASSUME NEW i \in 1 .. 2, image.sections[i].size > 0,
              NEW k \in {0, image.sections[i].size - 1}
       PROVE  FileOffsets(image.sections[i].address + k) = {image.sections[i].offset + k}
  <2>1. CASE i = 1
    <3>1. image.sections[i] = strings1
      BY <1>4, <2>1
    <3>2. k \in 0 .. textAt - 177
      BY <1>3, <1>6, <1>13, <3>1
    <3> QED  BY <1>6, <1>10, <3>1, <3>2
  <2>2. CASE i = 2
    <3>1. image.sections[i] = second
      BY <1>4, <2>2
    <3>2. k \in 0 .. text - 1
      BY <1>1, <1>6, <1>13, <3>1
    <3> QED  BY <1>6, <1>9, <3>1, <3>2
  <2> QED  BY <2>1, <2>2
<1> QED  BY <1>7, <1>8, <1>11, <1>12, <1>13 DEF SegmentsCanBeMapped

LEMMA MachOMapped ==
  ASSUME CodegenTyped, text > 0, ~Windows, image = MachOImage
  PROVE  SegmentsCanBeMapped
<1> DEFINE words == AlignUp(text, 4)
           literals == AlignUp(cstring, 4)
           sections == words + literals
           padded == AlignUp(MachOHeaders + sections, MachOPage)
           textAt == padded - sections
           cstringAt == textAt + sections - cstring
           first == [address |-> VmBase, offset |-> 0, size |-> cstringAt + cstring]
           last == MachOLinkEdit(cstringAt + cstring)
           code == [address |-> VmBase + textAt, offset |-> textAt, size |-> text]
           strings1 == [address |-> VmBase + cstringAt, offset |-> cstringAt, size |-> cstring]
<1>1. text \in Nat /\ cstring \in Nat /\ VmBase \in Nat /\ VmBase % 16384 = 0
  BY SizesAssumption DEF CodegenTyped
<1>2. /\ words \in Nat /\ words % 4 = 0 /\ text <= words
      /\ literals \in Nat /\ literals % 4 = 0 /\ cstring <= literals
  <2>1. words \in Nat /\ words % 4 = 0 /\ text <= words
    BY <1>1, AlignedTo4
  <2>2. literals \in Nat /\ literals % 4 = 0 /\ cstring <= literals
    BY <1>1, AlignedTo4
  <2> QED  BY <2>1, <2>2
<1> HIDE DEF words, literals
<1>3. sections \in Nat /\ sections % 4 = 0 /\ text + cstring <= sections
  BY <1>1, <1>2
<1>4. MachOHeaders = 624 /\ MachOPage \in {4096, 16384} /\ (Arm64 => MachOPage = 16384)
  BY DEF MachOHeaders, MachOPage
<1>5. image.page = MachOPage
  BY DEF MachOImage
<1>6. /\ image.textAddress = VmBase + textAt /\ image.entry = VmBase + textAt
      /\ image.textAt = textAt /\ image.segments = {first, last}
      /\ image.sections[1] = code /\ image.sections[2] = strings1
  BY DEF MachOImage, words, literals
<1> HIDE DEF sections
<1>7. padded \in Nat /\ padded % MachOPage = 0 /\ 624 + sections <= padded
  <2> DEFINE n == MachOHeaders + sections
  <2>1. n \in Nat /\ n = 624 + sections
    BY <1>3, <1>4
  <2> HIDE DEF n
  <2>2. AlignUp(n, MachOPage) \in Nat /\ AlignUp(n, MachOPage) % MachOPage = 0
        /\ n <= AlignUp(n, MachOPage)
    <3>1. CASE MachOPage = 4096
      BY <2>1, <3>1, AlignedTo4096
    <3>2. CASE MachOPage = 16384
      BY <2>1, <3>2, AlignedTo16384
    <3> QED  BY <1>4, <3>1, <3>2
  <2> QED  BY <2>1, <2>2 DEF n
<1> HIDE DEF padded
<1>8. /\ textAt \in Nat /\ textAt > 0 /\ textAt = padded - sections
      /\ cstringAt \in Nat /\ textAt + text <= cstringAt /\ cstringAt + cstring = padded
  BY <1>1, <1>3, <1>7
<1> HIDE DEF textAt, cstringAt
<1>9. /\ first.address = VmBase /\ first.offset = 0 /\ first.size = padded
      /\ last.address = VmBase + padded /\ last.offset = padded
      /\ code.address = VmBase + textAt /\ code.offset = textAt /\ code.size = text
      /\ strings1.address = VmBase + cstringAt /\ strings1.offset = cstringAt
      /\ strings1.size = cstring
  BY <1>8 DEF MachOLinkEdit
<1> HIDE DEF first, last, code, strings1
<1>10. /\ VmBase % MachOPage = 0 /\ 0 % MachOPage = 0
       /\ (VmBase + padded) % MachOPage = padded % MachOPage
       /\ (VmBase + padded - 1) \div MachOPage < (VmBase + padded) \div MachOPage
  <2>1. CASE MachOPage = 4096
    <3>1. padded % 4096 = 0
      BY <1>7, <2>1
    <3>2. /\ VmBase % 4096 = 0 /\ 0 % 4096 = 0 /\ (VmBase + padded) % 4096 = padded % 4096
          /\ (VmBase + padded - 1) \div 4096 < (VmBase + padded) \div 4096
      BY <1>1, <1>7, <3>1, SMT
    <3> QED  BY <2>1, <3>2
  <2>2. CASE MachOPage = 16384
    <3>1. padded % 16384 = 0
      BY <1>7, <2>2
    <3>2. /\ VmBase % 16384 = 0 /\ 0 % 16384 = 0 /\ (VmBase + padded) % 16384 = padded % 16384
          /\ (VmBase + padded - 1) \div 16384 < (VmBase + padded) \div 16384
      BY <1>1, <1>7, <3>1, SMT
    <3> QED  BY <2>2, <3>2
  <2> QED  BY <1>4, <2>1, <2>2
<1>11. \A s \in image.segments : s.address % image.page = s.offset % image.page
  BY <1>5, <1>6, <1>9, <1>10
<1>12. ASSUME NEW s \in image.segments, NEW t \in image.segments, s.address < t.address
       PROVE  (s.address + s.size - 1) \div image.page < t.address \div image.page
  <2>1. s = first /\ t = last
    <3>1. ~(VmBase < VmBase) /\ ~(VmBase + padded < VmBase) /\ ~(VmBase + padded < VmBase + padded)
      BY <1>1, <1>7
    <3> QED  BY <1>6, <1>9, <1>12, <3>1
  <2> QED  BY <1>5, <1>9, <1>10, <2>1
<1>13. ASSUME NEW k \in 0 .. padded - 1
       PROVE  FileOffsets(VmBase + k) = {k}
  <2>1. Maps(first, VmBase + k) /\ ~Maps(last, VmBase + k)
    BY <1>1, <1>7, <1>9 DEF Maps
  <2>2. first.offset + (VmBase + k) - first.address = k
    BY <1>1, <1>7, <1>9
  <2>3. FileOffsets(VmBase + k) = {first.offset + (VmBase + k) - first.address}
    <3>1. first \in image.segments /\ \A t \in image.segments : Maps(t, VmBase + k) => t = first
      BY <1>6, <2>1
    <3> QED  BY <2>1, <3>1, MappedOnce
  <2> QED  BY <2>2, <2>3
<1>14. FileOffsets(image.entry) = {image.textAt}
  <2>1. textAt \in 0 .. padded - 1
    BY <1>1, <1>7, <1>8
  <2> QED  BY <1>6, <1>13, <2>1
<1>15. Arm64 => image.textAddress % 4 = 0
  <2>1. padded % 16384 = 0 => (VmBase + textAt) % 4 = 0
    BY <1>1, <1>3, <1>7, <1>8, SMT
  <2> QED  BY <1>4, <1>6, <1>7, <2>1
<1>16. ASSUME NEW i \in 1 .. 2, image.sections[i].size > 0,
              NEW k \in {0, image.sections[i].size - 1}
       PROVE  FileOffsets(image.sections[i].address + k) = {image.sections[i].offset + k}
  <2>1. CASE i = 1
    <3>1. image.sections[i] = code /\ textAt + text <= padded
      BY <1>1, <1>6, <1>8, <2>1
    <3>2. k \in {0, text - 1}
      BY <1>9, <1>16, <3>1
    <3>3. FileOffsets(VmBase + textAt + k) = {textAt + k}
      <4>1. PICK n \in 0 .. padded - 1 : n = textAt + k
        BY <1>1, <1>7, <1>8, <3>1, <3>2
      <4>2. VmBase + textAt + k = VmBase + n
        BY <1>1, <1>7, <1>8, <3>2, <4>1
      <4> QED  BY <1>13, <4>1, <4>2
    <3> QED  BY <1>9, <3>1, <3>3
  <2>2. CASE i = 2
    <3>1. image.sections[i] = strings1 /\ cstringAt + cstring <= padded
      BY <1>6, <1>7, <1>8, <2>2
    <3>2. k \in {0, cstring - 1} /\ cstring > 0
      BY <1>9, <1>16, <3>1
    <3>3. FileOffsets(VmBase + cstringAt + k) = {cstringAt + k}
      <4>1. PICK n \in 0 .. padded - 1 : n = cstringAt + k
        BY <1>1, <1>7, <1>8, <3>1, <3>2
      <4>2. VmBase + cstringAt + k = VmBase + n
        BY <1>1, <1>7, <1>8, <3>2, <4>1
      <4> QED  BY <1>13, <4>1, <4>2
    <3> QED  BY <1>9, <3>1, <3>3
  <2> QED  BY <2>1, <2>2
<1> QED  BY <1>11, <1>12, <1>14, <1>15, <1>16 DEF SegmentsCanBeMapped

LEMMA PeMapped ==
  ASSUME CodegenTyped, text > 0, Windows, image = PeImage
  PROVE  SegmentsCanBeMapped
<1> DEFINE headers == AlignUp(PeHeaders + PeSectionHeader * (IF cstring > 0 THEN 2 ELSE 1),
                              PeFileAlignment)
           base == PeBase + AlignUp(headers, PePage)
           size == AlignUp(text, 512)
           stringsAt == headers + size
           start == AlignUp(base + size, PePage)
           literals == AlignUp(cstring, 512)
           end == AlignUp(start + literals, PePage)
           first == [address |-> PeBase, offset |-> 0, size |-> headers]
           second == [address |-> base, offset |-> headers, size |-> size]
           third == [address |-> start, offset |-> stringsAt, size |-> literals]
<1>1. text \in Nat /\ cstring \in Nat
  BY DEF CodegenTyped
<1>2. /\ PeBase = 4194304 /\ PePage = 4096 /\ PeFileAlignment = 512
      /\ PeHeaders = 328 /\ PeSectionHeader = 40
  BY SMT DEF PeBase, PePage, PeFileAlignment, PeHeaders, PeSectionHeader
<1>3. /\ image.textAddress = base /\ image.entry = base /\ image.textAt = headers
      /\ image.page = 4096 /\ image.end = end
      /\ image.segments = {first, second} \cup (IF cstring = 0 THEN {} ELSE {third})
  BY <1>2 DEF PeImage
<1>4. headers = 512
  <2>1. AlignUp(408, 512) = 512 /\ AlignUp(368, 512) = 512
    BY SMT DEF AlignUp
  <2>2. 328 + 40 * 2 = 408 /\ 328 + 40 * 1 = 368
    BY SMT
  <2> QED  BY <1>2, <2>1, <2>2
<1> HIDE DEF headers
<1>5. base = 4198400
  <2>1. 4194304 + AlignUp(512, 4096) = 4198400
    BY SMT DEF AlignUp
  <2> QED  BY <1>2, <1>4, <2>1
<1> HIDE DEF base
<1>6. /\ size \in Nat /\ size % 512 = 0 /\ text <= size
  BY <1>1, AlignedTo512
<1>7. /\ literals \in Nat /\ literals % 512 = 0 /\ cstring <= literals
      /\ cstring = 0 => literals = 0
  <2>1. literals \in Nat /\ literals % 512 = 0 /\ cstring <= literals
    BY <1>1, AlignedTo512
  <2>2. AlignUp(0, 512) = 0
    BY SMT DEF AlignUp
  <2> QED  BY <2>1, <2>2
<1> HIDE DEF size, literals
<1>8. start \in Nat /\ start % 4096 = 0 /\ 4198400 + size <= start
  <2> DEFINE n == base + size
  <2>1. n \in Nat /\ n = 4198400 + size
    BY <1>5, <1>6, SMT
  <2> HIDE DEF n
  <2>2. AlignUp(n, 4096) \in Nat /\ AlignUp(n, 4096) % 4096 = 0 /\ n <= AlignUp(n, 4096)
    BY <2>1, AlignedTo4096
  <2> QED  BY <1>2, <2>1, <2>2 DEF n
<1>9. /\ AlignUp(4194304 + 512, 4096) = 4198400
      /\ AlignUp(base + size, 4096) = start
      /\ AlignUp(start + literals, 4096) = end
  <2>1. AlignUp(4194304 + 512, 4096) = 4198400
    BY SMT DEF AlignUp
  <2> QED  BY <1>2, <2>1
<1> HIDE DEF start
<1>10. cstring = 0 => end = start
  <2>1. AlignUp(start + 0, 4096) = start
    BY <1>8, SMT DEF AlignUp
  <2> QED  BY <1>7, <1>9, <2>1
<1> HIDE DEF end
<1>11. stringsAt = 512 + size
  BY <1>4
<1> HIDE DEF stringsAt
<1>12. /\ first.address = 4194304 /\ first.offset = 0 /\ first.size = 512
       /\ second.address = 4198400 /\ second.offset = 512 /\ second.size = size
       /\ third.address = start /\ third.offset = 512 + size /\ third.size = literals
  BY <1>2, <1>4, <1>5, <1>11
<1> HIDE DEF first, second, third
<1>13. /\ first \in image.segments /\ second \in image.segments
       /\ \A s \in image.segments : s = first \/ s = second \/ (s = third /\ cstring # 0)
       /\ cstring # 0 => third \in image.segments
  BY <1>3
<1>14. ASSUME NEW s \in image.segments
       PROVE  LET next == AlignUp(s.address + s.size, image.page)
              IN  /\ s.address % image.page = 0 /\ s.offset % PeFileAlignment = 0
                  /\ next = image.end \/ \E t \in image.segments : t.address = next
  <2>1. CASE s = first
    <3>1. 4194304 % 4096 = 0 /\ 0 % 512 = 0
      BY SMT
    <3> QED  BY <1>2, <1>3, <1>9, <1>12, <1>13, <2>1, <3>1
  <2>2. CASE s = second
    <3>1. 4198400 % 4096 = 0 /\ 512 % 512 = 0
      BY SMT
    <3>2. AlignUp(s.address + s.size, 4096) = start
      BY <1>5, <1>9, <1>12, <2>2
    <3>3. start = end \/ \E t \in image.segments : t.address = start
      BY <1>10, <1>12, <1>13
    <3> QED  BY <1>2, <1>3, <1>12, <2>2, <3>1, <3>2, <3>3
  <2>3. CASE s = third
    <3>1. (512 + size) % 512 = 0
      BY <1>6, SMT
    <3>2. AlignUp(s.address + s.size, 4096) = end
      BY <1>9, <1>12, <2>3
    <3> QED  BY <1>2, <1>3, <1>8, <1>12, <2>3, <3>1, <3>2
  <2> QED  BY <1>13, <2>1, <2>2, <2>3
<1>15. ASSUME NEW s \in image.segments, NEW t \in image.segments, s.address < t.address
       PROVE  (s.address + s.size - 1) \div image.page < t.address \div image.page
  <2>1. /\ (4194304 + 512 - 1) \div 4096 < 4198400 \div 4096
        /\ (4194304 + 512 - 1) \div 4096 < start \div 4096
        /\ (4198400 + size - 1) \div 4096 < start \div 4096
    BY <1>6, <1>8, SMT
  <2>2. /\ ~(4194304 < 4194304) /\ ~(4198400 < 4194304) /\ ~(4198400 < 4198400)
        /\ ~(start < 4194304) /\ ~(start < 4198400) /\ ~(start < start)
    BY <1>6, <1>8, SMT
  <2>3. CASE s = first
    BY <1>3, <1>12, <1>13, <1>15, <2>1, <2>2, <2>3
  <2>4. CASE s = second
    BY <1>3, <1>12, <1>13, <1>15, <2>1, <2>2, <2>4
  <2>5. CASE s = third
    BY <1>12, <1>13, <1>15, <2>2, <2>5
  <2> QED  BY <1>13, <2>3, <2>4, <2>5
<1>16. FileOffsets(image.entry) = {image.textAt}
  <2>1. Maps(second, 4198400) /\ ~Maps(first, 4198400) /\ ~Maps(third, 4198400)
    BY <1>1, <1>6, <1>7, <1>8, <1>12, SMT DEF Maps
  <2>2. FileOffsets(4198400) = {second.offset + 4198400 - second.address}
    <3>1. \A t \in image.segments : Maps(t, 4198400) => t = second
      BY <1>13, <2>1
    <3> QED  BY <1>13, <2>1, <3>1, MappedOnce
  <2>3. 512 + 4198400 - 4198400 = 512
    BY SMT
  <2> QED  BY <1>3, <1>4, <1>5, <1>12, <2>2, <2>3
<1>17. image.textAddress % 4 = 0
  <2>1. 4198400 % 4 = 0
    BY SMT
  <2> QED  BY <1>3, <1>5, <2>1
<1> QED  BY <1>14, <1>15, <1>16, <1>17 DEF SegmentsCanBeMapped

LEMMA SegmentsFollow == Layout /\ ImageSound /\ Links => SegmentsCanBeMapped
<1> SUFFICES ASSUME Layout, ImageSound, Links, phase = "done" PROVE SegmentsCanBeMapped
  BY DEF SegmentsCanBeMapped
<1>1. CodegenTyped /\ text > 0 /\ image = Platforms[target.platform]
  BY DEF Layout, Links, EntrySound, Emitted, ImageSound
<1>2. target.platform \in {"linux", "macos", "windows"}
  BY <1>1, TargetsAssumption DEF CodegenTyped
<1>3. CASE target.platform = "linux"
  BY <1>1, <1>3, ElfMapped DEF Platforms, Windows
<1>4. CASE target.platform = "macos"
  BY <1>1, <1>4, MachOMapped DEF Platforms, Windows
<1>5. CASE target.platform = "windows"
  BY <1>1, <1>5, PeMapped DEF Platforms, Windows
<1> QED  BY <1>2, <1>3, <1>4, <1>5

(* For every program, every target and all sizes of code and strings, the  *)
(* segments of the file are on pages of their own, at the addresses that   *)
(* the loader asks for, and the entry point is the start code.             *)
THEOREM SegmentsAlwaysMapped == Spec => []SegmentsCanBeMapped
<1>1. Init => Layout /\ ImageSound /\ Links
  BY InitLayout, InitLinks DEF Init, InitCodegen, ImageSound
<1>2. Layout /\ ImageSound /\ Links /\ [Next]_vars => Layout' /\ ImageSound' /\ Links'
  BY LayoutStep, ImageStep, LinksStep
<1> QED  BY <1>1, <1>2, SegmentsFollow, PTL DEF Spec

-----------------------------------------------------------------------------
(***************************************************************************)
(* What is reached from Main: the rounds of ReachedThrough exist, ...      *)
(***************************************************************************)
Rounds(within, requests, n) ==
  /\ within[0] = {Main}
  /\ \A j, k \in 0 .. n : k = j + 1 => within[k] = Further(within[j], requests)

LEMMA RoundsOf ==
  ASSUME NEW requests, NEW n \in Nat, NEW within,
         within = [i \in 0 .. n |-> IF i = 0 THEN {Main} ELSE Further(within[i - 1], requests)]
  PROVE  Rounds(within, requests, n)
<1>1. within[0] = {Main}
  OBVIOUS
<1>2. ASSUME NEW j \in 0 .. n, NEW k \in 0 .. n, k = j + 1
      PROVE  within[k] = Further(within[j], requests)
  <2>1. k # 0 /\ k - 1 = j
    BY <1>2
  <2>2. within[k] = IF k = 0 THEN {Main} ELSE Further(within[k - 1], requests)
    OBVIOUS
  <2> QED  BY <2>1, <2>2
<1> QED  BY <1>1, <1>2 DEF Rounds

LEMMA RoundsExist ==
  ASSUME NEW requests, NEW n \in Nat
  PROVE  \E within : within = [i \in 0 .. n |-> IF i = 0 THEN {Main}
                                                ELSE Further(within[i - 1], requests)]
<1> DEFINE Are(w, m) == w = [i \in 0 .. m |-> IF i = 0 THEN {Main} ELSE Further(w[i - 1], requests)]
           S == {m \in Nat : \E w : Are(w, m)}
<1>1. 0 \in S
  <2>1. Are([i \in 0 .. 0 |-> {Main}], 0)
    OBVIOUS
  <2> QED  BY <2>1
<1>2. ASSUME NEW m \in Nat, m \in S PROVE m + 1 \in S
  <2>1. PICK w : Are(w, m)
    BY <1>2
  <2> DEFINE last == Further(w[m], requests)
             v == [i \in 0 .. m + 1 |-> IF i = m + 1 THEN last ELSE w[i]]
  <2>2. ASSUME NEW i \in 0 .. m + 1
        PROVE  v[i] = IF i = 0 THEN {Main} ELSE Further(v[i - 1], requests)
    <3>1. CASE i = 0
      BY <3>1, <2>1
    <3>2. CASE i = m + 1
      <4>1. v[m] = w[m] /\ i - 1 = m /\ i # 0
        BY <3>2
      <4> QED  BY <3>2, <4>1
    <3>3. CASE i # 0 /\ i # m + 1
      <4>1. i \in 0 .. m /\ i - 1 \in 0 .. m + 1 /\ i - 1 # m + 1
        BY <3>3
      <4>2. w[i] = Further(w[i - 1], requests)
        BY <2>1, <3>3, <4>1
      <4>3. v[i] = w[i] /\ v[i - 1] = w[i - 1]
        BY <4>1, <3>3
      <4> QED  BY <3>3, <4>2, <4>3
    <3> QED  BY <3>1, <3>2, <3>3
  <2>3. Are(v, m + 1)
    <3> HIDE DEF last
    <3> QED  BY <2>2
  <2>4. \E u : Are(u, m + 1)
    <3> HIDE DEF Are
    <3> QED  BY <2>3
  <2> QED  BY <2>4
<1>3. Nat \subseteq S
  <2> HIDE DEF S
  <2> QED  BY <1>1, <1>2, NatSetInduction
<1>4. \E w : Are(w, n)
  <2> HIDE DEF Are
  <2> QED  BY <1>3
<1> QED  BY <1>4

LEMMA ReachedIs ==
  ASSUME NEW requests, IsFiniteSet(DOMAIN requests)
  PROVE  \E n \in Nat : \E within :
           /\ n = Cardinality(DOMAIN requests) + 1
           /\ Rounds(within, requests, n)
           /\ ReachedThrough(requests) = within[n]
<1> DEFINE n == Cardinality(DOMAIN requests) + 1
           w == CHOOSE w : w = [i \in 0 .. n |-> IF i = 0 THEN {Main}
                                                 ELSE Further(w[i - 1], requests)]
<1>1. n \in Nat
  BY FS_CardinalityType
<1>2. ReachedThrough(requests) = w[n]
  BY DEF ReachedThrough
<1> HIDE DEF n
<1>3. w = [i \in 0 .. n |-> IF i = 0 THEN {Main} ELSE Further(w[i - 1], requests)]
  BY <1>1, RoundsExist
<1> HIDE DEF w
<1>4. Rounds(w, requests, n)
  BY <1>1, <1>3, RoundsOf
<1>5. n = Cardinality(DOMAIN requests) + 1
  BY DEF n
<1> QED  BY <1>1, <1>2, <1>4, <1>5

(* ... and one of them adds no file, so that the last one is closed: with  *)
(* every file it holds it holds those that this file asks for.             *)
LEMMA ReachedClosed ==
  ASSUME NEW requests, IsFiniteSet(DOMAIN requests)
  PROVE  /\ Main \in ReachedThrough(requests)
         /\ \A path \in ReachedThrough(requests) \cap DOMAIN requests :
              requests[path] \subseteq ReachedThrough(requests)
<1> DEFINE files == DOMAIN requests
<1>1. PICK n \in Nat : \E within :
        /\ n = Cardinality(files) + 1
        /\ Rounds(within, requests, n)
        /\ ReachedThrough(requests) = within[n]
  BY ReachedIs
<1>2. PICK w :
        /\ n = Cardinality(files) + 1
        /\ Rounds(w, requests, n)
        /\ ReachedThrough(requests) = w[n]
  BY <1>1
<1>3. \A j, k \in 0 .. n : k = j + 1 => w[k] = Further(w[j], requests)
  BY <1>2 DEF Rounds
<1> HIDE DEF files
<1> DEFINE Closed(paths) == Further(paths, requests) = paths
           S == {k \in Nat : k \in 0 .. n =>
                   Main \in w[k] /\ (Closed(w[k]) \/ k <= Cardinality(w[k] \cap files))}
<1>4. 0 \in S
  <2>1. Main \in w[0]
    BY <1>2 DEF Rounds
  <2>2. Cardinality(w[0] \cap files) >= 0
    <3>1. w[0] \cap files \in SUBSET files
      OBVIOUS
    <3> QED  BY <3>1, FS_Subset, FS_CardinalityType DEF files
  <2> QED  BY <2>1, <2>2
<1>5. ASSUME NEW k \in Nat, k \in S PROVE k + 1 \in S
  <2> SUFFICES ASSUME NEW l \in 0 .. n, l = k + 1
               PROVE  Main \in w[l] /\ (Closed(w[l]) \/ l <= Cardinality(w[l] \cap files))
    OBVIOUS
  <2>1. k \in 0 .. n /\ w[l] = Further(w[k], requests)
    BY <1>3
  <2>2. w[k] \subseteq w[l] /\ Main \in w[k] /\ (Closed(w[k]) \/ k <= Cardinality(w[k] \cap files))
    BY <1>5, <2>1 DEF Further
  <2>3. CASE Closed(w[k])
    BY <2>1, <2>2, <2>3
  <2>4. CASE k <= Cardinality(w[k] \cap files) /\ w[k] \cap files = w[l] \cap files
    <3>1. Further(w[l], requests) = w[l]
      BY <2>1, <2>2, <2>4 DEF Further, files
    <3> QED  BY <2>2, <3>1
  <2>5. CASE k <= Cardinality(w[k] \cap files) /\ w[k] \cap files # w[l] \cap files
    <3> DEFINE before == w[k] \cap files
               after == w[l] \cap files
    <3>1. after \in SUBSET files /\ before \in SUBSET after
      BY <2>2
    <3> HIDE DEF before, after
    <3>2. IsFiniteSet(after)
      BY <3>1, FS_Subset DEF files
    <3>3. /\ Cardinality(before) <= Cardinality(after)
          /\ Cardinality(after) = Cardinality(before) => after = before
          /\ IsFiniteSet(before)
      BY <3>1, <3>2, FS_Subset
    <3>4. Cardinality(before) \in Nat /\ Cardinality(after) \in Nat
      BY <3>2, <3>3, FS_CardinalityType
    <3>5. k <= Cardinality(before) /\ before # after
      BY <2>5 DEF before, after
    <3>6. k + 1 <= Cardinality(after)
      BY <3>3, <3>4, <3>5
    <3> QED  BY <2>2, <3>6 DEF after
  <2> QED  BY <2>2, <2>3, <2>4, <2>5
<1>6. n \in S
  <2>1. Nat \subseteq S
    <3> HIDE DEF S
    <3> QED  BY <1>4, <1>5, NatSetInduction
  <2> QED  BY <2>1
<1>7. Cardinality(w[n] \cap files) < n
  <2>1. w[n] \cap files \in SUBSET files
    OBVIOUS
  <2>2. IsFiniteSet(files)
    BY DEF files
  <2> HIDE DEF S
  <2>3. /\ IsFiniteSet(w[n] \cap files) /\ Cardinality(w[n] \cap files) <= Cardinality(files)
    BY <2>1, <2>2, FS_Subset
  <2>4. Cardinality(w[n] \cap files) \in Nat /\ Cardinality(files) \in Nat
    BY <2>2, <2>3, FS_CardinalityType
  <2> QED  BY <1>2, <2>3, <2>4
<1>8. Main \in w[n] /\ Further(w[n], requests) = w[n]
  <2>1. w[n] \cap files \in SUBSET files /\ IsFiniteSet(files)
    BY DEF files
  <2>2. Cardinality(w[n] \cap files) \in Nat
    <3> HIDE DEF S
    <3>1. IsFiniteSet(w[n] \cap files)
      BY <2>1, FS_Subset
    <3> QED  BY <3>1, FS_CardinalityType
  <2>3. n \in 0 .. n /\ ~(n <= Cardinality(w[n] \cap files))
    BY <1>7, <2>2
  <2> QED  BY <1>6, <2>3
<1> QED  BY <1>2, <1>8 DEF Further

(* Any closed set that holds Main holds all that is reached.               *)
LEMMA ReachedLeast ==
  ASSUME NEW requests, IsFiniteSet(DOMAIN requests), NEW paths, Main \in paths,
         \A path \in paths \cap DOMAIN requests : requests[path] \subseteq paths
  PROVE  ReachedThrough(requests) \subseteq paths
<1>1. PICK n \in Nat : \E within :
        /\ n = Cardinality(DOMAIN requests) + 1
        /\ Rounds(within, requests, n)
        /\ ReachedThrough(requests) = within[n]
  BY ReachedIs
<1>2. PICK w : Rounds(w, requests, n) /\ ReachedThrough(requests) = w[n]
  BY <1>1
<1> DEFINE S == {k \in Nat : k \in 0 .. n => w[k] \subseteq paths}
<1>3. 0 \in S
  BY <1>2 DEF Rounds
<1>4. ASSUME NEW k \in Nat, k \in S PROVE k + 1 \in S
  <2> SUFFICES ASSUME NEW l \in 0 .. n, l = k + 1 PROVE w[l] \subseteq paths
    OBVIOUS
  <2>1. k \in 0 .. n /\ w[k] \subseteq paths
    BY <1>4
  <2>2. w[l] = Further(w[k], requests)
    BY <1>2, <2>1 DEF Rounds
  <2> QED  BY <2>1, <2>2 DEF Further
<1>5. n \in S
  <2>1. Nat \subseteq S
    <3> HIDE DEF S
    <3> QED  BY <1>3, <1>4, NatSetInduction
  <2> QED  BY <2>1
<1> QED  BY <1>2, <1>5

(***************************************************************************)
(* The functions in the items parsed so far.                               *)
(***************************************************************************)
FunctionAt(item) == IF item.kind = "function" THEN <<item>> ELSE <<>>

LEMMA FunctionAtTypes ==
  ASSUME NEW item \in Items
  PROVE  FunctionAt(item) \in Seq(Items)
BY EmptySeq DEF FunctionAt

LEMMA FunctionsInNext ==
  ASSUME NEW items \in Seq(Items), NEW item \in Items
  PROVE  /\ FunctionsIn(items) \in Seq(Items)
         /\ FunctionsIn(Append(items, item)) = FunctionsIn(items) \o FunctionAt(item)
<1> DEFINE n == Len(items)
           longer == Append(items, item)
           each == [i \in 1 .. n |-> FunctionAt(items[i])]
           all == [i \in 1 .. Len(longer) |-> FunctionAt(longer[i])]
<1>1. n \in Nat /\ \A i \in 1 .. n : items[i] \in Items
  BY LenProperties, ElementOfSeq
<1>2. Len(longer) = n + 1 /\ longer[n + 1] = item /\ \A i \in 1 .. n : longer[i] = items[i]
  BY AppendProperties
<1>3. FunctionsIn(items) = FlattenSeq(each) /\ FunctionsIn(longer) = FlattenSeq(all)
  BY DEF FunctionsIn, FunctionAt
<1> HIDE DEF longer, n
<1>4. each \in Seq(Seq(Items)) /\ Len(each) = n
  <2>1. \A i \in 1 .. n : FunctionAt(items[i]) \in Seq(Items)
    BY <1>1, FunctionAtTypes
  <2> QED  BY <1>1, <2>1, IsASeq
<1>5. FunctionAt(item) \in Seq(Items)
  BY FunctionAtTypes
<1>6. all = Append(each, FunctionAt(item))
  <2> DEFINE more == Append(each, FunctionAt(item))
  <2>1. /\ more \in Seq(Seq(Items)) /\ Len(more) = n + 1 /\ more[n + 1] = FunctionAt(item)
        /\ \A i \in 1 .. n : more[i] = each[i]
    <3> HIDE DEF each
    <3> QED  BY <1>4, <1>5, AppendProperties
  <2>2. \A i \in 1 .. n : each[i] = FunctionAt(items[i])
    OBVIOUS
  <2>3. \A i \in 1 .. n + 1 : all[i] = FunctionAt(longer[i])
    BY <1>2
  <2>4. all \in Seq(Seq(Items)) /\ Len(all) = n + 1
    <3>1. \A i \in 1 .. n + 1 : FunctionAt(longer[i]) \in Seq(Items)
      BY <1>1, <1>2, <1>5, FunctionAtTypes, SMTT(30)
    <3> QED  BY <1>1, <1>2, <3>1, IsASeq
  <2> HIDE DEF more, all, each
  <2>5. \A i \in 1 .. n + 1 : all[i] = more[i]
    BY <1>1, <1>2, <2>1, <2>2, <2>3, SMTT(30)
  <2>6. all = more
    BY <2>1, <2>4, <2>5, SeqEqual
  <2> QED  BY <2>6 DEF more
<1> HIDE DEF all, each
<1> QED  BY <1>3, <1>4, <1>5, <1>6, FlattenAppend DEF longer

LEMMA FunctionsInNone == FunctionsIn(<<>>) = <<>>
BY FlattenEmpty DEF FunctionsIn

LEMMA FunctionsTyped == \A items \in Seq(Items) : FunctionsIn(items) \in Seq(Items)
<1> SUFFICES ASSUME NEW items \in Seq(Items) PROVE FunctionsIn(items) \in Seq(Items)
  OBVIOUS
<1>1. [kind |-> "malformed"] \in Items
  BY DEF Items
<1> QED  BY <1>1, FunctionsInNext

(***************************************************************************)
(* The loader's invariant.                                                 *)
(***************************************************************************)
Listed == {filesToLoad[i] : i \in 1 .. Len(filesToLoad)}

Content(i) == sourceFiles[i].content

(* The number of items of a source file that have been parsed.             *)
Parsed(i) == IF i < loading THEN Len(Content(i)) ELSE Len(Content(i)) - Len(unparsed)

(* The worklist has no path twice and only paths that are reached.         *)
WorklistSound ==
  /\ disk \in Disks
  /\ filesToLoad # <<>> /\ filesToLoad[1] = Main
  /\ \A i, j \in 1 .. Len(filesToLoad) : filesToLoad[i] = filesToLoad[j] => i = j
  /\ Listed \subseteq Reached

(* The source files are the first paths of the worklist.                   *)
SourcesSound ==
  /\ parsing \in {0, loading}
  /\ Len(sourceFiles) = IF parsing = 0 THEN loading - 1 ELSE loading
  /\ Len(sourceFiles) <= Len(filesToLoad)
  /\ \A i \in 1 .. Len(sourceFiles) :
       sourceFiles[i].path = filesToLoad[i] /\ Content(i) = Contents(filesToLoad[i])

(* What the items parsed so far ask for is in the worklist.                *)
Answered(item, path) ==
  /\ item.kind # "malformed"
  /\ item.kind \in {"load", "import"} => Requested(item, path) \in Listed

ParsedSound ==
  /\ parsing # 0 =>
       /\ Len(unparsed) <= Len(Content(parsing))
       /\ \A k \in 1 .. Len(unparsed) :
            unparsed[k] = Content(parsing)[Len(Content(parsing)) - Len(unparsed) + k]
  /\ \A i \in 1 .. Len(sourceFiles) : \A k \in 1 .. Parsed(i) :
       Answered(Content(i)[k], filesToLoad[i])

(* The declarations are the functions among them.                          *)
FunctionsParsed(i) == FunctionsIn(SubSeq(Content(i), 1, Parsed(i)))

DeclarationsSound ==
  declarations = FlattenSeq([i \in 1 .. Len(sourceFiles) |-> FunctionsParsed(i)])

EndSound ==
  /\ loader = "failed" => \E path \in Reached : IsMalformed(path)
  /\ loader = "done" => parsing = 0 /\ loading > Len(filesToLoad)

Loading == WorklistSound /\ SourcesSound /\ ParsedSound /\ DeclarationsSound /\ EndSound

Counts ==
  Len(sourceFiles) \in Nat /\ Len(filesToLoad) \in Nat /\ Len(unparsed) \in Nat /\ loading \in Nat \ {0}

LEMMA LoaderCounts == LoaderTyped => Counts
BY LenProperties DEF LoaderTyped, Counts

LEMMA ContentTypes ==
  ASSUME LoaderTyped, NEW i \in 1 .. Len(sourceFiles)
  PROVE  /\ Content(i) \in Seq(Items) /\ Len(Content(i)) \in Nat
         /\ \A k \in 1 .. Len(Content(i)) : Content(i)[k] \in Items
<1>1. sourceFiles[i] \in Sources
  BY ElementOfSeq DEF LoaderTyped
<1>2. Content(i) \in Seq(Items)
  BY <1>1 DEF Content, Sources
<1> QED  BY <1>2, LenProperties, ElementOfSeq

LEMMA InitLoading == InitLoader => Loading
<1> SUFFICES ASSUME InitLoader PROVE Loading
  OBVIOUS
<1> DEFINE requests == [path \in DOMAIN disk |-> Requests(path)]
<1>1. disk \in Disks /\ filesToLoad = <<Main>> /\ loading = 1 /\ sourceFiles = <<>>
      /\ parsing = 0 /\ declarations = <<>> /\ loader = "running"
  BY DEF InitLoader
<1>2. Len(filesToLoad) = 1 /\ filesToLoad[1] = Main /\ filesToLoad # <<>> /\ Listed = {Main}
  BY <1>1 DEF Listed
<1>3. Len(sourceFiles) = 0
  BY <1>1
<1>4. Main \in Reached
  <2>1. DOMAIN requests = DOMAIN disk
    OBVIOUS
  <2>2. IsFiniteSet(DOMAIN requests)
    BY <1>1, <2>1, FilesAssumption
  <2>3. Reached = ReachedThrough(requests)
    BY DEF Reached
  <2> HIDE DEF requests
  <2> QED  BY <2>2, <2>3, ReachedClosed
<1>5. WorklistSound
  BY <1>1, <1>2, <1>4 DEF WorklistSound
<1>6. SourcesSound
  BY <1>1, <1>2, <1>3 DEF SourcesSound
<1>7. ParsedSound
  BY <1>1, <1>3 DEF ParsedSound
<1>8. DeclarationsSound
  <2>1. [i \in 1 .. Len(sourceFiles) |-> FunctionsParsed(i)] = <<>>
    BY <1>3
  <2> QED  BY <1>1, <2>1, FlattenEmpty DEF DeclarationsSound
<1>9. EndSound
  BY <1>1 DEF EndSound
<1> QED  BY <1>5, <1>6, <1>7, <1>8, <1>9 DEF Loading

LEMMA ReachedStays ==
  ASSUME disk' = disk
  PROVE  /\ Reached' = Reached
         /\ \A path : Contents(path)' = Contents(path) /\ IsMalformed(path)' = IsMalformed(path)
<1>1. \A path : Contents(path)' = Contents(path)
  BY DEF Contents
<1>2. \A path : IsMalformed(path)' = IsMalformed(path)
  BY <1>1 DEF IsMalformed
<1>3. ASSUME NEW path PROVE Requests(path)' = Requests(path)
  BY <1>1 DEF Requests, Seen
<1>4. [path \in DOMAIN disk |-> Requests(path)]' = [path \in DOMAIN disk |-> Requests(path)]
  BY <1>3
<1>5. Reached' = Reached
  BY <1>4 DEF Reached
<1> QED  BY <1>1, <1>2, <1>5

(* What a file that is reached asks for, before a malformed item, is       *)
(* reached.                                                                *)
LEMMA RequestedReached ==
  ASSUME disk \in Disks, NEW path \in Reached, NEW n \in 1 .. Len(Contents(path)),
         \A k \in 1 .. n : Contents(path)[k].kind # "malformed",
         Contents(path)[n].kind \in {"load", "import"}
  PROVE  Requested(Contents(path)[n], path) \in Reached
<1> DEFINE requests == [p \in DOMAIN disk |-> Requests(p)]
<1>1. path \in DOMAIN disk
  <2> SUFFICES ASSUME path \notin DOMAIN disk PROVE FALSE
    OBVIOUS
  <2>1. Contents(path) = <<>>
    BY DEF Contents
  <2> QED  BY <2>1
<1>2. Requested(Contents(path)[n], path) \in Requests(path)
  BY DEF Requests, Seen
<1>3. Reached = ReachedThrough(requests) /\ DOMAIN requests = DOMAIN disk
      /\ requests[path] = Requests(path)
  BY <1>1 DEF Reached
<1>4. IsFiniteSet(DOMAIN requests)
  BY <1>3, FilesAssumption
<1> HIDE DEF requests
<1>5. requests[path] \subseteq Reached
  BY <1>1, <1>3, <1>4, ReachedClosed
<1> QED  BY <1>2, <1>3, <1>5

LEMMA LoadNextLoading == LoaderTyped /\ Loading /\ LoadNextFile => Loading'
<1> SUFFICES ASSUME LoaderTyped, Loading, LoadNextFile PROVE Loading'
  OBVIOUS
<1> DEFINE path == filesToLoad[loading]
           file == [path |-> path, content |-> Contents(path)]
<1>1. /\ loader = "running" /\ parsing = 0 /\ loading <= Len(filesToLoad)
      /\ sourceFiles' = LoadFile(path)
      /\ parsing' = CHOOSE i \in 1 .. Len(sourceFiles') : sourceFiles'[i].path = path
      /\ unparsed' = sourceFiles'[parsing'].content
      /\ UNCHANGED <<disk, filesToLoad, loading, declarations, loader>>
  BY DEF LoadNextFile, LoadNext
<1>2. Counts
  BY LoaderCounts
<1>3. WorklistSound /\ SourcesSound /\ ParsedSound /\ DeclarationsSound /\ EndSound
  BY DEF Loading
<1>4. loading \in 1 .. Len(filesToLoad) /\ Len(sourceFiles) = loading - 1
  BY <1>1, <1>2, <1>3 DEF SourcesSound, Counts
<1>5. path \in Seq(Folders) /\ Contents(path) \in Seq(Items)
  <2>1. path \in Seq(Folders)
    BY <1>4, ElementOfSeq DEF LoaderTyped
  <2> HIDE DEF path
  <2>2. Contents(path) \in Seq(Items)
    BY EmptySeq DEF Contents, LoaderTyped
  <2> QED  BY <2>1, <2>2
<1>6. ~Loaded(path)
  <2> SUFFICES ASSUME NEW i \in 1 .. Len(sourceFiles), sourceFiles[i].path = path PROVE FALSE
    BY DEF Loaded
  <2>1. filesToLoad[i] = path /\ i < loading /\ i \in 1 .. Len(filesToLoad)
    BY <1>2, <1>3, <1>4 DEF SourcesSound, Counts
  <2> QED  BY <1>3, <1>4, <2>1 DEF WorklistSound
<1>7. file \in Sources /\ file.path = path /\ file.content = Contents(path)
  BY <1>5 DEF Sources
<1>8. sourceFiles' = Append(sourceFiles, file)
  BY <1>1, <1>6 DEF LoadFile
<1> HIDE DEF file, path
<1>9. /\ sourceFiles' \in Seq(Sources) /\ Len(sourceFiles') = loading
      /\ sourceFiles'[loading] = file
      /\ \A i \in 1 .. loading - 1 : sourceFiles'[i] = sourceFiles[i]
  BY <1>2, <1>4, <1>7, <1>8, AppendProperties DEF LoaderTyped, Counts
<1>10. parsing' = loading
  <2>1. \A i \in 1 .. loading : sourceFiles'[i].path = path => i = loading
    <3> SUFFICES ASSUME NEW i \in 1 .. loading, i # loading, sourceFiles'[i].path = path PROVE FALSE
      OBVIOUS
    <3>1. i \in 1 .. Len(sourceFiles) /\ sourceFiles[i].path = path
      BY <1>2, <1>4, <1>9 DEF Counts
    <3> QED  BY <1>6, <3>1 DEF Loaded
  <2>2. loading \in 1 .. Len(sourceFiles') /\ sourceFiles'[loading].path = path
    BY <1>2, <1>7, <1>9 DEF Counts
  <2> QED  BY <1>1, <1>9, <2>1, <2>2
<1>11. unparsed' = Contents(path) /\ Content(loading)' = Contents(path)
       /\ \A i \in 1 .. loading - 1 : Content(i)' = Content(i)
  BY <1>1, <1>7, <1>9, <1>10 DEF Content
<1>12. Reached' = Reached /\ Listed' = Listed /\ \A p : Contents(p)' = Contents(p)
  BY <1>1, ReachedStays DEF Listed
<1>13. /\ Parsed(loading)' = 0 /\ loading' = loading
       /\ \A i \in 1 .. loading - 1 : Parsed(i)' = Parsed(i)
  <2>1. Len(Contents(path)) \in Nat
    BY <1>5, LenProperties
  <2>2. loading' = loading
    BY <1>1
  <2>3. Parsed(loading)' = 0
    BY <1>2, <1>11, <2>1, <2>2 DEF Parsed, Counts
  <2>4. \A i \in 1 .. loading - 1 : Parsed(i)' = Parsed(i)
    BY <1>2, <1>11, <2>2 DEF Parsed, Counts
  <2> QED  BY <2>2, <2>3, <2>4
<1>14. WorklistSound'
  BY <1>1, <1>3, <1>12 DEF WorklistSound
<1>15. SourcesSound'
  <2>1. ASSUME NEW i \in 1 .. loading
        PROVE  sourceFiles'[i].path = filesToLoad[i] /\ Content(i)' = Contents(filesToLoad[i])
    <3>1. CASE i = loading
      <4>1. filesToLoad[loading] = path
        BY DEF path
      <4>2. Content(loading)' = Contents(path) /\ sourceFiles'[loading].path = path
        BY <1>7, <1>9, <1>11
      <4>3. Content(i)' = Content(loading)'
        BY <1>1, <3>1 DEF Content
      <4> QED  BY <3>1, <4>1, <4>2, <4>3
    <3>2. CASE i # loading
      <4>1. i \in 1 .. loading - 1 /\ i \in 1 .. Len(sourceFiles)
        BY <1>2, <1>4, <3>2 DEF Counts
      <4> QED  BY <1>3, <1>9, <1>11, <4>1 DEF SourcesSound
    <3> QED  BY <3>1, <3>2
  <2>2. filesToLoad' = filesToLoad /\ loading' = loading
    BY <1>1
  <2> QED  BY <1>2, <1>4, <1>9, <1>10, <1>12, <2>1, <2>2 DEF SourcesSound, Counts
<1>16. ParsedSound'
  <2>1. Len(Contents(path)) \in Nat
    BY <1>5, LenProperties
  <2>2. /\ Len(unparsed') <= Len(Content(parsing)')
        /\ \A k \in 1 .. Len(unparsed') :
             unparsed'[k] = Content(parsing)'[Len(Content(parsing)') - Len(unparsed') + k]
    <3> DEFINE items == Contents(path)
    <3>1. unparsed' = items /\ Content(parsing)' = items
      BY <1>1, <1>10, <1>11 DEF Content
    <3>2. Len(items) \in Nat
      BY <2>1
    <3> HIDE DEF items
    <3>3. \A k \in 1 .. Len(items) : Len(items) - Len(items) + k = k
      BY <3>2
    <3> QED  BY <3>1, <3>2, <3>3
  <2>3. ASSUME NEW i \in 1 .. loading, NEW k \in 1 .. Parsed(i)'
        PROVE  Answered(Content(i)[k], filesToLoad[i])'
    <3>1. i # loading
      BY <1>13
    <3>2. i \in 1 .. loading - 1 /\ i \in 1 .. Len(sourceFiles)
      BY <1>2, <1>4, <3>1 DEF Counts
    <3>3. k \in 1 .. Parsed(i) /\ Content(i)' = Content(i) /\ filesToLoad' = filesToLoad
      BY <1>1, <1>11, <1>13, <3>2
    <3>4. Answered(Content(i)[k], filesToLoad[i])
      BY <1>3, <3>2, <3>3 DEF ParsedSound
    <3> QED  BY <1>12, <3>3, <3>4 DEF Answered
  <2> QED  BY <1>9, <2>2, <2>3 DEF ParsedSound
<1>17. DeclarationsSound'
  <2> DEFINE before == [i \in 1 .. loading - 1 |-> FunctionsParsed(i)]
             after == [i \in 1 .. loading |-> FunctionsParsed(i)']
  <2>1. ASSUME NEW i \in 1 .. loading - 1
        PROVE  FunctionsParsed(i)' = FunctionsParsed(i) /\ FunctionsParsed(i) \in Seq(Items)
    <3>1. i \in 1 .. Len(sourceFiles)
      BY <1>4
    <3>2. Content(i) \in Seq(Items) /\ Len(Content(i)) \in Nat /\ i < loading
      BY <1>2, <3>1, ContentTypes DEF Counts
    <3>3. SubSeq(Content(i), 1, Parsed(i)) = Content(i)
      BY <3>2, SubSeqFull DEF Parsed
    <3>4. FunctionsIn(Content(i)) \in Seq(Items)
      BY <3>2, FunctionsTyped
    <3> QED  BY <1>11, <1>13, <3>3, <3>4 DEF FunctionsParsed
  <2>2. FunctionsParsed(loading)' = <<>>
    <3>1. SubSeq(Content(loading)', 1, Parsed(loading)') = <<>>
      BY <1>13, SubSeqEmpty
    <3> QED  BY <3>1, FunctionsInNone DEF FunctionsParsed
  <2>3. before \in Seq(Seq(Items)) /\ Len(before) = loading - 1
        /\ \A i \in 1 .. loading - 1 : before[i] = FunctionsParsed(i)
    BY <1>2, <2>1 DEF Counts
  <2>4. after \in Seq(Seq(Items)) /\ Len(after) = loading
        /\ (\A i \in 1 .. loading - 1 : after[i] = FunctionsParsed(i)) /\ after[loading] = <<>>
    <3>1. loading \in Nat /\ loading >= 1 /\ <<>> \in Seq(Items)
      BY <1>2, EmptySeq DEF Counts
    <3>2. \A i \in 1 .. loading : FunctionsParsed(i)' \in Seq(Items)
      <4> SUFFICES ASSUME NEW i \in 1 .. loading PROVE FunctionsParsed(i)' \in Seq(Items)
        OBVIOUS
      <4>1. CASE i = loading
        <5>1. FunctionsParsed(i)' = FunctionsParsed(loading)'
          BY <4>1, <1>1 DEF FunctionsParsed, Parsed, Content
        <5> QED  BY <5>1, <3>1, <2>2
      <4>2. CASE i # loading
        BY <4>2, <3>1, <2>1
      <4> QED  BY <4>1, <4>2
    <3>3. \A i \in 1 .. loading : after[i] = FunctionsParsed(i)'
      OBVIOUS
    <3>4. after \in Seq(Seq(Items)) /\ Len(after) = loading
      BY <3>1, <3>2, IsASeq
    <3>5. loading \in 1 .. loading /\ \A i \in 1 .. loading - 1 : i \in 1 .. loading
      BY <3>1
    <3>6. after[loading] = <<>>
      <4>1. FunctionsParsed(loading)' = <<>>
        BY <2>2
      <4>2. \A i : i = loading => FunctionsParsed(i)' = FunctionsParsed(loading)'
        BY <1>1 DEF FunctionsParsed, Parsed, Content
      <4> QED  BY <3>3, <3>5, <4>1, <4>2
    <3> HIDE DEF after
    <3> QED  BY <2>1, <3>3, <3>4, <3>5, <3>6
  <2>5. declarations = FlattenSeq(before)
    BY <1>3, <1>4 DEF DeclarationsSound
  <2>6. DeclarationsSound' <=> declarations' = FlattenSeq(after)
    BY <1>9 DEF DeclarationsSound
  <2> HIDE DEF before, after
  <2>7. <<>> \in Seq(Items)
    BY EmptySeq
  <2>8. /\ Append(before, <<>>) \in Seq(Seq(Items)) /\ Len(Append(before, <<>>)) = loading
        /\ \A i \in 1 .. loading - 1 : Append(before, <<>>)[i] = before[i]
        /\ Append(before, <<>>)[loading] = <<>>
    BY <1>2, <2>3, <2>7, AppendProperties DEF Counts
  <2>9. after = Append(before, <<>>)
    <3>1. \A i \in 1 .. loading : after[i] = Append(before, <<>>)[i]
      <4> SUFFICES ASSUME NEW i \in 1 .. loading PROVE after[i] = Append(before, <<>>)[i]
        OBVIOUS
      <4>1. CASE i = loading
        BY <2>4, <2>8, <4>1
      <4>2. CASE i # loading
        <5>1. i \in 1 .. loading - 1
          BY <1>2, <4>2 DEF Counts
        <5> QED  BY <5>1, <2>3, <2>4, <2>8
      <4> QED  BY <4>1, <4>2
    <3> QED  BY <2>4, <2>8, <3>1, SeqEqual
  <2>10. FlattenSeq(before) \in Seq(Items) /\ FlattenSeq(after) = FlattenSeq(before) \o <<>>
    BY <2>3, <2>7, <2>9, FlattenAppend
  <2>11. FlattenSeq(after) = FlattenSeq(before)
    BY <2>10, ConcatEmptySeq
  <2> QED  BY <1>1, <2>5, <2>6, <2>11
<1>18. EndSound'
  BY <1>1 DEF EndSound
<1> QED  BY <1>14, <1>15, <1>16, <1>17, <1>18 DEF Loading

(* The parser takes one item: what follows for Parsed and the rest.        *)
LEMMA ItemParsed ==
  ASSUME LoaderTyped, Loading, NEW kinds, Parsing(kinds), unparsed' = Tail(unparsed),
         UNCHANGED <<disk, loading, sourceFiles, parsing>>
  PROVE  /\ loading = parsing /\ Len(sourceFiles) = loading /\ loading \in 1 .. Len(sourceFiles)
         /\ Parsed(loading) \in Nat /\ Parsed(loading) + 1 <= Len(Content(loading))
         /\ Content(loading)[Parsed(loading) + 1] = Head(unparsed)
         /\ Parsed(loading)' = Parsed(loading) + 1
         /\ \A i \in 1 .. loading - 1 : Parsed(i)' = Parsed(i) /\ Parsed(i) = Len(Content(i))
         /\ \A i : Content(i)' = Content(i)
         /\ Len(unparsed') <= Len(Content(parsing)')
         /\ \A k \in 1 .. Len(unparsed') :
              unparsed'[k] = Content(parsing)'[Len(Content(parsing)') - Len(unparsed') + k]
<1> DEFINE content == Content(loading)
           n == Len(content)
           left == Len(unparsed)
<1>1. unparsed \in Seq(Items) /\ unparsed # <<>> /\ parsing # 0 /\ Counts
  BY LoaderCounts DEF Parsing, LoaderTyped
<1>2. loading = parsing /\ Len(sourceFiles) = loading /\ loading \in 1 .. Len(sourceFiles)
  BY <1>1 DEF Loading, SourcesSound, Counts
<1>3. n \in Nat /\ left \in Nat /\ left > 0
  <2>1. left # 0
    BY <1>1, EmptySeq
  <2> QED  BY <1>1, <1>2, <2>1, ContentTypes DEF Counts
<1>4. /\ left <= n /\ \A k \in 1 .. left : unparsed[k] = content[n - left + k]
  BY <1>1, <1>2 DEF Loading, ParsedSound
<1>5. /\ Len(unparsed') = left - 1
      /\ \A k \in 1 .. left - 1 : unparsed'[k] = unparsed[k + 1]
      /\ Head(unparsed) = unparsed[1]
  BY <1>1, HeadTailProperties
<1>6. \A i : Content(i)' = Content(i)
  BY DEF Content
<1>7. Parsed(loading) = n - left
  BY <1>1 DEF Parsed, Counts
<1>8. Parsed(loading)' = n - (left - 1)
  <2>1. Parsed(loading)' = Len(Content(loading)') - Len(unparsed')
    BY <1>1 DEF Parsed, Counts
  <2> QED  BY <1>5, <1>6, <2>1
<1>9. \A i \in 1 .. loading - 1 : Parsed(i)' = Parsed(i) /\ Parsed(i) = Len(Content(i))
  BY <1>1, <1>6 DEF Parsed, Counts
<1>10. Content(parsing)' = content
  BY <1>2, <1>6 DEF Content
<1> HIDE DEF content, n, left
<1>11. content[(n - left) + 1] = Head(unparsed)
  BY <1>3, <1>4, <1>5
<1>12. ASSUME NEW k \in 1 .. left - 1
       PROVE  unparsed'[k] = content[n - (left - 1) + k]
  <2>1. PICK l \in 1 .. left : l = k + 1 /\ n - left + l = n - (left - 1) + k
    BY <1>3
  <2> QED  BY <1>4, <1>5, <2>1
<1>13. Len(unparsed') <= Len(content)
  BY <1>3, <1>4, <1>5 DEF n
<1>14. \A k \in 1 .. Len(unparsed') :
         unparsed'[k] = Content(parsing)'[Len(Content(parsing)') - Len(unparsed') + k]
  BY <1>5, <1>10, <1>12 DEF n
<1>15. Parsed(loading) \in Nat /\ Parsed(loading) + 1 <= n /\ Parsed(loading)' = Parsed(loading) + 1
  BY <1>3, <1>4, <1>7, <1>8
<1>16. content[Parsed(loading) + 1] = Head(unparsed)
  BY <1>7, <1>11
<1> QED  BY <1>2, <1>6, <1>9, <1>10, <1>13, <1>14, <1>15, <1>16 DEF content, n

LEMMA ItemLoading ==
  ASSUME LoaderTyped, Loading, NEW kinds, Parsing(kinds), unparsed' = Tail(unparsed),
         UNCHANGED <<disk, loading, sourceFiles, parsing, loader>>,
         NEW item \in Items, item = Head(unparsed), NEW path, path = filesToLoad[loading],
         WorklistSound', Listed \subseteq Listed', Len(filesToLoad') \in Nat,
         Len(filesToLoad) <= Len(filesToLoad'),
         \A i \in 1 .. Len(filesToLoad) : filesToLoad'[i] = filesToLoad[i],
         Answered(item, path)', IsJoin(declarations, FunctionAt(item), declarations')
  PROVE  Loading'
<1>1. /\ loading = parsing /\ Len(sourceFiles) = loading /\ loading \in 1 .. Len(sourceFiles)
      /\ Parsed(loading) \in Nat /\ Parsed(loading) + 1 <= Len(Content(loading))
      /\ Content(loading)[Parsed(loading) + 1] = item
      /\ Parsed(loading)' = Parsed(loading) + 1
      /\ \A i \in 1 .. loading - 1 : Parsed(i)' = Parsed(i) /\ Parsed(i) = Len(Content(i))
      /\ \A i : Content(i)' = Content(i)
      /\ Len(unparsed') <= Len(Content(parsing)')
      /\ \A k \in 1 .. Len(unparsed') :
           unparsed'[k] = Content(parsing)'[Len(Content(parsing)') - Len(unparsed') + k]
  BY ItemParsed
<1>2. Counts /\ loader = "running" /\ loader' = "running" /\ parsing # 0
  BY LoaderCounts DEF Parsing
<1>3. WorklistSound /\ SourcesSound /\ ParsedSound /\ DeclarationsSound /\ EndSound
  BY DEF Loading
<1>4. loading \in Nat \ {0} /\ loading' = loading /\ sourceFiles' = sourceFiles
      /\ Len(filesToLoad) \in Nat /\ loading <= Len(filesToLoad)
  BY <1>1, <1>2, <1>3 DEF Counts, SourcesSound
<1>5. \A i \in 1 .. loading : filesToLoad'[i] = filesToLoad[i]
  BY <1>4
<1>6. SourcesSound'
  <2>1. \A p : Contents(p)' = Contents(p)
    BY ReachedStays
  <2>2. ASSUME NEW i \in 1 .. loading
        PROVE  (sourceFiles[i].path = filesToLoad[i] /\ Content(i) = Contents(filesToLoad[i]))'
    <3>1. sourceFiles[i].path = filesToLoad[i] /\ Content(i) = Contents(filesToLoad[i])
      BY <1>1, <1>3 DEF SourcesSound
    <3>2. filesToLoad'[i] = filesToLoad[i] /\ Content(i)' = Content(i)
      BY <1>1, <1>5
    <3>3. Contents(filesToLoad[i])' = Contents(filesToLoad[i])
      BY <3>2 DEF Contents
    <3> QED  BY <1>4, <3>1, <3>2, <3>3
  <2>3. Len(sourceFiles') = loading /\ parsing' = loading /\ loading' = loading
        /\ loading <= Len(filesToLoad')
    BY <1>1, <1>4
  <2>4. loading # 0
    BY <1>4
  <2> QED  BY <2>2, <2>3, <2>4 DEF SourcesSound
<1>7. ASSUME NEW i \in 1 .. loading, NEW k \in 1 .. Parsed(i)'
      PROVE  Answered(Content(i)[k], filesToLoad[i])'
  <2>1. CASE i = loading /\ k = Parsed(loading) + 1
    <3>1. Content(i)'[k] = item /\ filesToLoad'[i] = path
      <4>1. Content(i)' = Content(loading)
        BY <1>1, <2>1
      <4> QED  BY <1>1, <1>5, <2>1, <4>1
    <3> QED  BY <3>1 DEF Answered, Listed
  <2>2. CASE ~(i = loading /\ k = Parsed(loading) + 1)
    <3>1. k \in 1 .. Parsed(i)
      <4>1. CASE i = loading
        <5>1. Parsed(i)' = Parsed(loading) + 1 /\ Parsed(i) = Parsed(loading)
          BY <1>1, <1>4, <4>1 DEF Parsed, Content
        <5> QED  BY <1>1, <2>2, <4>1, <5>1
      <4>2. CASE i # loading
        <5>1. i \in 1 .. loading - 1
          BY <1>4, <4>2
        <5> QED  BY <1>1, <5>1
      <4> QED  BY <4>1, <4>2
    <3>2. Answered(Content(i)[k], filesToLoad[i])
      BY <1>1, <1>3, <3>1 DEF ParsedSound
    <3>3. Content(i)' = Content(i) /\ filesToLoad'[i] = filesToLoad[i]
      BY <1>1, <1>5
    <3> QED  BY <3>2, <3>3 DEF Answered
  <2> QED  BY <2>1, <2>2
<1>8. ParsedSound'
  <2>1. Len(sourceFiles') = loading
    BY <1>1
  <2> QED  BY <1>1, <1>7, <2>1 DEF ParsedSound
<1>9. DeclarationsSound'
  <2> DEFINE before == [i \in 1 .. loading |-> FunctionsParsed(i)]
             after == [i \in 1 .. loading |-> FunctionsParsed(i)']
  <2>1. ASSUME NEW i \in 1 .. loading
        PROVE  /\ Content(i) \in Seq(Items) /\ Len(Content(i)) \in Nat
               /\ SubSeq(Content(i), 1, Parsed(i)) \in Seq(Items)
               /\ FunctionsParsed(i) \in Seq(Items)
    <3>1. Content(i) \in Seq(Items) /\ Len(Content(i)) \in Nat
          /\ \A k \in 1 .. Len(Content(i)) : Content(i)[k] \in Items
      BY <1>1, ContentTypes
    <3>2. Parsed(i) \in Int /\ Parsed(i) <= Len(Content(i))
      <4>1. CASE i = loading
        BY <1>1, <4>1
      <4>2. CASE i # loading
        BY <1>1, <1>4, <3>1, <4>2
      <4> QED  BY <4>1, <4>2
    <3>3. SubSeq(Content(i), 1, Parsed(i)) \in Seq(Items)
      <4>1. \A k \in 1 .. Parsed(i) : Content(i)[k] \in Items
        BY <3>1, <3>2
      <4> QED  BY <3>2, <4>1, SubSeqProperties
    <3> QED  BY <3>1, <3>3, FunctionsTyped DEF FunctionsParsed
  <2>2. \A i \in 1 .. loading : i # loading => FunctionsParsed(i)' = FunctionsParsed(i)
    <3> SUFFICES ASSUME NEW i \in 1 .. loading, i # loading
                 PROVE  FunctionsParsed(i)' = FunctionsParsed(i)
      OBVIOUS
    <3>1. i \in 1 .. loading - 1
      BY <1>4
    <3> QED  BY <1>1, <3>1 DEF FunctionsParsed
  <2>3. IsJoin(FunctionsParsed(loading), FunctionAt(item), FunctionsParsed(loading)')
    <3> DEFINE content == Content(loading)
               n == Parsed(loading)
    <3>1. content \in Seq(Items) /\ n \in Nat /\ n + 1 \in 1 .. Len(content) /\ content[n + 1] = item
          /\ SubSeq(content, 1, n) \in Seq(Items)
      BY <1>1, <2>1
    <3>2. FunctionsParsed(loading)' = FunctionsIn(SubSeq(content, 1, n + 1))
      <4>1. Content(loading)' = content /\ Parsed(loading)' = n + 1
        BY <1>1, <1>4 DEF Content
      <4> QED  BY <4>1 DEF FunctionsParsed
    <3>3. FunctionsParsed(loading) = FunctionsIn(SubSeq(content, 1, n))
      BY DEF FunctionsParsed
    <3> HIDE DEF content, n
    <3>4. SubSeq(content, 1, n + 1) = Append(SubSeq(content, 1, n), item)
      <4>1. 1 \in 1 .. Len(content) /\ n + 1 \in 1 .. Len(content) /\ (n + 1) - 1 = n
        BY <3>1
      <4>2. SubSeq(content, 1, n + 1) = SubSeq(content, 1, (n + 1) - 1) \o <<content[n + 1]>>
        BY <3>1, <4>1, SubSeqRecursiveSecond
      <4> QED  BY <3>1, <4>1, <4>2, AppendIsConcat
    <3> QED  BY <3>1, <3>2, <3>3, <3>4, FunctionsInNext DEF IsJoin
  <2>4. FunctionAt(item) \in Seq(Items)
    BY FunctionAtTypes
  <2>5. \A i \in 1 .. loading : FunctionsParsed(i)' \in Seq(Items)
    <3> SUFFICES ASSUME NEW i \in 1 .. loading PROVE FunctionsParsed(i)' \in Seq(Items)
      OBVIOUS
    <3>1. CASE i = loading
      <4>1. FunctionsParsed(i)' = FunctionsParsed(loading)' /\ FunctionsParsed(loading) \in Seq(Items)
        BY <1>4, <2>1, <3>1 DEF FunctionsParsed, Parsed, Content
      <4> QED  BY <2>3, <2>4, <4>1, ConcatProperties DEF IsJoin
    <3>2. CASE i # loading
      BY <2>1, <2>2, <3>2
    <3> QED  BY <3>1, <3>2
  <2>6. before \in [1 .. loading -> Seq(Items)] /\ after \in [1 .. loading -> Seq(Items)]
    BY <2>1, <2>5
  <2>7. \A i \in 1 .. loading : i # loading => after[i] = before[i]
    BY <2>2
  <2>8. IsJoin(before[loading], FunctionAt(item), after[loading])
    <3>1. before[loading] = FunctionsParsed(loading) /\ loading \in 1 .. loading
      BY <1>4
    <3>2. after[loading] = FunctionsParsed(loading)'
      <4>1. \A i : i = loading => FunctionsParsed(i)' = FunctionsParsed(loading)'
        BY <1>4 DEF FunctionsParsed, Parsed, Content
      <4> QED  BY <1>4, <4>1
    <3> QED  BY <2>3, <3>1, <3>2
  <2>9. declarations = FlattenSeq(before)
    BY <1>1, <1>3 DEF DeclarationsSound
  <2>10. DeclarationsSound' <=> declarations' = FlattenSeq(after)
    <3>1. Len(sourceFiles') = loading
      BY <1>1
    <3> QED  BY <3>1 DEF DeclarationsSound
  <2> HIDE DEF before, after
  <2>11. IsJoin(FlattenSeq(before), FunctionAt(item), FlattenSeq(after))
    <3>1. LastGrows(before, after, loading, FunctionAt(item))
      BY <2>7, <2>8 DEF LastGrows
    <3> QED  BY <1>4, <2>4, <2>6, <3>1, FlattenLast, Zenon
  <2> QED  BY <2>9, <2>10, <2>11 DEF IsJoin
<1>10. EndSound'
  BY <1>2 DEF EndSound
<1> QED  BY <1>6, <1>8, <1>9, <1>10 DEF Loading

LEMMA FunctionLoading == LoaderTyped /\ Loading /\ ParseFunction => Loading'
<1> SUFFICES ASSUME LoaderTyped, Loading, ParseFunction,
                    NEW item, item = Head(unparsed), NEW path, path = filesToLoad[loading]
             PROVE  Loading'
  OBVIOUS
<1>1. /\ Parsing({"function"}) /\ unparsed' = Tail(unparsed)
      /\ declarations' = Append(declarations, item)
      /\ UNCHANGED <<disk, filesToLoad, loading, sourceFiles, parsing, loader>>
  BY DEF ParseFunction
<1>2. item \in Items /\ item.kind = "function"
  BY <1>1, NextItem
<1>3. WorklistSound' /\ Listed' = Listed
  <2>1. Reached' = Reached /\ Listed' = Listed
    BY <1>1, ReachedStays DEF Listed
  <2> QED  BY <1>1, <2>1 DEF Loading, WorklistSound
<1>4. Len(filesToLoad') \in Nat
  BY <1>1, LoaderCounts DEF Counts
<1>5. Answered(item, path)'
  BY <1>2 DEF Answered
<1>6. IsJoin(declarations, FunctionAt(item), declarations')
  <2>1. item \in Functions /\ declarations \in Seq(Functions)
    BY <1>2, ItemKinds DEF LoaderTyped
  <2>2. Append(declarations, item) = declarations \o <<item>>
    BY <2>1, AppendIsConcat
  <2> QED  BY <1>1, <1>2, <2>2 DEF IsJoin, FunctionAt
<1> QED  BY <1>1, <1>2, <1>3, <1>4, <1>5, <1>6, ItemLoading

LEMMA DirectiveLoading == LoaderTyped /\ Loading /\ ParseDirective => Loading'
<1> SUFFICES ASSUME LoaderTyped, Loading, ParseDirective,
                    NEW item, item = Head(unparsed), NEW path, path = filesToLoad[loading]
             PROVE  Loading'
  OBVIOUS
<1> DEFINE new == Requested(item, path)
<1>1. /\ Parsing({"load", "import"}) /\ unparsed' = Tail(unparsed)
      /\ filesToLoad' = AddFileToLoad(Requested(item, sourceFiles[parsing].path))
      /\ UNCHANGED <<disk, loading, sourceFiles, parsing, declarations, loader>>
  BY DEF ParseDirective
<1>2. item \in Items /\ item.kind \in {"load", "import"}
  BY <1>1, NextItem
<1>3. WorklistSound /\ SourcesSound /\ ParsedSound /\ Counts
  BY LoaderCounts DEF Loading
<1>4. /\ loading = parsing /\ Len(sourceFiles) = loading /\ loading \in 1 .. Len(sourceFiles)
      /\ Parsed(loading) \in Nat /\ Parsed(loading) + 1 <= Len(Content(loading))
      /\ Content(loading)[Parsed(loading) + 1] = item
  BY <1>1, ItemParsed
<1>5. /\ sourceFiles[parsing].path = path /\ Content(loading) = Contents(path)
      /\ loading \in 1 .. Len(filesToLoad) /\ path \in Listed
  <2>1. loading \in 1 .. Len(filesToLoad)
    BY <1>3, <1>4 DEF SourcesSound, Counts
  <2> QED  BY <1>3, <1>4, <2>1 DEF SourcesSound, Listed
<1>6. path \in Seq(Folders)
  BY <1>5, ElementOfSeq DEF LoaderTyped
<1>7. new \in Seq(Folders)
  BY <1>2, <1>6, RequestedTypes
<1>8. new \in Reached
  <2> DEFINE n == Parsed(loading) + 1
  <2>1. path \in Reached /\ disk \in Disks
    BY <1>3, <1>5 DEF WorklistSound
  <2>2. n \in 1 .. Len(Contents(path)) /\ Contents(path)[n] = item
    BY <1>4, <1>5
  <2>3. \A k \in 1 .. n : Contents(path)[k].kind # "malformed"
    <3> SUFFICES ASSUME NEW k \in 1 .. n PROVE Contents(path)[k].kind # "malformed"
      OBVIOUS
    <3>1. CASE k = n
      BY <1>2, <2>2, <3>1
    <3>2. CASE k # n
      <4>1. k \in 1 .. Parsed(loading)
        BY <1>4, <3>2
      <4> HIDE DEF n
      <4> QED  BY <1>3, <1>4, <1>5, <4>1 DEF ParsedSound, Answered
    <3> QED  BY <3>1, <3>2
  <2> HIDE DEF n
  <2> QED  BY <1>2, <2>1, <2>2, <2>3, RequestedReached DEF n
<1>9. filesToLoad' = AddFileToLoad(new)
  BY <1>1, <1>5
<1> HIDE DEF new
<1>10. Reached' = Reached
  BY <1>1, ReachedStays
<1>11. /\ WorklistSound' /\ Listed \subseteq Listed' /\ new \in Listed' /\ Len(filesToLoad') \in Nat
       /\ Len(filesToLoad) <= Len(filesToLoad')
       /\ \A i \in 1 .. Len(filesToLoad) : filesToLoad'[i] = filesToLoad[i]
  <2>1. CASE Contains(filesToLoad, new)
    <3>1. filesToLoad' = filesToLoad
      BY <1>9, <2>1 DEF AddFileToLoad
    <3>2. Listed' = Listed /\ new \in Listed
      BY <2>1, <3>1 DEF Listed, Contains
    <3> QED  BY <1>1, <1>3, <1>10, <3>1, <3>2 DEF WorklistSound, Counts
  <2>2. CASE ~Contains(filesToLoad, new)
    <3> DEFINE n == Len(filesToLoad)
    <3>1. filesToLoad' = Append(filesToLoad, new)
      BY <1>9, <2>2 DEF AddFileToLoad
    <3>2. /\ Len(filesToLoad') = n + 1 /\ filesToLoad'[n + 1] = new
          /\ \A i \in 1 .. n : filesToLoad'[i] = filesToLoad[i]
      BY <1>7, <3>1, AppendProperties DEF LoaderTyped
    <3>3. \A i \in 1 .. n : filesToLoad[i] # new
      BY <2>2 DEF Contains
    <3>4. n \in Nat /\ n >= 1
      BY <1>3, <1>5 DEF Counts
    <3>5. Listed' = Listed \cup {new}
      <4>1. 1 .. Len(filesToLoad') = 1 .. n \cup {n + 1}
        BY <3>2, <3>4
      <4> HIDE DEF n
      <4> QED  BY <3>2, <4>1 DEF Listed, n
    <3>6. \A i, j \in 1 .. n + 1 : filesToLoad'[i] = filesToLoad'[j] => i = j
      <4> SUFFICES ASSUME NEW i \in 1 .. n + 1, NEW j \in 1 .. n + 1,
                          filesToLoad'[i] = filesToLoad'[j]
                   PROVE  i = j
        OBVIOUS
      <4>1. \A k \in 1 .. n + 1 : k = n + 1 \/ k \in 1 .. n
        BY <3>4
      <4>2. \A k, l \in 1 .. n : filesToLoad[k] = filesToLoad[l] => k = l
        BY <1>3 DEF WorklistSound
      <4> HIDE DEF n
      <4> QED  BY <3>2, <3>3, <4>1, <4>2
    <3>7. filesToLoad' # <<>> /\ filesToLoad'[1] = Main
      <4>1. Len(filesToLoad') # 0
        BY <3>2, <3>4
      <4>2. filesToLoad'[1] = filesToLoad[1]
        BY <3>2, <3>4
      <4> QED  BY <1>3, <4>1, <4>2 DEF WorklistSound
    <3>8. WorklistSound'
      BY <1>1, <1>3, <1>8, <1>10, <3>2, <3>5, <3>6, <3>7 DEF WorklistSound
    <3> QED  BY <3>2, <3>4, <3>5, <3>8
  <2> QED  BY <2>1, <2>2
<1>12. Answered(item, path)'
  BY <1>2, <1>11 DEF Answered, new
<1>13. IsJoin(declarations, FunctionAt(item), declarations')
  <2>1. FunctionAt(item) = <<>>
    BY <1>2 DEF FunctionAt
  <2>2. declarations \o <<>> = declarations
    BY ConcatEmptySeq DEF LoaderTyped
  <2> QED  BY <1>1, <2>1, <2>2 DEF IsJoin
<1> QED  BY <1>1, <1>2, <1>11, <1>12, <1>13, ItemLoading

LEMMA EndOfFileLoading == LoaderTyped /\ Loading /\ EndOfFile => Loading'
<1> SUFFICES ASSUME LoaderTyped, Loading, EndOfFile PROVE Loading'
  OBVIOUS
<1>1. /\ loader = "running" /\ parsing # 0 /\ unparsed = <<>> /\ parsing' = 0
      /\ loading' = loading + 1
      /\ UNCHANGED <<disk, filesToLoad, sourceFiles, unparsed, declarations, loader>>
  BY DEF EndOfFile
<1>2. WorklistSound /\ SourcesSound /\ ParsedSound /\ DeclarationsSound /\ EndSound /\ Counts
  BY LoaderCounts DEF Loading
<1>3. loading = parsing /\ Len(sourceFiles) = loading /\ loading \in Nat \ {0}
  BY <1>1, <1>2 DEF SourcesSound, Counts
<1>4. /\ Reached' = Reached /\ Listed' = Listed /\ \A p : Contents(p)' = Contents(p)
      /\ \A i : Content(i)' = Content(i)
  BY <1>1, ReachedStays DEF Listed, Content
<1>5. ASSUME NEW i \in 1 .. loading PROVE Parsed(i)' = Parsed(i)
  <2>1. Len(Content(i)) \in Nat /\ Len(unparsed) = 0
    BY <1>1, <1>3, ContentTypes
  <2>2. Parsed(i) = Len(Content(i))
    BY <2>1 DEF Parsed
  <2>3. Parsed(i)' = Len(Content(i))
    <3>1. i < loading'
      BY <1>1, <1>3
    <3> QED  BY <1>4, <3>1 DEF Parsed
  <2> QED  BY <2>2, <2>3
<1>6. WorklistSound'
  BY <1>1, <1>2, <1>4 DEF WorklistSound
<1>7. SourcesSound'
  <2>1. Len(sourceFiles') = loading' - 1 /\ Len(sourceFiles') <= Len(filesToLoad')
    BY <1>1, <1>2, <1>3 DEF SourcesSound
  <2>2. ASSUME NEW i \in 1 .. Len(sourceFiles')
        PROVE  (sourceFiles[i].path = filesToLoad[i] /\ Content(i) = Contents(filesToLoad[i]))'
    <3>1. sourceFiles[i].path = filesToLoad[i] /\ Content(i) = Contents(filesToLoad[i])
      BY <1>1, <1>2 DEF SourcesSound
    <3>2. Contents(filesToLoad[i])' = Contents(filesToLoad[i])
      BY <1>1 DEF Contents
    <3> QED  BY <1>1, <1>4, <3>1, <3>2
  <2> QED  BY <1>1, <2>1, <2>2 DEF SourcesSound
<1>8. ParsedSound'
  <2>1. ASSUME NEW i \in 1 .. loading, NEW k \in 1 .. Parsed(i)'
        PROVE  Answered(Content(i)[k], filesToLoad[i])'
    <3>1. k \in 1 .. Parsed(i)
      BY <1>5
    <3>2. Answered(Content(i)[k], filesToLoad[i])
      BY <1>2, <1>3, <3>1 DEF ParsedSound
    <3> QED  BY <1>1, <1>4, <3>2 DEF Answered
  <2> QED  BY <1>1, <1>3, <2>1 DEF ParsedSound
<1>9. DeclarationsSound'
  <2>1. \A i \in 1 .. loading : FunctionsParsed(i)' = FunctionsParsed(i)
    BY <1>4, <1>5 DEF FunctionsParsed
  <2>2. [i \in 1 .. loading |-> FunctionsParsed(i)'] = [i \in 1 .. loading |-> FunctionsParsed(i)]
    BY <2>1
  <2>3. DeclarationsSound' <=> declarations' = FlattenSeq([i \in 1 .. loading |-> FunctionsParsed(i)'])
    <3>1. Len(sourceFiles') = loading
      BY <1>1, <1>3
    <3> QED  BY <3>1 DEF DeclarationsSound
  <2> QED  BY <1>1, <1>2, <1>3, <2>2, <2>3 DEF DeclarationsSound
<1>10. EndSound'
  BY <1>1 DEF EndSound
<1> QED  BY <1>6, <1>7, <1>8, <1>9, <1>10 DEF Loading

LEMMA RefusedLoading == LoaderTyped /\ Loading /\ RefuseMalformed => Loading'
<1> SUFFICES ASSUME LoaderTyped, Loading, RefuseMalformed PROVE Loading'
  OBVIOUS
<1>1. /\ Parsing({"malformed"}) /\ loader' = "failed"
      /\ UNCHANGED <<disk, filesToLoad, loading, sourceFiles, parsing, unparsed, declarations>>
  BY DEF RefuseMalformed
<1>2. WorklistSound /\ SourcesSound /\ ParsedSound /\ DeclarationsSound /\ Counts
  BY LoaderCounts DEF Loading
<1>3. /\ Reached' = Reached /\ Listed' = Listed
      /\ \A p : Contents(p)' = Contents(p) /\ IsMalformed(p)' = IsMalformed(p)
      /\ \A i : Content(i)' = Content(i) /\ Parsed(i)' = Parsed(i)
  BY <1>1, ReachedStays DEF Listed, Content, Parsed
<1>4. WorklistSound'
  BY <1>1, <1>2, <1>3 DEF WorklistSound
<1>5. SourcesSound'
  <2>1. \A i : Contents(filesToLoad[i])' = Contents(filesToLoad[i])
    BY <1>1 DEF Contents
  <2> QED  BY <1>1, <1>2, <1>3, <2>1 DEF SourcesSound
<1>6. ParsedSound'
  <2>1. \A i, k : Answered(Content(i)[k], filesToLoad[i])' <=> Answered(Content(i)[k], filesToLoad[i])
    BY <1>1, <1>3 DEF Answered
  <2>2. Content(parsing)' = Content(parsing)
    BY <1>1 DEF Content
  <2> QED  BY <1>1, <1>2, <1>3, <2>1, <2>2 DEF ParsedSound
<1>7. DeclarationsSound'
  BY <1>1, <1>2 DEF DeclarationsSound, FunctionsParsed, Content, Parsed
<1>8. \E path \in Reached : IsMalformed(path)
  <2> DEFINE path == filesToLoad[loading]
             n == (Len(Content(loading)) - Len(unparsed)) + 1
  <2>1. unparsed \in Seq(Items) /\ unparsed # <<>> /\ Head(unparsed).kind = "malformed"
        /\ parsing # 0 /\ loading = parsing /\ Len(sourceFiles) = loading
    BY <1>1, <1>2 DEF Parsing, LoaderTyped, SourcesSound
  <2>2. loading \in 1 .. Len(sourceFiles) /\ loading \in 1 .. Len(filesToLoad)
    BY <1>2, <2>1 DEF Counts, SourcesSound
  <2>3. path \in Reached /\ Content(loading) = Contents(path)
    BY <1>2, <2>2 DEF WorklistSound, SourcesSound, Listed
  <2>4. Len(Content(loading)) \in Nat /\ Len(unparsed) \in Nat /\ Len(unparsed) # 0
        /\ Head(unparsed) = unparsed[1]
    BY <2>1, <2>2, ContentTypes, LenProperties, EmptySeq, HeadTailProperties
  <2>5. Len(unparsed) <= Len(Content(loading)) /\ Content(loading)[n] = unparsed[1]
    BY <1>2, <2>1, <2>4, SMTT(30) DEF ParsedSound
  <2>6. n \in 1 .. Len(Contents(path)) /\ Contents(path)[n].kind = "malformed"
    BY <2>1, <2>3, <2>4, <2>5
  <2> HIDE DEF n, path
  <2>7. IsMalformed(path)
    BY <2>6 DEF IsMalformed
  <2> QED  BY <2>3, <2>7
<1>9. EndSound'
  BY <1>1, <1>3, <1>8 DEF EndSound
<1> QED  BY <1>4, <1>5, <1>6, <1>7, <1>9 DEF Loading

LEMMA StillLoading ==
  ASSUME Loading,
         UNCHANGED <<disk, filesToLoad, loading, sourceFiles, parsing, unparsed, declarations>>,
         EndSound'
  PROVE  Loading'
<1>1. WorklistSound'
  <2>1. Reached' = Reached /\ Listed' = Listed
    BY ReachedStays DEF Listed
  <2> QED  BY <2>1 DEF Loading, WorklistSound
<1>2. SourcesSound'
  <2>1. \A i : Contents(filesToLoad[i])' = Contents(filesToLoad[i]) /\ Content(i)' = Content(i)
    BY DEF Contents, Content
  <2> QED  BY <2>1 DEF Loading, SourcesSound
<1>3. ParsedSound'
  <2>1. /\ \A i : Content(i)' = Content(i) /\ Parsed(i)' = Parsed(i)
        /\ \A i, k : Answered(Content(i)[k], filesToLoad[i])' <=> Answered(Content(i)[k], filesToLoad[i])
        /\ Content(parsing)' = Content(parsing)
    BY DEF Answered, Content, Parsed, Listed
  <2> QED  BY <2>1 DEF Loading, ParsedSound
<1>4. DeclarationsSound'
  BY DEF Loading, DeclarationsSound, FunctionsParsed, Content, Parsed
<1> QED  BY <1>1, <1>2, <1>3, <1>4 DEF Loading

LEMMA LoadingStep == LoaderTyped /\ Loading /\ [LoaderNext]_loaderVars => Loading'
<1> SUFFICES ASSUME LoaderTyped, Loading, [LoaderNext]_loaderVars PROVE Loading'
  OBVIOUS
<1>1. CASE AllLoaded
  <2>1. /\ loader' = "done" /\ parsing = 0 /\ loading > Len(filesToLoad)
        /\ UNCHANGED <<disk, filesToLoad, loading, sourceFiles, parsing, unparsed, declarations>>
    BY <1>1 DEF AllLoaded
  <2>2. EndSound'
    BY <2>1 DEF EndSound
  <2> QED  BY <2>1, <2>2, StillLoading
<1>2. CASE UNCHANGED loaderVars
  <2>1. /\ loader' = loader
        /\ UNCHANGED <<disk, filesToLoad, loading, sourceFiles, parsing, unparsed, declarations>>
    BY <1>2 DEF loaderVars
  <2>2. EndSound'
    <3>1. Reached' = Reached /\ \A path : IsMalformed(path)' = IsMalformed(path)
      BY <2>1, ReachedStays
    <3> QED  BY <2>1, <3>1 DEF Loading, EndSound
  <2> QED  BY <2>1, <2>2, StillLoading
<1> QED  BY <1>1, <1>2, LoadNextLoading, DirectiveLoading, FunctionLoading, RefusedLoading,
            EndOfFileLoading DEF LoaderNext

(* Once the loop has ended the worklist is closed, hence all that is       *)
(* reached.                                                                *)
LEMMA LoadingFollows == LoaderTyped /\ Loading => LoadsWhatIsReached
<1> SUFFICES ASSUME LoaderTyped, Loading PROVE LoadsWhatIsReached
  OBVIOUS
<1>1. WorklistSound /\ SourcesSound /\ ParsedSound /\ DeclarationsSound /\ EndSound /\ Counts
  BY LoaderCounts DEF Loading
<1>2. \A i, j \in 1 .. Len(sourceFiles) : sourceFiles[i].path = sourceFiles[j].path => i = j
  <2>1. \A i \in 1 .. Len(sourceFiles) :
          i \in 1 .. Len(filesToLoad) /\ sourceFiles[i].path = filesToLoad[i]
    BY <1>1 DEF SourcesSound, Counts
  <2> QED  BY <1>1, <2>1 DEF WorklistSound
<1>3. ASSUME loader = "done"
      PROVE  /\ {sourceFiles[i].path : i \in 1 .. Len(sourceFiles)} = Reached
             /\ ~\E path \in Reached : IsMalformed(path)
             /\ declarations =
                  FlattenSeq([i \in 1 .. Len(sourceFiles) |-> FunctionsIn(sourceFiles[i].content)])
  <2>1. parsing = 0 /\ loading > Len(filesToLoad) /\ Len(sourceFiles) = loading - 1
        /\ Len(sourceFiles) <= Len(filesToLoad)
    BY <1>1, <1>3 DEF EndSound, SourcesSound
  <2>2. Len(sourceFiles) = Len(filesToLoad) /\ \A i \in 1 .. Len(sourceFiles) : i < loading
    BY <1>1, <2>1 DEF Counts
  <2>3. {sourceFiles[i].path : i \in 1 .. Len(sourceFiles)} = Listed
    BY <1>1, <2>2 DEF SourcesSound, Listed
  <2>4. ASSUME NEW path \in Listed, NEW k \in 1 .. Len(Contents(path))
        PROVE  Answered(Contents(path)[k], path)
    <3>1. PICK i \in 1 .. Len(sourceFiles) : path = filesToLoad[i]
      BY <2>2, <2>4 DEF Listed
    <3>2. Content(i) = Contents(path)
      BY <1>1, <3>1 DEF SourcesSound
    <3>3. Parsed(i) = Len(Content(i))
      BY <2>2 DEF Parsed
    <3> QED  BY <1>1, <2>4, <3>1, <3>2, <3>3 DEF ParsedSound
  <2>5. ASSUME NEW path \in Listed
        PROVE  Requests(path) \subseteq Listed /\ ~IsMalformed(path)
    <3>1. ~IsMalformed(path)
      BY <2>4 DEF IsMalformed, Answered
    <3>2. ASSUME NEW item \in Seen(path), item.kind \in {"load", "import"}
          PROVE  Requested(item, path) \in Listed
      <4>1. PICK k \in 1 .. Len(Contents(path)) : item = Contents(path)[k]
        BY DEF Seen
      <4> QED  BY <2>4, <3>2, <4>1 DEF Answered
    <3> QED  BY <3>1, <3>2 DEF Requests
  <2>6. Reached = Listed
    <3> DEFINE requests == [path \in DOMAIN disk |-> Requests(path)]
    <3>1. DOMAIN requests = DOMAIN disk /\ Reached = ReachedThrough(requests)
      BY DEF Reached
    <3>2. \A path \in Listed \cap DOMAIN requests : requests[path] \subseteq Listed
      BY <2>5
    <3>3. IsFiniteSet(DOMAIN requests)
      BY <1>1, <3>1, FilesAssumption DEF WorklistSound
    <3>4. Main \in Listed
      <4>1. 1 \in 1 .. Len(filesToLoad)
        <5>1. Len(filesToLoad) # 0
          BY <1>1, EmptySeq DEF LoaderTyped, WorklistSound
        <5> QED  BY <1>1, <5>1 DEF Counts
      <4> QED  BY <1>1, <4>1 DEF WorklistSound, Listed
    <3> HIDE DEF requests
    <3>5. ReachedThrough(requests) \subseteq Listed
      BY <3>2, <3>3, <3>4, ReachedLeast
    <3> QED  BY <1>1, <3>1, <3>5 DEF WorklistSound
  <2>7. \A i \in 1 .. Len(sourceFiles) : FunctionsParsed(i) = FunctionsIn(sourceFiles[i].content)
    <3> SUFFICES ASSUME NEW i \in 1 .. Len(sourceFiles)
                 PROVE  FunctionsParsed(i) = FunctionsIn(Content(i))
      BY DEF Content
    <3>1. Parsed(i) = Len(Content(i)) /\ Content(i) \in Seq(Items)
      BY <2>2, ContentTypes DEF Parsed
    <3>2. SubSeq(Content(i), 1, Len(Content(i))) = Content(i)
      BY <3>1, SubSeqFull
    <3> QED  BY <3>1, <3>2 DEF FunctionsParsed
  <2>8. [i \in 1 .. Len(sourceFiles) |-> FunctionsParsed(i)]
          = [i \in 1 .. Len(sourceFiles) |-> FunctionsIn(sourceFiles[i].content)]
    BY <2>7
  <2>9. declarations =
          FlattenSeq([i \in 1 .. Len(sourceFiles) |-> FunctionsIn(sourceFiles[i].content)])
    BY <1>1, <2>8 DEF DeclarationsSound
  <2> QED  BY <2>3, <2>5, <2>6, <2>9
<1>4. loader = "failed" => \E path \in Reached : IsMalformed(path)
  BY <1>1 DEF EndSound
<1> QED  BY <1>2, <1>3, <1>4 DEF LoadsWhatIsReached

(* The code generator leaves what was loaded alone.                        *)
LEMMA LoaderSteps == [Next]_vars => [LoaderNext]_loaderVars
BY DEF Next, vars, LoadSources, EmitStart, BeginFunction, EmitCode, EmitCall, EmitForwardCall,
       CallWithFrom, EmitBuiltin, AbortOnUndeclared, EmitString, EndFunction, EndWithSymbol,
       PatchCalls, LayOut

(* However the files ask for each other, in cycles, twice, or for files    *)
(* that are not there, all that is reached from the first one is loaded    *)
(* and parsed once, and nothing else, and the loader fails only for a      *)
(* malformed file (the loop of main, add_file_to_load and load_file).      *)
THEOREM AllReachedIsLoaded == Spec => []LoadsWhatIsReached
<1>1. Init => LoaderTyped /\ Loading
  BY InitLoaderTyped, InitLoading DEF Init
<1>2. LoaderTyped /\ Loading /\ [Next]_vars => (LoaderTyped /\ Loading)'
  BY LoaderSteps, LoaderStep, LoadingStep
<1> QED  BY <1>1, <1>2, LoadingFollows, PTL DEF Spec
=============================================================================
