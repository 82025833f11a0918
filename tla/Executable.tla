----------------------------- MODULE Executable -----------------------------
(***************************************************************************)
(* From the loaded declarations to the executable file: where the code of  *)
(* the functions, their calls and their string literals go (generate_x64,  *)
(* generate_arm64 and the emitters of calls and strings), how the          *)
(* addresses that are not known in time are patched, and the layout and    *)
(* the addresses of the file (generate_elf, generate_macho, generate_pe).  *)
(*                                                                         *)
(* Text is measured, not spelled: only the words that hold a displacement  *)
(* are kept.  Of a function only its calls and string literals count; the  *)
(* instructions between them are an item of kind "code" and a size.        *)
(***************************************************************************)
EXTENDS SourceLoader

CONSTANTS
  Targets,     \* [platform, architecture], from the command line
  VmBase,      \* where Mach-O files are mapped: 2^32 in the code
  NameSize     \* bytes of a name, the same for all

ASSUME TargetsAssumption ==
  Targets \subseteq [platform : {"linux", "macos", "windows"}, architecture : {"arm64", "x86_64"}]
ASSUME SizesAssumption == VmBase \in Nat /\ VmBase % 16384 = 0 /\ NameSize \in Nat

VARIABLES
  target,      \* target_platform and target_architecture
  phase,       \* how far main is
  emitting,    \* index of the declaration being emitted
  statements,  \* what is left of its body
  addresses,   \* the address of every declaration emitted so far
  text, cstring,  \* sizes of section_text and section_cstring
  entryCall,   \* jump_location and *jump_patch of the start code
  mainAddress, \* jump_target
  calls,       \* the call instructions: [from, word, decl]
  callPatches, \* function_call_patches: indices of calls without an address
  strings,     \* patches: [from, offset, count, word]
  symbols,     \* symbol_table: [name, offset, size]
  image        \* the addresses and offsets in the file

codegenVars == <<target, phase, emitting, statements, addresses, text, cstring, entryCall,
                 mainAddress, calls, callPatches, strings, symbols, image>>
vars == <<loaderVars, codegenVars>>

Arm64 == target.architecture = "arm64"
Windows == target.platform = "windows"

-----------------------------------------------------------------------------
(* Displacements.  An x86-64 word holds the distance from the end of its   *)
(* instruction, a BL the distance in instructions, in 26 bits.             *)
Signed(word, bits) == IF word >= 2^(bits - 1) THEN word - 2^bits ELSE word

Displacement(distance) == IF Arm64 THEN (distance \div 4) % 2^26 ELSE distance
CallTarget(call) == call.from + (IF Arm64 THEN 4 * Signed(call.word, 26) ELSE call.word)

(* An ADRP holds the distance of the 4096-byte pages in two fields, the    *)
(* ADD after it the offset in the page.                                    *)
StringWord(stringAddress, instructionAddress) ==
  IF Arm64
  THEN LET pages == (stringAddress \div 4096) - (instructionAddress \div 4096)
       IN  <<pages % 4, (pages \div 4) % 2^19, stringAddress % 4096>>
  ELSE <<stringAddress - instructionAddress>>

StringTarget(word, instructionAddress) ==
  IF Arm64
  THEN ((instructionAddress \div 4096) + Signed(4 * word[2] + word[1], 21)) * 4096 + word[3]
  ELSE instructionAddress + word[1]

-----------------------------------------------------------------------------
(* find_function_declaration_by_name: the first of several.                *)
IsDeclared(name) == \E i \in 1 .. Len(declarations) : declarations[i].name = name
Declaration(name) ==
  CHOOSE i \in 1 .. Len(declarations) :
    /\ declarations[i].name = name
    /\ \A j \in 1 .. i - 1 : declarations[j].name # name

Builtins == {"exit", "write"}

InitCodegen ==
  /\ target \in Targets
  /\ phase = "loading"
  /\ emitting = 0
  /\ statements = <<>>
  /\ addresses = <<>>
  /\ text = 0 /\ cstring = 0
  /\ entryCall = [from |-> 0, word |-> 0]
  /\ mainAddress = 0
  /\ calls = <<>> /\ callPatches = <<>>
  /\ strings = <<>>
  /\ symbols = <<>>
  /\ image = <<>>

Init == InitLoader /\ InitCodegen

LoadSources ==
  /\ phase = "loading"
  /\ LoaderNext
  /\ phase' = IF loader' = "failed" THEN "done without output" ELSE phase
  /\ UNCHANGED <<target, emitting, statements, addresses, text, cstring, entryCall,
                 mainAddress, calls, callPatches, strings, symbols, image>>

(* The start code calls main and exits, on Windows it returns.             *)
StartSize ==
  IF Arm64 THEN (IF Windows THEN 8 ELSE 16) ELSE (IF Windows THEN 11 ELSE 17)

EmitStart ==
  /\ phase = "loading" /\ loader = "done"
  /\ phase' = "functions"
  /\ text' = StartSize
  /\ entryCall' = [from |-> IF Arm64 THEN 0 ELSE 5, word |-> 0]
  /\ symbols' = <<[name |-> "_start", offset |-> 0, size |-> text']>>
  /\ UNCHANGED <<loaderVars, target, emitting, statements, addresses, cstring, mainAddress,
                 calls, callPatches, strings, image>>

(* Of several functions main the last one is the entry point.              *)
BeginFunction ==
  /\ phase = "functions" /\ emitting < Len(declarations)
  /\ phase' = "body"
  /\ emitting' = emitting + 1
  /\ statements' = declarations[emitting'].body
  /\ addresses' = Append(addresses, text)
  /\ mainAddress' = IF declarations[emitting'].name = "main" THEN text ELSE mainAddress
  /\ text' = IF Arm64 THEN text + 4 ELSE text
  /\ UNCHANGED <<loaderVars, target, cstring, entryCall, calls, callPatches, strings,
                 symbols, image>>

Emitting(kind) == phase = "body" /\ statements # <<>> /\ Head(statements).kind = kind

EmitCode ==
  /\ Emitting("code")
  /\ text' = text + (IF Arm64 THEN 4 ELSE 1) * Head(statements).size
  /\ statements' = Tail(statements)
  /\ UNCHANGED <<loaderVars, target, phase, emitting, addresses, cstring, entryCall,
                 mainAddress, calls, callPatches, strings, symbols, image>>

(* The sites of calls: where the processor and the patches count from.     *)
CallFrom == IF Arm64 THEN text ELSE text + 5
CallEnd == IF Arm64 THEN text + 4 ELSE text + 5

NewPatch(sites) == Len(sites)

CallWithFrom(known, from) ==
  /\ Emitting("call")
  /\ Head(statements).name \notin Builtins
  /\ IsDeclared(Head(statements).name)
  /\ LET decl == Declaration(Head(statements).name)
     IN  /\ (decl <= Len(addresses)) = known
         /\ calls' = Append(calls, [decl |-> decl, from |-> CallFrom,
              word |-> IF known THEN Displacement(addresses[decl] - from) ELSE 0])
         /\ callPatches' = IF known THEN callPatches ELSE Append(callPatches, NewPatch(calls'))
  /\ text' = CallEnd
  /\ statements' = Tail(statements)
  /\ UNCHANGED <<loaderVars, target, phase, emitting, addresses, cstring, entryCall,
                 mainAddress, strings, symbols, image>>

EmitCallFromWord == CallWithFrom(TRUE, CallEnd - 4) \* mutant: the word's own place
(* A call of a function that has an address: this one or an earlier one.   *)
EmitCall == CallWithFrom(TRUE, CallFrom)
(* A call of a later function is patched when all have been emitted.       *)
EmitForwardCall == CallWithFrom(FALSE, CallFrom)

(* exit and write, declared like all functions, are system calls, of which *)
(* there are none for Windows.                                             *)
EmitBuiltin ==
  /\ Emitting("call")
  /\ Head(statements).name \in Builtins
  /\ IsDeclared(Head(statements).name)
  /\ text' = IF Windows THEN text ELSE text + 12
  /\ statements' = Tail(statements)
  /\ UNCHANGED <<loaderVars, target, phase, emitting, addresses, cstring, entryCall,
                 mainAddress, calls, callPatches, strings, symbols, image>>

(* The type checker reports the call but does not stop for it: it leaves   *)
(* the call without a type, and its own assertion on what it has checked   *)
(* (type_checking.c:538) fails before the emitter meets assert(expr->decl).*)
(* No program with such a call is written, at whichever of the two it ends.*)
AbortOnUndeclared ==
  /\ Emitting("call")
  /\ ~IsDeclared(Head(statements).name)
  /\ phase' = "aborted"
  /\ UNCHANGED <<loaderVars, target, emitting, statements, addresses, text, cstring, entryCall,
                 mainAddress, calls, callPatches, strings, symbols, image>>

(* A string literal: a move of the count, then an instruction (or two)     *)
(* that computes the address.                                              *)
EmitString ==
  /\ Emitting("string")
  /\ strings' = Append(strings, [from |-> IF Arm64 THEN text + 4 ELSE text + 12,
                                 offset |-> cstring, count |-> Head(statements).count,
                                 word |-> <<>>])
  /\ cstring' = cstring + Head(statements).count
  /\ text' = text + 12
  /\ statements' = Tail(statements)
  /\ UNCHANGED <<loaderVars, target, phase, emitting, addresses, entryCall, mainAddress, calls,
                 callPatches, symbols, image>>

EndWithSymbol(offset) ==
  /\ phase = "body" /\ statements = <<>>
  /\ phase' = "functions"
  /\ text' = IF declarations[emitting].returns THEN text ELSE IF Arm64 THEN text + 8 ELSE text + 1
  /\ symbols' = Append(symbols, [name |-> declarations[emitting].name, offset |-> offset,
                                 size |-> text' - offset])
  /\ UNCHANGED <<loaderVars, target, emitting, statements, addresses, cstring, entryCall,
                 mainAddress, calls, callPatches, strings, image>>

EndFunctionLate == EndWithSymbol(text) \* mutant: the offset is taken after the emission
(* Only a function without return type ends by itself.                     *)
EndFunction == EndWithSymbol(addresses[emitting])

(* When all functions have an address.  Without a main there is only a     *)
(* message, and the start code calls whatever its word says.               *)
PatchCalls ==
  /\ phase = "functions" /\ emitting = Len(declarations)
  /\ phase' = "layout"
  /\ entryCall' = IF mainAddress > 0
                  THEN [entryCall EXCEPT !.word = Displacement(mainAddress - entryCall.from)]
                  ELSE entryCall
  /\ calls' = [i \in 1 .. Len(calls) |->
                 IF Contains(callPatches, i)
                 THEN [calls[i] EXCEPT
                         !.word = Displacement(addresses[calls[i].decl] - calls[i].from)]
                 ELSE calls[i]]
  /\ UNCHANGED <<loaderVars, target, emitting, statements, addresses, text, cstring,
                 mainAddress, callPatches, strings, symbols, image>>

-----------------------------------------------------------------------------
(* The file.                                                               *)

AlignUp(n, alignment) == ((n + alignment - 1) \div alignment) * alignment

ElfHeaders == 64 + 2 * 56
ElfPage == 4096
ElfBase == 2097152

(* The text is mapped on the pages behind the first segment, as far into   *)
(* its page as it is in the file.                                          *)
ElfTextAddressAtPage(textAt) == AlignUp(ElfBase + textAt, ElfPage) \* mutant: at their start
ElfTextAddress(textAt) == AlignUp(ElfBase + textAt, ElfPage) + textAt

(* After an empty entry, every symbol is in the section with header 2.     *)
ElfTable(textAddress) ==
  <<[address |-> 0, section |-> 0]>> \o
  [i \in 1 .. Len(symbols) |-> [address |-> textAddress + symbols[i].offset, section |-> 2]]

(* What the section headers tell, but for the first, empty one.  Three     *)
(* sections are not mapped: .shstrtab, .strtab with an empty name and      *)
(* those of the symbols, and .symtab.                                      *)
ElfSections(textAt, textAddress) ==
  LET shstrtab == [address |-> 0, offset |-> textAt + text, size |-> 41]
      strtab == [address |-> 0, offset |-> shstrtab.offset + shstrtab.size,
                 size |-> 1 + Len(symbols) * (NameSize + 1)]
  IN  <<[address |-> ElfBase + ElfHeaders, offset |-> ElfHeaders, size |-> textAt - ElfHeaders],
        [address |-> textAddress, offset |-> textAt, size |-> text],
        shstrtab, strtab,
        [address |-> 0, offset |-> strtab.offset + strtab.size,
         size |-> 24 * (Len(symbols) + 1)]>>

(* Headers and strings are the first segment, the text the second.         *)
ElfImage ==
  LET textAt == AlignUp(ElfHeaders + cstring, 4)
  IN  [cstringAt |-> ElfHeaders, textAt |-> textAt, page |-> ElfPage,
       cstringAddress |-> ElfBase + ElfHeaders, textAddress |-> ElfTextAddress(textAt),
       entry |-> ElfTextAddress(textAt),
       table |-> ElfTable(ElfTextAddress(textAt)),
       sections |-> ElfSections(textAt, ElfTextAddress(textAt)),
       segments |-> {[address |-> ElfBase, offset |-> 0, size |-> textAt],
                     [address |-> ElfTextAddress(textAt), offset |-> textAt, size |-> text]}]

MachOHeaders == 624
MachOPage == IF Arm64 THEN 16384 ELSE 4096

(* After __mh_execute_header, every symbol is in the first section.        *)
MachOTable(textAddress) ==
  <<[address |-> VmBase, section |-> 1]>> \o
  [i \in 1 .. Len(symbols) |-> [address |-> textAddress + symbols[i].offset, section |-> 1]]

(* The segment __LINKEDIT: the symbol table and its names, after an empty  *)
(* one and __mh_execute_header.                                            *)
MachOLinkEdit(offset) ==
  [address |-> VmBase + offset, offset |-> offset,
   size |-> 16 * (Len(symbols) + 1) + 21 + Len(symbols) * (NameSize + 1)]

(* One segment for the load commands, the text and the strings, filled up  *)
(* between commands and text so that it ends with a page.                  *)
MachOImage ==
  LET sections == AlignUp(text, 4) + AlignUp(cstring, 4)
      textAt == AlignUp(MachOHeaders + sections, MachOPage) - sections
      cstringAt == textAt + sections - cstring
  IN  [cstringAt |-> cstringAt, textAt |-> textAt, page |-> MachOPage,
       cstringAddress |-> VmBase + cstringAt, textAddress |-> VmBase + textAt,
       entry |-> VmBase + textAt,
       table |-> MachOTable(VmBase + textAt),
       sections |-> <<[address |-> VmBase + textAt, offset |-> textAt, size |-> text],
                      [address |-> VmBase + cstringAt, offset |-> cstringAt, size |-> cstring]>>,
       segments |-> {[address |-> VmBase, offset |-> 0, size |-> cstringAt + cstring],
                     MachOLinkEdit(cstringAt + cstring)}]

PeHeaders == 64 + 24 + 240
PeSectionHeader == 40
PeFileAlignment == 512
PePage == 4096
PeBase == 4194304

(* Every section on pages of its own behind the pages of the one before,   *)
(* in the file at the next multiple of 512.                                *)
PeImage ==
  LET InFile(size) == AlignUp(size, PeFileAlignment)
      headers == InFile(PeHeaders + PeSectionHeader * (IF cstring > 0 THEN 2 ELSE 1))
      textAddress == PeBase + AlignUp(headers, PePage)
      cstringAt == headers + InFile(text)
      cstringAddress == AlignUp(textAddress + InFile(text), PePage)
  IN  [cstringAt |-> cstringAt, textAt |-> headers, page |-> PePage,
       cstringAddress |-> cstringAddress, textAddress |-> textAddress,
       entry |-> textAddress,
       end |-> AlignUp(cstringAddress + InFile(cstring), PePage),
       segments |-> {[address |-> PeBase, offset |-> 0, size |-> headers],
                     [address |-> textAddress, offset |-> headers, size |-> InFile(text)]}
                    \cup (IF cstring = 0 THEN {} ELSE
                          {[address |-> cstringAddress, offset |-> cstringAt,
                            size |-> InFile(cstring)]})]

Platforms == [linux |-> ElfImage, macos |-> MachOImage, windows |-> PeImage]

StringAddressOfFirst(file, string) == file.cstringAddress \* mutant: without the offset
StringAddress(file, string) == file.cstringAddress + string.offset

(* generate_pe leaves the patches alone.                                   *)
LayOut ==
  /\ phase = "layout"
  /\ phase' = "done"
  /\ image' = Platforms[target.platform]
  /\ strings' = IF Windows THEN strings ELSE
                [i \in 1 .. Len(strings) |->
                   [strings[i] EXCEPT !.word = StringWord(StringAddress(image', strings[i]),
                                                          image'.textAddress + strings[i].from)]]
  /\ UNCHANGED <<loaderVars, target, emitting, statements, addresses, text, cstring, entryCall,
                 mainAddress, calls, callPatches, symbols>>

Next ==
  \/ LoadSources
  \/ EmitStart
  \/ BeginFunction
  \/ EmitCode
  \/ EmitCall
  \/ EmitForwardCall
  \/ EmitBuiltin
  \/ AbortOnUndeclared
  \/ EmitString
  \/ EndFunction
  \/ PatchCalls
  \/ LayOut

Spec == Init /\ [][Next]_vars
FairSpec == Spec /\ WF_vars(Next)

-----------------------------------------------------------------------------

(* Once patched, every call jumps to the first instruction of the function *)
(* that find_function_declaration_by_name finds for it, be it an earlier   *)
(* one, a later one or its own, and the start code jumps to a main.        *)
CallsReachTheirFunction ==
  phase \in {"layout", "done"} =>
    /\ \A i \in 1 .. Len(calls) :
         LET name == declarations[calls[i].decl].name
         IN  /\ calls[i].decl = Declaration(name)
             /\ \E k \in 1 .. Len(symbols) :
                  symbols[k].name = name /\ symbols[k].offset = CallTarget(calls[i])
             /\ CallTarget(calls[i]) = addresses[calls[i].decl]
    /\ IsDeclared("main") =>
         \E k \in 2 .. Len(symbols) :
           symbols[k].name = "main" /\ symbols[k].offset = CallTarget(entryCall)

(* Where in the file the byte at an address is mapped from.                *)
Maps(segment, address) ==
  address >= segment.address /\ address < segment.address + segment.size
FileOffsets(address) ==
  {s.offset + address - s.address : s \in {x \in image.segments : Maps(x, address)}}

(* The symbols, _start first, cover the text without gaps or overlaps: the *)
(* table tells of every instruction which function it belongs to.  So does *)
(* the one in the file: the address of a symbol is mapped from the first   *)
(* instruction of its function, all of which is in the symbol's section.   *)
(* (Files for Windows have no table.)                                      *)
SymbolsCoverTheText ==
  phase \in {"layout", "done"} =>
    /\ [i \in 1 .. Len(symbols) |-> symbols[i].name] =
         <<"_start">> \o [i \in 1 .. Len(declarations) |-> declarations[i].name]
    /\ \A i \in 1 .. Len(symbols) :
         symbols[i].offset + symbols[i].size =
           IF i < Len(symbols) THEN symbols[i + 1].offset ELSE text
    /\ phase = "done" /\ ~Windows =>
         \A i \in {k \in 1 .. Len(symbols) : symbols[k].size > 0} :
           LET entry == image.table[i + 1]
               section == image.sections[entry.section]
           IN  /\ FileOffsets(entry.address) = {image.textAt + symbols[i].offset}
               /\ Maps(section, entry.address)
               /\ Maps(section, entry.address + symbols[i].size - 1)

(* The address that the code computes for a string literal is mapped, once *)
(* only, from the literal's own bytes in the file: the layout of the file, *)
(* the addresses of the segments and the patches agree.  (Files for        *)
(* Windows are left out: there the code has no addresses yet.)             *)
StringsAreFound ==
  phase = "done" /\ ~Windows =>
    \A i \in 1 .. Len(strings) :
      \A k \in 0 .. strings[i].count - 1 :
        FileOffsets(StringTarget(strings[i].word, image.textAddress + strings[i].from) + k)
          = {image.cstringAt + strings[i].offset + k}

(* What the loaders of the systems ask of a file: a segment lies in its    *)
(* page where it lies in the file's, or on Windows at the start of a page, *)
(* right behind those of the segment before, and in the image; no two      *)
(* segments share a page; the entry point is the start code, which on      *)
(* arm64 is aligned; and the sections are where the segments say.          *)
SegmentsCanBeMapped ==
  phase = "done" =>
    /\ IF ~Windows
       THEN \A s \in image.segments : s.address % image.page = s.offset % image.page
       ELSE \A s \in image.segments :
              LET next == AlignUp(s.address + s.size, image.page)
              IN  /\ s.address % image.page = 0 /\ s.offset % PeFileAlignment = 0
                  /\ next = image.end \/ \E t \in image.segments : t.address = next
    /\ \A s, t \in image.segments :
         s.address < t.address =>
           (s.address + s.size - 1) \div image.page < t.address \div image.page
    /\ FileOffsets(image.entry) = {image.textAt}
    /\ Arm64 => image.textAddress % 4 = 0
    /\ ~Windows =>
         \A i \in {k \in 1 .. 2 : image.sections[k].size > 0} :
           LET section == image.sections[i]
           IN  \A k \in {0, section.size - 1} :
                 FileOffsets(section.address + k) = {section.offset + k}

(* Whatever files ask for each other, the compiler comes to an end.        *)
Terminates == <>(phase \in {"done", "aborted", "done without output"})
=============================================================================
