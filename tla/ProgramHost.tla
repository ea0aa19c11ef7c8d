---------------------------- MODULE ProgramHost ----------------------------
(***************************************************************************)
(* The program kept alive across recompilations, and what the compiler     *)
(* plugins do to each file (packages/transform-core: program, transformer, *)
(* shared).  A bundler hands files over one at a time, with the content it *)
(* has of them, while they are edited on the disk.  The compiler's         *)
(* language service reuses its program while the roots and the version of  *)
(* every file are what it was built with, and reads a file again when its  *)
(* version changed.  The analyzers read a file as it was written, the      *)
(* calls and statements of the package are rewritten, and what was refused *)
(* on the way is thrown once the whole file was walked.                    *)
(***************************************************************************)
EXTENDS Integers, SequencesExt, FiniteSetTheorems, TLAPS

CONSTANTS
  rewriters,        \* the functions of the package, as calls have to resolve to them
  unwritten,        \* what stands for no target, no package, no answer and no file
  Files, Ignored,   \* the files, and those of no handled extension or of node_modules
  Listed,           \* the files the tsconfig lists
  imports,          \* the files each file imports
  Contents,         \* what a file may hold
  treeOf(_),        \* its code
  Nodes,            \* every node there is in it, or comes to be in it
  refusals(_),      \* the places that are to be refused in it
  mentions(_),      \* whether it names a function of the package
  Spellings,        \* the ways a bundler spells a path
  Disks,            \* the disks to start with
  MaxSteps          \* bounds the edits and the files handed over

nothing == unwritten

VARIABLES
  disk,             \* the content of each file, or nothing
  overlays, versions, rootNames,   \* of the host
  program,          \* of the language service
  builds,           \* how many programs it built
  last,             \* the last file that was transformed
  edited, ahead,    \* whether a file was edited, or handed over as it is not on the disk
  steps

vars == <<disk, overlays, versions, rootNames, program, builds, last, edited, ahead, steps>>

-----------------------------------------------------------------------------
(* Code: a call, a block of statements, a statement that a statement       *)
(* rewriter knows, a misuse only an analyzer sees, or anything else.        *)

\* answer: what the rewriter that owns the call makes of it.
Call(named, answer, at, children) ==
  [kind |-> "call", named |-> named, answer |-> answer, at |-> at, children |-> children]
Node(kind, at, children) == [kind |-> kind, at |-> at, children |-> children]

\* What a name resolves to, and what is looked for.
Target(functionName, callForm, module, package) ==
  [functionName |-> functionName, callForm |-> callForm, module |-> module, package |-> package]

isOwnedCall(named, rewriter) ==
  /\ named.callForm = rewriter.callForm
  /\ named.functionName = rewriter.functionName
  /\ named.module = rewriter.module
  /\ rewriter.package = unwritten \/ named.package = rewriter.package

-----------------------------------------------------------------------------

\* What became of a node, and the places refused in it.
Became(node, refused) == [node |-> node, refused |-> refused]

\* A declaration that does not outlive its block becomes two statements.
rewriteStatement(statement) ==
  IF statement.kind = "escaping" THEN <<Node("frame", statement.at, <<>>), [statement EXCEPT !.kind = "kept"]>>
  ELSE <<statement>>

visitBlock(block) ==
  [block EXCEPT !.children =
     FlattenSeq([i \in DOMAIN block.children |-> rewriteStatement(block.children[i])])]

\* What became of each child makes the node.
visitEachChild(node, visited) ==
  Became([node EXCEPT !.children = [i \in DOMAIN visited |-> visited[i].node]],
         FoldLeft(LAMBDA all, each : all \o each.refused, <<>>, visited))

\* A call is replaced, kept with its arguments visited and a description added,
\* refused, or left alone.
rewriteCall(call, visited) ==
  LET owned == \E rewriter \in rewriters : isOwnedCall(call.named, rewriter)
      described == Became([visited.node EXCEPT !.children = Append(@, Node("description", call.at, <<>>)),
                                               !.answer = "leave"], visited.refused)
  IN CASE ~owned \/ call.answer = "leave" -> visited
       [] owned /\ call.answer = "replace" -> Became(Node("literal", call.at, <<>>), <<>>)
       [] owned /\ call.answer = "describe" -> described
       [] owned /\ call.answer = "refuse" -> Became(visited.node, <<call.at>> \o visited.refused)

visit[node \in Nodes] ==
  LET entered == IF node.kind = "block" THEN visitBlock(node) ELSE node
      visited == visitEachChild(entered, [i \in DOMAIN entered.children |-> visit[entered.children[i]]])
  IN IF node.kind = "call" THEN rewriteCall(node, visited) ELSE visited

\* The analyzers walk the file as it was written.
Misused[node \in Nodes] ==
  (IF node.kind = "misuse" THEN <<node.at>> ELSE <<>>)
  \o FoldLeft(LAMBDA all, misused : all \o misused, <<>>,
              [i \in DOMAIN node.children |-> Misused[node.children[i]]])

Refused(sourceFile) == Misused[sourceFile] \o visit[sourceFile].refused

\* Thrown only after the whole file is walked; what nothing changed is not printed.
transformFile(sourceFile) ==
  IF Refused(sourceFile) # <<>> THEN [outcome |-> "thrown", report |-> ToSet(Refused(sourceFile))]
  ELSE [outcome |-> IF visit[sourceFile].node = sourceFile THEN "unchanged" ELSE "printed", report |-> {}]

-----------------------------------------------------------------------------
(* Paths.                                                                  *)

fileNameOf(id) == [id EXCEPT !.query = FALSE]

toCompilerPath(id) == [id EXCEPT !.spelling = "compiler"]

Compiled(file) == [file |-> file, spelling |-> "compiler", query |-> FALSE]

Init ==
  /\ disk \in Disks
  /\ overlays = <<>> /\ versions = <<>>
  /\ rootNames = {Compiled(file) : file \in Listed}
  /\ program = nothing /\ builds = 0
  /\ last = nothing /\ edited = FALSE /\ ahead = FALSE /\ steps = 0

-----------------------------------------------------------------------------
(* The host.                                                               *)

\* A map with a value set.
With(map, name, value) ==
  [each \in DOMAIN map \cup {name} |-> IF each = name THEN value ELSE map[each]]

getScriptVersion(name, known) == IF name \in DOMAIN known THEN known[name] ELSE 0

getScriptSnapshot(name, held) ==
  IF name \in DOMAIN held THEN held[name] ELSE disk[name.file]

matchesDisk(name, content) == disk[name.file] # nothing /\ disk[name.file] = content

\* On a cold run a file is handed over as it is on the disk.
IsChange(name, content) ==
  IF name \in DOMAIN overlays THEN overlays[name] # content
  ELSE ~(name \in rootNames /\ matchesDisk(name, content))

\* Mutant: the content is recorded, its version is not.
SameVersion(name) == versions

Bumped(name) == With(versions, name, getScriptVersion(name, versions) + 1)

\* What the host knows once a file was handed over.
update(name, content) ==
  IF ~IsChange(name, content)
  THEN [overlays |-> overlays, versions |-> versions, rootNames |-> rootNames]
  ELSE [overlays |-> With(overlays, name, content), versions |-> Bumped(name),
        rootNames |-> rootNames \cup {name}]

-----------------------------------------------------------------------------
(* The language service.                                                   *)

IsUpToDate(host) ==
  /\ program # nothing
  /\ program.rootNames = host.rootNames
  /\ \A name \in DOMAIN program.files :
       program.files[name].version = getScriptVersion(name, host.versions)

SourceFile(name, host) ==
  LET version == getScriptVersion(name, host.versions) IN
  IF program # nothing /\ name \in DOMAIN program.files /\ program.files[name].version = version
  THEN program.files[name]
  ELSE [version |-> version, content |-> getScriptSnapshot(name, host.overlays)]

getProgram(host) ==
  IF IsUpToDate(host) THEN program
  ELSE LET imported == {Compiled(file) : file \in UNION {imports[name.file] : name \in host.rootNames}}
           names == {name \in host.rootNames \cup imported :
                       getScriptSnapshot(name, host.overlays) # nothing}
       IN [rootNames |-> host.rootNames, files |-> [name \in names |-> SourceFile(name, host)]]

-----------------------------------------------------------------------------

handles(id) == fileNameOf(id).file \notin Ignored

\* A bundler hands a file over, with what is on the disk or what is ahead of it.
transform(id, code) ==
  /\ steps < MaxSteps
  /\ steps' = steps + 1
  /\ ahead' = (ahead \/ disk[id.file] # code)
  /\ UNCHANGED <<disk, edited>>
  /\ IF ~handles(id) \/ ~mentions(code)
     THEN UNCHANGED <<overlays, versions, rootNames, program, builds, last>>
     ELSE LET name == toCompilerPath(fileNameOf(id))
              host == update(name, code)
              built == getProgram(host)
              seen == built.files[name].content
          IN /\ overlays' = host.overlays /\ versions' = host.versions
             /\ rootNames' = host.rootNames
             /\ program' = built
             /\ builds' = builds + (IF IsUpToDate(host) THEN 0 ELSE 1)
             /\ last' = [name |-> name, code |-> code, seen |-> seen,
                         result |-> transformFile(treeOf(seen))]

edit(file, content) ==
  /\ steps < MaxSteps
  /\ disk[file] # content
  /\ disk' = [disk EXCEPT ![file] = content]
  /\ edited' = (edited \/ program # nothing)
  /\ steps' = steps + 1
  /\ UNCHANGED <<overlays, versions, rootNames, program, builds, last, ahead>>

Ids == [file : Files, spelling : Spellings, query : BOOLEAN]

Next ==
  \/ \E id \in Ids, code \in Contents \ {nothing} : transform(id, code)
  \/ \E file \in Files, content \in Contents \ {nothing} : edit(file, content)

Spec == Init /\ [][Next]_vars

-----------------------------------------------------------------------------

\* The program holds the content last handed over of every file that was ever
\* recorded as changed, and what is transformed is what was handed over, unless
\* the file was as it is on the disk and the disk was edited since: there `update`
\* sees no change (:122), which TransformsTheCurrentContent is about.
TransformsWhatItIsGiven ==
  /\ program # nothing => \A name \in DOMAIN overlays :
       name \in DOMAIN program.files /\ program.files[name].content = overlays[name]
  /\ last # nothing => \/ last.seen = last.code
                       \/ edited /\ last.name \notin DOMAIN overlays

\* While files are handed over as they are on the disk, the program is built
\* once, and once more for each file the tsconfig does not list.
ColdRunBuildsOnce ==
  ~edited /\ ~ahead
    => builds <= 1 + Cardinality(DOMAIN overlays)
       /\ DOMAIN overlays \subseteq {Compiled(file) : file \in Files \ Listed}

\* What is refused anywhere in a file is in the one report, and nothing else is.
ReportsEveryRefusal ==
  last # nothing =>
    /\ last.result.report = refusals(last.seen)
    /\ last.result.outcome = "thrown" <=> refusals(last.seen) # {}

\* What is transformed is the current content of the file.
TransformsTheCurrentContent == last # nothing => last.seen = last.code

-----------------------------------------------------------------------------
(* For any files, imports and contents, however they are edited and handed *)
(* over.                                                                   *)

Names == [file : Files, spelling : {"compiler"}, query : {FALSE}]

SourceFiles == [version : Nat, content : Contents \ {nothing}]

IsProgram(built) ==
  \E names \in SUBSET Names : built \in [rootNames : SUBSET Names, files : [names -> SourceFiles]]

\* What a tsconfig lists is on the disk.
HostAssumption ==
  /\ Listed \subseteq Files
  /\ imports \in [Files -> SUBSET Files]
  /\ Disks \subseteq [Files -> Contents \cup {nothing}]
  /\ \A found \in Disks, file \in Listed : found[file] # nothing
  /\ ~IsProgram(nothing)

TypeOK ==
  /\ disk \in [Files -> Contents \cup {nothing}]
  /\ \A name \in DOMAIN overlays : overlays[name] \in Contents \ {nothing}
  /\ DOMAIN versions = DOMAIN overlays
  /\ \A name \in DOMAIN versions : versions[name] \in Nat
  /\ rootNames \subseteq Names
  /\ program = nothing \/ IsProgram(program)
  /\ builds \in Nat
  /\ edited \in BOOLEAN /\ ahead \in BOOLEAN

\* The roots are what is listed, which stays on the disk, and what was recorded.
RootsAreKnown ==
  /\ DOMAIN overlays \subseteq rootNames
  /\ \A file \in Listed : Compiled(file) \in rootNames /\ disk[file] # nothing
  /\ \A name \in rootNames : name \in DOMAIN overlays \/ name.file \in Listed

\* Between two calls the program is up to date: of each of its files it holds what
\* was recorded, and of the others what was on the disk.
ProgramIsCurrent ==
  program # nothing =>
    /\ program.rootNames = rootNames /\ rootNames \subseteq DOMAIN program.files
    /\ \A name \in DOMAIN program.files :
         /\ program.files[name].version = getScriptVersion(name, versions)
         /\ name \in DOMAIN overlays => program.files[name].content = overlays[name]
         /\ name \notin DOMAIN overlays /\ ~edited => program.files[name].content = disk[name.file]

\* What was recorded on a cold run is a file the tsconfig does not list, as it is on
\* the disk.
RecordedOnce ==
  /\ IsFiniteSet(DOMAIN overlays)
  /\ program = nothing => builds = 0 /\ DOMAIN overlays = {}
  /\ ~edited /\ ~ahead =>
       /\ builds <= 1 + Cardinality(DOMAIN overlays)
       /\ \A name \in DOMAIN overlays : overlays[name] = disk[name.file] /\ name.file \notin Listed

LastWasGiven ==
  last # nothing => \/ last.seen = last.code
                    \/ edited /\ last.name \notin DOMAIN overlays

HostInv == TypeOK /\ RootsAreKnown /\ ProgramIsCurrent /\ RecordedOnce /\ LastWasGiven

\* A bundler's path and the compiler's are of one file.
LEMMA NameOfPath ==
  ASSUME NEW id \in Ids
  PROVE  toCompilerPath(fileNameOf(id)) \in Names /\ toCompilerPath(fileNameOf(id)).file = id.file
BY DEF Ids, Names, toCompilerPath, fileNameOf

LEMMA OneNameEach ==
  /\ \A file \in Files : Compiled(file) \in Names /\ Compiled(file).file = file
  /\ \A name \in Names : name = Compiled(name.file) /\ name.file \in Files
<1>1. \A file \in Files : Compiled(file) \in Names /\ Compiled(file).file = file
  BY DEF Names, Compiled
<1>2. ASSUME NEW name \in Names
      PROVE  name = Compiled(name.file) /\ name.file \in Files
  <2>1. name.file \in Files /\ name.spelling = "compiler" /\ name.query = FALSE
    BY DEF Names
  <2>2. name = [file |-> name.file, spelling |-> name.spelling, query |-> name.query]
    BY DEF Names
  <2> QED BY <2>1, <2>2 DEF Compiled
<1> QED BY <1>1, <1>2

LEMMA StartsHeld == ASSUME HostAssumption, Init PROVE HostInv
<1>1. DOMAIN overlays = {} /\ DOMAIN versions = {}
  BY DEF Init
<1>2. program = nothing /\ builds = 0 /\ last = nothing /\ edited = FALSE /\ ahead = FALSE
  BY DEF Init
<1>3. /\ disk \in [Files -> Contents \cup {nothing}]
      /\ \A file \in Listed : disk[file] # nothing /\ file \in Files
      /\ rootNames = {Compiled(file) : file \in Listed}
  BY DEF Init, HostAssumption
<1>4. TypeOK
  BY <1>1, <1>2, <1>3, OneNameEach DEF TypeOK
<1>5. RootsAreKnown
  BY <1>1, <1>3, OneNameEach DEF RootsAreKnown
<1>6. IsFiniteSet(DOMAIN overlays) /\ Cardinality(DOMAIN overlays) = 0
  BY <1>1, FS_EmptySet
<1>7. ProgramIsCurrent /\ RecordedOnce /\ LastWasGiven
  BY <1>1, <1>2, <1>6 DEF ProgramIsCurrent, RecordedOnce, LastWasGiven
<1> QED BY <1>4, <1>5, <1>7 DEF HostInv

\* A file that is edited was there before or comes to be; what the program held of
\* it is as it was.
LEMMA EditHolds ==
  ASSUME HostAssumption, HostInv, NEW file \in Files, NEW content \in Contents \ {nothing},
         edit(file, content)
  PROVE  HostInv'
<1>1. /\ disk' = [disk EXCEPT ![file] = content]
      /\ edited' = (edited \/ program # nothing)
      /\ UNCHANGED <<overlays, versions, rootNames, program, builds, last, ahead>>
  BY DEF edit
<1>2. \A other \in Files : disk'[other] = IF other = file THEN content ELSE disk[other]
  BY <1>1 DEF HostInv, TypeOK
<1>3. TypeOK'
  BY <1>1 DEF HostInv, TypeOK
<1>4. RootsAreKnown'
  BY <1>1, <1>2 DEF HostInv, RootsAreKnown, HostAssumption
<1>5. ProgramIsCurrent'
  BY <1>1 DEF HostInv, ProgramIsCurrent, getScriptVersion
<1>6. RecordedOnce'
  BY <1>1 DEF HostInv, RecordedOnce
<1>7. LastWasGiven'
  BY <1>1 DEF HostInv, LastWasGiven
<1> QED BY <1>3, <1>4, <1>5, <1>6, <1>7 DEF HostInv

\* What the language service builds is up to date with the host it is given, when
\* what it reuses is.
LEMMA BuiltIsCurrent ==
  ASSUME HostAssumption, TypeOK, NEW held, NEW known, NEW roots \in SUBSET Names,
         DOMAIN held \subseteq roots,
         \A name \in DOMAIN held : held[name] \in Contents \ {nothing},
         DOMAIN known = DOMAIN held,
         \A name \in DOMAIN known : known[name] \in Nat,
         \A name \in roots : getScriptSnapshot(name, held) # nothing,
         program # nothing =>
           \A name \in DOMAIN program.files :
             program.files[name].version = getScriptVersion(name, known) =>
               /\ name \in DOMAIN held => program.files[name].content = held[name]
               /\ name \notin DOMAIN held /\ ~edited => program.files[name].content = disk[name.file],
         ~IsUpToDate([overlays |-> held, versions |-> known, rootNames |-> roots]),
         NEW built,
         built = getProgram([overlays |-> held, versions |-> known, rootNames |-> roots])
  PROVE  /\ IsProgram(built)
         /\ built.rootNames = roots /\ roots \subseteq DOMAIN built.files
         /\ \A name \in DOMAIN built.files :
              /\ built.files[name].version = getScriptVersion(name, known)
              /\ name \in DOMAIN held => built.files[name].content = held[name]
              /\ name \notin DOMAIN held /\ (~edited \/ program = nothing)
                   => built.files[name].content = disk[name.file]
<1> DEFINE host == [overlays |-> held, versions |-> known, rootNames |-> roots]
           imported == {Compiled(file) : file \in UNION {imports[name.file] : name \in roots}}
           names == {name \in roots \cup imported : getScriptSnapshot(name, held) # nothing}
           files == [name \in names |-> SourceFile(name, host)]
<1>1. host.overlays = held /\ host.versions = known /\ host.rootNames = roots
  OBVIOUS
<1>2. built = [rootNames |-> roots, files |-> files]
  BY <1>1 DEF getProgram
<1>3. names \in SUBSET Names
  <2>1. \A name \in roots : imports[name.file] \subseteq Files
    BY OneNameEach DEF HostAssumption
  <2>2. imported \subseteq Names
    BY <2>1, OneNameEach
  <2> QED BY <2>2
<1>4. ASSUME NEW name \in names
      PROVE  /\ SourceFile(name, host) \in SourceFiles
             /\ SourceFile(name, host).version = getScriptVersion(name, known)
             /\ name \in DOMAIN held => SourceFile(name, host).content = held[name]
             /\ name \notin DOMAIN held /\ (~edited \/ program = nothing)
                  => SourceFile(name, host).content = disk[name.file]
  <2> DEFINE version == getScriptVersion(name, known)
             snapshot == getScriptSnapshot(name, held)
             reused == /\ program # nothing /\ name \in DOMAIN program.files
                       /\ program.files[name].version = version
  <2>1. SourceFile(name, host) =
          IF reused THEN program.files[name] ELSE [version |-> version, content |-> snapshot]
    BY <1>1 DEF SourceFile
  <2>2. version \in Nat
    BY DEF getScriptVersion
  <2>3. name.file \in Files /\ name \in Names
    BY <1>3, OneNameEach
  <2>4. /\ snapshot \in Contents \ {nothing}
        /\ snapshot = IF name \in DOMAIN held THEN held[name] ELSE disk[name.file]
    BY <2>3 DEF getScriptSnapshot, TypeOK
  <2>5. CASE reused
    <3>1. program.files[name] \in SourceFiles
      BY <2>5 DEF TypeOK, IsProgram
    <3> QED BY <2>1, <2>5, <3>1
  <2>6. CASE ~reused
    <3>1. [version |-> version, content |-> snapshot] \in SourceFiles
      BY <2>2, <2>4 DEF SourceFiles
    <3> QED BY <2>1, <2>4, <2>6, <3>1
  <2> QED BY <2>5, <2>6
<1> HIDE DEF names, host
<1>5. files \in [names -> SourceFiles] /\ DOMAIN files = names
  BY <1>4
<1>6. IsProgram(built)
  BY <1>2, <1>3, <1>5 DEF IsProgram
<1>7. roots \subseteq names
  BY DEF names
<1>8. built.rootNames = roots /\ built.files = files
  BY <1>2
<1>9. \A name \in names : files[name] = SourceFile(name, host)
  OBVIOUS
<1> HIDE DEF files
<1> QED BY <1>4, <1>5, <1>6, <1>7, <1>8, <1>9

\* What a file that is handed over changes: its content is recorded and its version
\* is new, so that the program is built again; or it was known, and the program
\* there is stays.
LEMMA HandedOver ==
  ASSUME HostAssumption, HostInv, NEW name \in Names, NEW code \in Contents \ {nothing},
         NEW held, NEW known, NEW roots,
         IF IsChange(name, code)
         THEN /\ held = With(overlays, name, code) /\ known = Bumped(name)
              /\ roots = rootNames \cup {name}
         ELSE held = overlays /\ known = versions /\ roots = rootNames,
         NEW built,
         built = getProgram([overlays |-> held, versions |-> known, rootNames |-> roots]),
         overlays' = held, versions' = known, rootNames' = roots, program' = built,
         UNCHANGED <<disk, edited>>,
         builds' = builds + (IF IsUpToDate([overlays |-> held, versions |-> known, rootNames |-> roots])
                             THEN 0 ELSE 1),
         ahead' = (ahead \/ disk[name.file] # code)
  PROVE  /\ TypeOK' /\ RootsAreKnown' /\ ProgramIsCurrent' /\ RecordedOnce'
         /\ built.files[name].content = code \/ (edited /\ name \notin DOMAIN held)
<1> DEFINE host == [overlays |-> held, versions |-> known, rootNames |-> roots]
<1>1. host.overlays = held /\ host.versions = known /\ host.rootNames = roots
  OBVIOUS
<1>2. /\ TypeOK /\ RootsAreKnown /\ ProgramIsCurrent /\ RecordedOnce
      /\ name.file \in Files /\ name = Compiled(name.file)
  BY OneNameEach DEF HostInv
<1>3. CASE IsChange(name, code)
  <2>1. /\ DOMAIN held = DOMAIN overlays \cup {name} /\ held[name] = code
        /\ \A other \in DOMAIN overlays : other # name => held[other] = overlays[other]
        /\ roots = rootNames \cup {name}
    BY <1>3 DEF With
  <2>2. /\ DOMAIN known = DOMAIN held
        /\ known[name] = getScriptVersion(name, versions) + 1
        /\ \A other \in DOMAIN versions : other # name => known[other] = versions[other]
    BY <1>2, <1>3, <2>1 DEF Bumped, With, TypeOK
  <2>3. getScriptVersion(name, versions) \in Nat
    BY <1>2 DEF getScriptVersion, TypeOK
  <2>4. /\ getScriptVersion(name, known) = getScriptVersion(name, versions) + 1
        /\ \A other : other # name => getScriptVersion(other, known) = getScriptVersion(other, versions)
    BY <1>2, <2>1, <2>2 DEF getScriptVersion, TypeOK
  <2>5. ~IsUpToDate(host)
    <3> SUFFICES ASSUME program # nothing, program.rootNames = roots
                 PROVE  \E other \in DOMAIN program.files :
                          program.files[other].version # getScriptVersion(other, known)
      BY <1>1 DEF IsUpToDate
    <3>1. name \in DOMAIN program.files
      BY <1>2, <2>1 DEF ProgramIsCurrent
    <3>2. program.files[name].version = getScriptVersion(name, versions)
      BY <1>2, <3>1 DEF ProgramIsCurrent
    <3> QED BY <2>3, <2>4, <3>1, <3>2
  <2>6. /\ roots \in SUBSET Names /\ DOMAIN held \subseteq roots
        /\ \A other \in DOMAIN held : held[other] \in Contents \ {nothing}
        /\ \A other \in DOMAIN known : known[other] \in Nat
    BY <1>2, <2>1, <2>2, <2>3 DEF TypeOK, RootsAreKnown
  <2>7. \A other \in roots : getScriptSnapshot(other, held) # nothing
    BY <1>2, <2>1, <2>6 DEF getScriptSnapshot, RootsAreKnown
  <2>8. program # nothing =>
          \A other \in DOMAIN program.files :
            program.files[other].version = getScriptVersion(other, known) =>
              /\ other \in DOMAIN held => program.files[other].content = held[other]
              /\ other \notin DOMAIN held /\ ~edited => program.files[other].content = disk[other.file]
    <3> SUFFICES ASSUME program # nothing, NEW other \in DOMAIN program.files,
                        program.files[other].version = getScriptVersion(other, known)
                 PROVE  /\ other \in DOMAIN held => program.files[other].content = held[other]
                        /\ other \notin DOMAIN held /\ ~edited
                             => program.files[other].content = disk[other.file]
      OBVIOUS
    <3>1. program.files[other].version = getScriptVersion(other, versions)
      BY <1>2 DEF ProgramIsCurrent
    <3>2. other # name
      <4> SUFFICES ASSUME other = name PROVE FALSE
        OBVIOUS
      <4>1. getScriptVersion(name, known) = getScriptVersion(name, versions)
        BY <3>1
      <4> QED BY <2>3, <2>4, <4>1
    <3> QED BY <1>2, <2>1, <3>2 DEF ProgramIsCurrent
  <2>9. /\ IsProgram(built)
        /\ built.rootNames = roots /\ roots \subseteq DOMAIN built.files
        /\ \A other \in DOMAIN built.files :
             /\ built.files[other].version = getScriptVersion(other, known)
             /\ other \in DOMAIN held => built.files[other].content = held[other]
             /\ other \notin DOMAIN held /\ (~edited \/ program = nothing)
                  => built.files[other].content = disk[other.file]
    BY <1>2, <2>2, <2>5, <2>6, <2>7, <2>8, BuiltIsCurrent
  <2>10. TypeOK'
    BY <1>2, <2>2, <2>5, <2>6, <2>9 DEF TypeOK
  <2>11. RootsAreKnown'
    BY <1>2, <2>1, <2>6 DEF RootsAreKnown
  <2>12. ProgramIsCurrent'
    BY <2>9 DEF ProgramIsCurrent
  <2>13. built # nothing
    BY <2>9 DEF HostAssumption
  <2>14. IsFiniteSet(DOMAIN held)
    BY <1>2, <2>1, FS_AddElement DEF RecordedOnce
  <2>15. ASSUME ~edited, ~ahead, disk[name.file] = code
         PROVE  /\ builds' <= 1 + Cardinality(DOMAIN held)
                /\ \A other \in DOMAIN held : held[other] = disk[other.file] /\ other.file \notin Listed
    <3>1. name \notin DOMAIN overlays
      BY <1>2, <1>3, <2>15 DEF IsChange, RecordedOnce
    <3>2. name \notin rootNames
      BY <1>3, <2>15, <3>1 DEF IsChange, matchesDisk
    <3>3. name.file \notin Listed
      BY <1>2, <3>2 DEF RootsAreKnown
    <3>4. Cardinality(DOMAIN held) = Cardinality(DOMAIN overlays) + 1
      BY <1>2, <2>1, <3>1, FS_AddElement DEF RecordedOnce
    <3>5. builds' = builds + 1 /\ builds \in Nat /\ Cardinality(DOMAIN overlays) \in Nat
      BY <1>2, <2>5, FS_CardinalityType DEF TypeOK, RecordedOnce
    <3>6. builds <= 1 + Cardinality(DOMAIN overlays)
      BY <1>2, <2>15 DEF RecordedOnce
    <3>7. \A other \in DOMAIN held : held[other] = disk[other.file] /\ other.file \notin Listed
      BY <1>2, <2>1, <2>15, <3>3 DEF RecordedOnce
    <3> QED BY <3>4, <3>5, <3>6, <3>7
  <2>16. RecordedOnce'
    BY <2>13, <2>14, <2>15 DEF RecordedOnce
  <2> QED BY <2>1, <2>9, <2>10, <2>11, <2>12, <2>16
<1>4. CASE ~IsChange(name, code)
  <2>1. held = overlays /\ known = versions /\ roots = rootNames
    BY <1>4
  <2>2. /\ roots \in SUBSET Names /\ DOMAIN held \subseteq roots
        /\ \A other \in DOMAIN held : held[other] \in Contents \ {nothing}
        /\ DOMAIN known = DOMAIN held
        /\ \A other \in DOMAIN known : known[other] \in Nat
        /\ name \in roots
    BY <1>2, <1>4, <2>1 DEF TypeOK, RootsAreKnown, IsChange
  <2>3. name \in DOMAIN held => held[name] = code
    BY <1>4, <2>1 DEF IsChange
  <2>4. name \notin DOMAIN held => disk[name.file] = code
    BY <1>4, <2>1 DEF IsChange, matchesDisk
  <2>5. CASE program = nothing
    <3>1. ~IsUpToDate(host)
      BY <2>5 DEF IsUpToDate
    <3>2. \A other \in roots : getScriptSnapshot(other, held) # nothing
      BY <1>2, <2>1, <2>2 DEF getScriptSnapshot, RootsAreKnown
    <3>3. /\ IsProgram(built)
          /\ built.rootNames = roots /\ roots \subseteq DOMAIN built.files
          /\ \A other \in DOMAIN built.files :
               /\ built.files[other].version = getScriptVersion(other, known)
               /\ other \in DOMAIN held => built.files[other].content = held[other]
               /\ other \notin DOMAIN held => built.files[other].content = disk[other.file]
      BY <1>2, <2>2, <2>5, <3>1, <3>2, BuiltIsCurrent
    <3>4. built # nothing
      BY <3>3 DEF HostAssumption
    <3>5. TypeOK'
      BY <1>2, <2>2, <3>1, <3>3 DEF TypeOK
    <3>6. RootsAreKnown' /\ ProgramIsCurrent'
      BY <1>2, <2>1, <3>3 DEF RootsAreKnown, ProgramIsCurrent
    <3>7. builds = 0 /\ DOMAIN held = {} /\ builds' = 1
      BY <1>2, <2>1, <2>5, <3>1 DEF RecordedOnce
    <3>8. RecordedOnce'
      BY <3>4, <3>7, FS_EmptySet DEF RecordedOnce
    <3> QED BY <2>2, <2>3, <2>4, <3>3, <3>5, <3>6, <3>8
  <2>6. CASE program # nothing
    <3>1. IsUpToDate(host)
      BY <1>1, <1>2, <2>1, <2>6 DEF IsUpToDate, ProgramIsCurrent
    <3>2. built = program /\ builds' = builds
      BY <1>2, <3>1 DEF getProgram, TypeOK
    <3>3. TypeOK' /\ RootsAreKnown'
      BY <1>2, <2>1, <3>2 DEF TypeOK, RootsAreKnown
    <3>4. ProgramIsCurrent'
      BY <1>2, <2>1, <3>2 DEF ProgramIsCurrent
    <3>5. RecordedOnce'
      BY <1>2, <2>1, <3>2 DEF RecordedOnce
    <3>6. \/ program.files[name].content = code
          \/ edited /\ name \notin DOMAIN held
      BY <1>2, <2>1, <2>2, <2>3, <2>4, <2>6 DEF ProgramIsCurrent
    <3> QED BY <3>2, <3>3, <3>4, <3>5, <3>6
  <2> QED BY <2>5, <2>6
<1> QED BY <1>3, <1>4

LEMMA TransformHolds ==
  ASSUME HostAssumption, HostInv, NEW id \in Ids, NEW code \in Contents \ {nothing},
         transform(id, code)
  PROVE  HostInv'
<1> DEFINE name == toCompilerPath(fileNameOf(id))
           host == update(name, code)
           built == getProgram(host)
<1>1. CASE ~handles(id) \/ ~mentions(code)
  <2>1. /\ UNCHANGED <<disk, overlays, versions, rootNames, program, builds, last, edited>>
        /\ ahead' = (ahead \/ disk[id.file] # code)
    BY <1>1 DEF transform
  <2>2. TypeOK' /\ RootsAreKnown'
    BY <2>1 DEF HostInv, TypeOK, RootsAreKnown
  <2>3. ProgramIsCurrent'
    BY <2>1 DEF HostInv, ProgramIsCurrent, getScriptVersion
  <2>4. RecordedOnce' /\ LastWasGiven'
    BY <2>1 DEF HostInv, RecordedOnce, LastWasGiven
  <2> QED BY <2>2, <2>3, <2>4 DEF HostInv
<1>2. CASE handles(id) /\ mentions(code)
  <2>1. name \in Names /\ name.file = id.file
    BY NameOfPath
  <2>2. /\ overlays' = host.overlays /\ versions' = host.versions /\ rootNames' = host.rootNames
        /\ program' = built
        /\ builds' = builds + (IF IsUpToDate(host) THEN 0 ELSE 1)
        /\ last' = [name |-> name, code |-> code, seen |-> built.files[name].content,
                    result |-> transformFile(treeOf(built.files[name].content))]
        /\ UNCHANGED <<disk, edited>>
        /\ ahead' = (ahead \/ disk[id.file] # code)
    BY <1>2 DEF transform
  <2> HIDE DEF name
  <2>3. host = [overlays |-> host.overlays, versions |-> host.versions, rootNames |-> host.rootNames]
    BY DEF update
  <2>4. IF IsChange(name, code)
        THEN /\ host.overlays = With(overlays, name, code) /\ host.versions = Bumped(name)
             /\ host.rootNames = rootNames \cup {name}
        ELSE host.overlays = overlays /\ host.versions = versions /\ host.rootNames = rootNames
    BY DEF update
  <2> HIDE DEF host
  <2>5. built = getProgram([overlays |-> host.overlays, versions |-> host.versions,
                            rootNames |-> host.rootNames])
    BY <2>3
  <2>6. builds' = builds + (IF IsUpToDate([overlays |-> host.overlays, versions |-> host.versions,
                                           rootNames |-> host.rootNames])
                            THEN 0 ELSE 1)
    BY <2>2, <2>3
  <2> HIDE DEF built
  <2>7. /\ TypeOK' /\ RootsAreKnown' /\ ProgramIsCurrent' /\ RecordedOnce'
        /\ built.files[name].content = code \/ (edited /\ name \notin DOMAIN host.overlays)
    BY <2>1, <2>2, <2>4, <2>5, <2>6, HandedOver
  <2>8. last'.name = name /\ last'.code = code /\ last'.seen = built.files[name].content
    BY <2>2
  <2>9. LastWasGiven'
    BY <2>2, <2>7, <2>8 DEF LastWasGiven
  <2> QED BY <2>7, <2>9 DEF HostInv
<1> QED BY <1>1, <1>2

LEMMA StepHolds == HostAssumption /\ HostInv /\ [Next]_vars => HostInv'
<1> SUFFICES ASSUME HostAssumption, HostInv, [Next]_vars PROVE HostInv'
  OBVIOUS
<1>1. CASE Next
  BY <1>1, TransformHolds, EditHolds DEF Next
<1>2. CASE UNCHANGED vars
  BY <1>2 DEF vars, HostInv, TypeOK, RootsAreKnown, ProgramIsCurrent, RecordedOnce, LastWasGiven,
              getScriptVersion
<1> QED BY <1>1, <1>2

\* However files are edited and handed over: the program holds what was last handed
\* over of every file recorded as changed, and what is transformed is what was
\* handed over, unless the file was as it is on the disk and was edited since
\* (packages/transform-core/src/program).
THEOREM TransformsWhatItIsGivenHolds == HostAssumption => (Spec => []TransformsWhatItIsGiven)
<1> SUFFICES ASSUME HostAssumption PROVE Spec => []TransformsWhatItIsGiven
  OBVIOUS
<1>1. Init => HostInv
  BY StartsHeld
<1>2. HostInv /\ [Next]_vars => HostInv'
  BY StepHolds
<1>3. HostInv => TransformsWhatItIsGiven
  BY DEF HostInv, RootsAreKnown, ProgramIsCurrent, LastWasGiven, TransformsWhatItIsGiven
<1> QED BY <1>1, <1>2, <1>3, PTL DEF Spec

\* While files are handed over as they are on the disk, however many there are: one
\* program, and one more for each file the tsconfig does not list
\* (packages/transform-core/src/program: update).
THEOREM ColdRunBuildsOnceHolds == HostAssumption => (Spec => []ColdRunBuildsOnce)
<1> SUFFICES ASSUME HostAssumption PROVE Spec => []ColdRunBuildsOnce
  OBVIOUS
<1>1. Init => HostInv
  BY StartsHeld
<1>2. HostInv /\ [Next]_vars => HostInv'
  BY StepHolds
<1>3. HostInv => ColdRunBuildsOnce
  BY OneNameEach DEF HostInv, TypeOK, RootsAreKnown, RecordedOnce, ColdRunBuildsOnce
<1> QED BY <1>1, <1>2, <1>3, PTL DEF Spec
=============================================================================
