------------------------------ MODULE GenFresh ------------------------------
(***************************************************************************)
(* One run after the other of a code generator of scripts/: generate_rest, *)
(* generate_swml_verbs, generate_swaig_payloads, generate_relay_protocol.  *)
(* All four read the specifications of porting-sdk, build the text of every*)
(* file they own, have perltidy format the Perl files in a pool of threads *)
(* (_perltidy_gen), and then either write the files or, with --check,      *)
(* compare them with the tree and report what is stale or left over.       *)
(*                                                                         *)
(* Between any two steps somebody may edit the specifications or the tree, *)
(* or kill the run.  Texts are abstract: a text is named by the            *)
(* specifications it was rendered from and by whether perltidy saw it.     *)
(* What the texts say is the matter of RestResources and PayloadClasses.   *)
(***************************************************************************)
EXTENDS Naturals, FiniteSets, Sequences, Functions

CONSTANTS
  Generators,   \* the generators that run here
  Shells,       \* the environments they are started from
  Files,        \* the files a tree can hold, in the order of the output
  KindOf,       \* [file -> "pm" or "json"]
  Parts,        \* the specification files, in the order they are read
  Versions,     \* what a specification file can say
  Missing,      \* a specification file that is not there
  Malformed,    \* versions that perltidy refuses the text of
  Emits,        \* Emits[p][v]: the files that part p at version v calls for
  Workers,      \* threads of the pool
  MaxRuns,      \* bound: runs of the generator
  MaxEdits      \* bound: changes from outside

VARIABLES
  spec,       \* [part -> version or Missing]: porting-sdk as it is now
  tree,       \* [dir -> [file -> content]]: "lib" is the generated tree
  gen,        \* the generator
  shell,      \* the environment its runs are started from
  pc,         \* where the run is
  check,      \* --check was given
  dir,        \* "lib", or "scratch" when --out was given
  read,       \* specifications read so far, [parts read -> version]
  outs,       \* outs: [files -> text]
  taken,      \* Perl files the pool's threads have picked up
  running,    \* files whose perltidy runs now
  tidied,     \* [files -> "ok" or "failed"]: perltidy has ended
  collected,  \* files whose text pool.map has handed to the main thread
  done,       \* files written or compared so far
  stale,      \* what --check will report
  verdict,    \* how the last run ended
  runs, edits,
  calm        \* history: nothing was changed from outside during this run

run  == <<check, dir, read, outs, taken, running, tidied, collected, done, stale>>
vars == <<spec, tree, gen, shell, pc, run, verdict, runs, edits, calm>>

Dirs == {"lib", "scratch"}
AllFiles == Range(Files)
AllParts == Range(Parts)

---------------------------------------------------------------------------
(* The four programs: where they write, and the kinds of files they emit   *)
(* and look for when they hunt for leftovers.                              *)
RestMain  == {"pm", "json"}
SwmlMain  == {"pm"}
SwaigMain == {"pm"}
RelayMain == {"pm"}

Mains == [rest |-> RestMain, swml |-> SwmlMain, swaig |-> SwaigMain,
          relay |-> RelayMain]
Kinds == Mains[gen]

ASSUME GeneratorsAreKnown == Generators \subseteq DOMAIN Mains
ASSUME PoolIsThere == Workers \in Nat \ {0}
ASSUME BoundsAreNat == MaxRuns \in Nat /\ MaxEdits \in Nat

---------------------------------------------------------------------------
(* Contents of files.                                                      *)
NoFile  == <<"none">>
Blank   == <<"empty">>
Foreign == <<"foreign">>

Sources(f) == {p \in AllParts : \E v \in Versions : f \in Emits[p][v]}

Text(form, from, f) == <<form, Restrict(from, Sources(f) \cap DOMAIN from)>>

Raw(from, f) == Text("raw", from, f)

\* The text that a run over these specifications ends up with.
Rendered(from, f) ==
  Text(IF KindOf[f] = "pm" THEN "tidy" ELSE "raw", from, f)

\* The files a run over these specifications puts out.
Expected(from) == {f \in AllFiles : /\ KindOf[f] \in Kinds
                                    /\ \E p \in AllParts : f \in Emits[p][from[p]]}

IsPm(f) == KindOf[f] = "pm"
Targets == {f \in DOMAIN outs : IsPm(f)}

\* x is the one of S that stands first in the order.
IsFirst(x, S, order) ==
  /\ x \in S
  /\ \E i \in DOMAIN order : order[i] = x /\ \A j \in 1 .. i - 1 : order[j] \notin S

NextFile(f, left) == IsFirst(f, left, Files)

---------------------------------------------------------------------------
(* perltidy.  A shell says which candidates exist (the PERLTIDY variable,  *)
(* the PATH, the local::lib of the home directory), what PERL5LIB and      *)
(* PERL_LOCAL_LIB_ROOT are set to ("" when unset).                         *)
AllShells == [found : SUBSET {"variable", "path", "home"},
              perl5lib : {<<>>, <<"home lib">>, <<"other lib">>},
              root : {"", "home lib", "other lib"},
              installed : SUBSET {"home lib", "other lib"}]

ASSUME ShellsAreKnown == Shells \subseteq AllShells

PerltidyBin ==
  CASE "variable" \in shell.found -> "variable"
    [] "variable" \notin shell.found /\ "path" \in shell.found -> "path"
    [] shell.found = {"home"} -> "home"
    [] OTHER -> "none"

\* Mutant of PerltidyEnv: a PERL5LIB that is set is left alone.
PerltidyEnvIfUnset ==
  LET lib == IF shell.root = "" THEN "home lib" ELSE shell.root
  IN  IF lib \in shell.installed /\ shell.perl5lib = <<>>
      THEN <<lib>> ELSE shell.perl5lib

\* PERL5LIB for the subprocess: the local::lib in front, once.
PerltidyEnv ==
  LET lib == IF shell.root = "" THEN "home lib" ELSE shell.root
  IN  IF lib \in shell.installed /\ lib \notin Range(shell.perl5lib)
      THEN <<lib>> \o shell.perl5lib ELSE shell.perl5lib

\* Perl finds Perl::Tidy: the wrapper in the home directory needs the
\* library next to it, the others come with a perl that has it.
PerltidyLoads == PerltidyBin = "home" =>
  "home lib" \in Range(PerltidyEnv) \cap shell.installed

TidyWorks(text) == PerltidyLoads /\ Range(text[2]) \cap Malformed = {}

---------------------------------------------------------------------------
(* The tree starts out empty, or as a generation from specifications that  *)
(* all had the same version left it.                                       *)
Init ==
  /\ spec \in [AllParts -> Versions \ Malformed]
  /\ \E v \in Versions \ Malformed, generated \in BOOLEAN :
       LET s == [p \in AllParts |-> v]
       IN  tree = [d \in Dirs |-> [f \in AllFiles |->
             IF d = "lib" /\ generated /\ \E p \in AllParts : f \in Emits[p][v]
             THEN Rendered(s, f) ELSE NoFile]]
  /\ gen \in Generators
  /\ shell \in Shells
  /\ pc = "idle" /\ check = FALSE /\ dir = "lib" /\ read = <<>> /\ outs = <<>>
  /\ taken = {} /\ running = {} /\ tidied = <<>> /\ collected = {}
  /\ done = {} /\ stale = {} /\ verdict = "none"
  /\ runs = 0 /\ edits = 0 /\ calm = TRUE

Start(checking, into) ==
  /\ pc = "idle" /\ runs < MaxRuns
  /\ pc' = "reading" /\ check' = checking /\ dir' = into
  /\ read' = <<>> /\ outs' = <<>> /\ taken' = {} /\ running' = {}
  /\ tidied' = <<>> /\ collected' = {} /\ done' = {} /\ stale' = {}
  /\ verdict' = "none" /\ runs' = runs + 1 /\ calm' = TRUE
  /\ UNCHANGED <<spec, tree, gen, shell, edits>>

End(how) == pc' = "idle" /\ verdict' = how

(* build_outputs: the specifications are read one file after the other; a  *)
(* missing one ends the run.                                               *)
ReadSpec(p) ==
  /\ pc = "reading" /\ IsFirst(p, AllParts \ DOMAIN read, Parts)
  /\ IF spec[p] = Missing
     THEN End("no specification") /\ UNCHANGED run
     ELSE /\ read' = [q \in DOMAIN read \cup {p} |-> IF q = p THEN spec[p] ELSE read[q]]
          /\ UNCHANGED <<pc, verdict, check, dir, outs, taken, running,
                         tidied, collected, done, stale>>
  /\ UNCHANGED <<spec, tree, gen, shell, runs, edits, calm>>

(* The texts are built; perltidy_outputs looks for perltidy before it      *)
(* hands out any work.                                                     *)
Build ==
  /\ pc = "reading" /\ DOMAIN read = AllParts
  /\ outs' = [f \in Expected(read) |-> Raw(read, f)]
  /\ IF PerltidyBin = "none" THEN End("no perltidy")
                             ELSE pc' = "tidying" /\ UNCHANGED verdict
  /\ UNCHANGED <<spec, tree, gen, shell, check, dir, read, taken, running,
                 tidied, collected, done, stale, runs, edits, calm>>

(* Threads of the pool take the files in the order they were submitted.    *)
Take(f) ==
  /\ pc = "tidying" /\ NextFile(f, Targets \ taken)
  /\ Cardinality(running) < Workers
  /\ taken' = taken \cup {f} /\ running' = running \cup {f}
  /\ UNCHANGED <<spec, tree, gen, shell, pc, check, dir, read, outs, tidied,
                 collected, done, stale, verdict, runs, edits, calm>>

(* _tidy_one: an exit status or an empty output fails the file.            *)
TidyOne(f) ==
  /\ pc \in {"tidying", "draining"} /\ f \in running
  /\ running' = running \ {f}
  /\ tidied' = [g \in DOMAIN tidied \cup {f} |->
                  IF g # f THEN tidied[g]
                  ELSE IF TidyWorks(outs[f]) THEN "ok" ELSE "failed"]
  /\ UNCHANGED <<spec, tree, gen, shell, pc, check, dir, read, outs, taken,
                 collected, done, stale, verdict, runs, edits, calm>>

\* Mutant of Collect: a failed file is waited for like an unfinished one.
CollectOnlyGood(f) ==
  /\ pc = "tidying" /\ NextFile(f, Targets \ collected)
  /\ f \in DOMAIN tidied /\ tidied[f] = "ok"
  /\ outs' = [outs EXCEPT ![f] = Rendered(read, f)]
  /\ collected' = collected \cup {f}
  /\ UNCHANGED <<spec, tree, gen, shell, pc, check, dir, read, taken, running,
                 tidied, done, stale, verdict, runs, edits, calm>>

(* pool.map hands the results over in the order of submission; a failed    *)
(* one cancels what no thread has taken and waits for the rest.            *)
Collect(f) ==
  /\ pc = "tidying" /\ NextFile(f, Targets \ collected)
  /\ f \in DOMAIN tidied
  /\ IF tidied[f] = "ok"
     THEN /\ outs' = [outs EXCEPT ![f] = Rendered(read, f)]
          /\ collected' = collected \cup {f}
          /\ UNCHANGED pc
     ELSE pc' = "draining" /\ UNCHANGED <<outs, collected>>
  /\ UNCHANGED <<spec, tree, gen, shell, check, dir, read, taken, running,
                 tidied, done, stale, verdict, runs, edits, calm>>

Drained ==
  /\ pc = "draining" /\ running = {}
  /\ End("perltidy failed")
  /\ UNCHANGED <<spec, tree, gen, shell, run, runs, edits, calm>>

\* Mutant of TidyDone: it is enough that every file has been submitted.
TidySubmitted ==
  /\ pc = "tidying" /\ taken = Targets
  /\ pc' = IF check THEN "comparing" ELSE "writing"
  /\ UNCHANGED <<spec, tree, gen, shell, run, verdict, runs, edits, calm>>

TidyDone ==
  /\ pc = "tidying" /\ collected = Targets
  /\ pc' = IF check THEN "comparing" ELSE "writing"
  /\ UNCHANGED <<spec, tree, gen, shell, run, verdict, runs, edits, calm>>

---------------------------------------------------------------------------
(* main without --check: write_text opens a file, which empties it, and    *)
(* then fills it.  Files that are no longer emitted stay where they are.   *)
Left == DOMAIN outs \ done

Truncate(f) ==
  /\ pc = "writing" /\ NextFile(f, Left)
  /\ pc' = "filling"
  /\ tree' = [tree EXCEPT ![dir][f] = Blank]
  /\ UNCHANGED <<spec, gen, shell, run, verdict, runs, edits, calm>>

Write(f) ==
  /\ pc = "filling" /\ NextFile(f, Left)
  /\ tree' = [tree EXCEPT ![dir][f] = outs[f]]
  /\ pc' = "writing" /\ done' = done \cup {f}
  /\ UNCHANGED <<spec, gen, shell, check, dir, read, outs, taken, running,
                 tidied, collected, stale, verdict, runs, edits, calm>>

Generated ==
  /\ pc = "writing" /\ Left = {}
  /\ End("generated")
  /\ UNCHANGED <<spec, tree, gen, shell, run, runs, edits, calm>>

\* Mutant of Compare: a file that is not there is passed over.
CompareExisting(f) ==
  /\ pc = "comparing" /\ NextFile(f, Left)
  /\ stale' = IF tree[dir][f] \in {NoFile, outs[f]} THEN stale ELSE stale \cup {f}
  /\ done' = done \cup {f}
  /\ UNCHANGED <<spec, tree, gen, shell, pc, check, dir, read, outs, taken,
                 running, tidied, collected, verdict, runs, edits, calm>>

(* main with --check: each file of the output against the tree, then the   *)
(* files of the tree that are not in the output.                           *)
Compare(f) ==
  /\ pc = "comparing" /\ NextFile(f, Left)
  /\ stale' = IF tree[dir][f] = outs[f] THEN stale ELSE stale \cup {f}
  /\ done' = done \cup {f}
  /\ UNCHANGED <<spec, tree, gen, shell, pc, check, dir, read, outs, taken,
                 running, tidied, collected, verdict, runs, edits, calm>>

Leftovers == {f \in AllFiles \ DOMAIN outs :
                 KindOf[f] \in Kinds /\ tree[dir][f] # NoFile}

Report ==
  /\ pc = "comparing" /\ Left = {}
  /\ stale' = stale \cup Leftovers
  /\ End(IF stale' = {} THEN "fresh" ELSE "stale")
  /\ UNCHANGED <<spec, tree, gen, shell, check, dir, read, outs, taken,
                 running, tidied, collected, done, runs, edits, calm>>

---------------------------------------------------------------------------
(* The world outside: an edit of the specifications, a file of the tree    *)
(* edited or removed by hand, the run killed.                              *)
EditSpec(p) ==
  /\ edits < MaxEdits
  /\ \E v \in Versions \cup {Missing} : v # spec[p] /\ spec' = [spec EXCEPT ![p] = v]
  /\ edits' = edits + 1 /\ calm' = FALSE
  /\ UNCHANGED <<tree, gen, shell, pc, run, verdict, runs>>

EditTree(f) ==
  /\ edits < MaxEdits
  /\ \E c \in {NoFile, Foreign} :
        c # tree["lib"][f] /\ tree' = [tree EXCEPT !["lib"][f] = c]
  /\ edits' = edits + 1 /\ calm' = FALSE
  /\ UNCHANGED <<spec, gen, shell, pc, run, verdict, runs>>

Kill == /\ pc # "idle"
        /\ read' = <<>> /\ outs' = <<>> /\ taken' = {} /\ running' = {}
        /\ tidied' = <<>> /\ collected' = {} /\ done' = {} /\ stale' = {}
        /\ End("killed")
        /\ UNCHANGED <<spec, tree, gen, shell, check, dir, runs, edits, calm>>

Step == \/ \E p \in AllParts : ReadSpec(p)
        \/ Build \/ Drained \/ TidyDone \/ Generated \/ Report
        \/ \E f \in AllFiles : \/ Take(f) \/ TidyOne(f) \/ Collect(f)
                               \/ Truncate(f) \/ Write(f) \/ Compare(f)

Next == \/ \E checking \in BOOLEAN, into \in Dirs : Start(checking, into)
        \/ Step
        \/ \E p \in AllParts : EditSpec(p)
        \/ \E f \in AllFiles : EditTree(f)
        \/ Kill

Spec == Init /\ [][Next]_vars

(* The main thread and the threads of the pool keep running; nobody has to *)
(* start a run, edit a file or kill the process.                           *)
FairSpec == Spec /\ WF_vars(Step)

---------------------------------------------------------------------------
(* What the runs are made of, and the invariant that the properties below  *)
(* follow from.                                                            *)
Slots == Dirs \X AllFiles
Texts(f) == {Rendered(from, f) : from \in [AllParts -> Versions]}
Finals == [s \in Slots |-> Texts(s[2])]
Contents == {NoFile, Blank, Foreign} \cup UNION {Texts(f) : f \in AllFiles}

Phases == {"reading", "tidying", "draining", "comparing", "writing", "filling"}

TypeOK ==
  /\ spec \in [AllParts -> Versions \cup {Missing}]
  /\ tree \in [Dirs -> [AllFiles -> Contents]]
  /\ gen \in Generators /\ shell \in Shells
  /\ pc \in Phases \cup {"idle"} /\ check \in BOOLEAN /\ dir \in Dirs
  /\ DOMAIN read \subseteq AllParts /\ read \in [DOMAIN read -> Versions]
  /\ DOMAIN outs \subseteq AllFiles
  /\ tidied \in [DOMAIN tidied -> {"ok", "failed"}]
  /\ taken \subseteq AllFiles /\ running \subseteq AllFiles
  /\ collected \subseteq AllFiles /\ done \subseteq AllFiles
  /\ stale \subseteq AllFiles /\ calm \in BOOLEAN

\* Past the reading every text is there, and those that perltidy has seen
\* are final; the tree is touched or compared only when all of them are.
Assembled == pc \in Phases \ {"reading"} =>
  /\ DOMAIN read = AllParts /\ DOMAIN outs = Expected(read)
  /\ collected \subseteq Targets
  /\ \A f \in DOMAIN outs : outs[f] = IF f \in Targets \ collected
                                    THEN Raw(read, f) ELSE Rendered(read, f)
AllFinal == pc \in {"comparing", "writing", "filling"} =>
  collected = Targets /\ done \subseteq DOMAIN outs

NotBegun ==
  /\ pc = "reading" => collected = {} /\ running = {} /\ DOMAIN tidied = {}
  /\ pc \in {"reading", "tidying", "draining"} => done = {} /\ stale = {}

NoneInstalled == verdict = "no perltidy" => shell.found = {}
NoVerdictYet == pc # "idle" => verdict = "none"

\* A run that nothing disturbs knows the specifications as they are, and
\* what it has compared or written so far.
Undisturbed == calm /\ pc # "idle" =>
  /\ \A p \in DOMAIN read : read[p] = spec[p]
  /\ pc = "comparing" => stale = {f \in done : tree[dir][f] # outs[f]}
  /\ pc \in {"writing", "filling"} => \A f \in done : tree[dir][f] = outs[f]

\* perltidy fails a file only for a reason.
HasReason(f) == f \in Targets /\ ~TidyWorks(outs[f])
FailuresHaveReasons ==
  /\ pc \in {"tidying", "draining"} =>
       \A f \in DOMAIN tidied \cup running :
          f \in Targets /\ (f \in DOMAIN tidied /\ tidied[f] = "failed" => HasReason(f))
  /\ pc = "draining" \/ verdict = "perltidy failed" => \E f \in DOMAIN outs : HasReason(f)

(* A run that nothing disturbed tells the truth: --check says "fresh"      *)
(* exactly when the tree holds what the specifications call for and no     *)
(* file of its kinds beyond that, and a generation that ends well leaves   *)
(* every file it owns as the specifications call for.                      *)
Holds(f) == tree[dir][f] = Rendered(spec, f)

TreeIsFresh == \A f \in AllFiles :
  IF f \in Expected(spec) THEN Holds(f) ELSE KindOf[f] \in Kinds => tree[dir][f] = NoFile

VerdictTruthful == calm =>
  /\ verdict = "fresh" => TreeIsFresh
  /\ verdict = "stale" => ~TreeIsFresh
  /\ verdict = "generated" => \A f \in Expected(spec) : Holds(f)

(* A run that is not killed fails only when a specification is missing or  *)
(* renders to Perl that perltidy refuses, or perltidy is not installed.    *)
(* With the local installation and no PERL_LOCAL_LIB_ROOT it never fails   *)
(* for want of PERL5LIB, whatever the shell exports.                       *)
FailsForAReason ==
  /\ verdict = "no perltidy" => shell.found = {}
  /\ verdict = "perltidy failed" /\ shell.root \in {"", "home lib"}
                                 /\ "home lib" \in shell.installed =>
       \E f \in DOMAIN outs : IsPm(f) /\ Range(outs[f][2]) \cap Malformed # {}

GenInv == /\ TypeOK /\ Assembled /\ AllFinal /\ Undisturbed /\ FailuresHaveReasons
          /\ NotBegun /\ NoVerdictYet
          /\ NoneInstalled
          /\ VerdictTruthful

(* Every run ends, the failed file in the middle of the pool included.     *)
RunEnds == (pc # "idle") ~> (pc = "idle")

(* The tree is only ever changed the way RegenContract allows: by a        *)
(* generation all of whose texts are final, one file at a time.            *)
Writing == pc \in {"writing", "filling"}
Job == IF pc = "idle" THEN [phase |-> "idle"]
       ELSE IF ~Writing THEN [phase |-> "preparing"]
       ELSE [phase |-> "replacing",
             goal |-> [s \in {dir} \X (DOMAIN outs) |-> outs[s[2]]],
             left |-> {dir} \X Left]

Contract == INSTANCE RegenContract WITH
  Files <- Slots,
  Contents <- Contents,
  Final <- Finals,
  tree <- [s \in Slots |-> tree[s[1]][s[2]]],
  job <- Job

ImplementsRegenContract == Contract!Spec
=============================================================================
