--------------------------- MODULE GenFreshProofs ---------------------------
(***************************************************************************)
(* Proofs about GenFresh for any files, specifications, generators, shells *)
(* and any number of runs and edits.                                       *)
(***************************************************************************)
EXTENDS GenFresh, SequenceTheorems, TLAPS

-----------------------------------------------------------------------------
(* Texts and files.                                                        *)

\* A text rendered from versions of all specifications is a content.
LEMMA RenderedContent ==
  ASSUME NEW f \in AllFiles, NEW from \in [AllParts -> Versions]
  PROVE  Rendered(from, f) \in Texts(f) /\ Rendered(from, f) \in Contents
BY DEF Texts, Contents

\* Which files a run puts out depends on the generator and what it read.
LEMMA ExpectedSame ==
  ASSUME gen' = gen, read' = read
  PROVE  Expected(read)' = Expected(read)
BY DEF Expected, Kinds

LEMMA ExpectedFiles ==
  ASSUME NEW from
  PROVE  Expected(from) \subseteq AllFiles
BY DEF Expected

\* Only Perl files are formatted: the text of another is final at once.
LEMMA RawIsFinal ==
  ASSUME NEW f, NEW from, ~IsPm(f)
  PROVE  Raw(from, f) = Rendered(from, f)
BY DEF Raw, Rendered, IsPm

\* What is left to do is a file of the output.
LEMMA NextFileIn ==
  ASSUME NEW f, NEW S, NextFile(f, S)
  PROVE  f \in S
BY DEF NextFile, IsFirst


\* Nothing read, nothing put out.
LEMMA NoEntries == DOMAIN <<>> = {} /\ \A S : <<>> \in [{} -> S]
<1>1. DOMAIN <<>> = {}
  OBVIOUS
<1> QED
  BY <1>1

\* The texts that are compared and written are final.
LEMMA OutsAreFinal ==
  ASSUME TypeOK, Assembled, AllFinal, pc \in {"comparing", "writing", "filling"},
         NEW f \in DOMAIN outs
  PROVE  f \in AllFiles /\ outs[f] = Rendered(read, f) /\ outs[f] \in Texts(f)
                         /\ outs[f] \in Contents
<1>1. f \in AllFiles /\ read \in [AllParts -> Versions]
  BY DEF TypeOK, Assembled, Phases
<1>2. outs[f] = Rendered(read, f)
  BY DEF Assembled, AllFinal, Phases
<1> QED
  BY <1>1, <1>2, RenderedContent

-----------------------------------------------------------------------------
(* Type correctness.                                                       *)

LEMMA TypeInit == Init => TypeOK
<1> SUFFICES ASSUME Init PROVE TypeOK
  OBVIOUS
<1>1. tree \in [Dirs -> [AllFiles -> Contents]]
  <2>1. PICK v \in Versions \ Malformed, generated \in BOOLEAN :
          tree = [d \in Dirs |-> [f \in AllFiles |->
                    IF d = "lib" /\ generated /\ \E p \in AllParts : f \in Emits[p][v]
                    THEN Rendered([p \in AllParts |-> v], f) ELSE NoFile]]
    BY DEF Init
  <2>2. \A f \in AllFiles : Rendered([p \in AllParts |-> v], f) \in Contents
    BY RenderedContent
  <2>3. NoFile \in Contents
    BY DEF Contents
  <2> QED
    BY <2>1, <2>2, <2>3
<1>2. spec \in [AllParts -> Versions \cup {Missing}]
  BY DEF Init
<1> QED
  BY <1>1, <1>2, NoEntries DEF Init, TypeOK, Dirs, Phases

LEMMA TypeStep == TypeOK /\ Assembled /\ AllFinal /\ [Next]_vars => TypeOK'
<1> SUFFICES ASSUME TypeOK, Assembled, AllFinal, [Next]_vars PROVE TypeOK'
  OBVIOUS
<1> USE DEF TypeOK, Phases, End
<1>1. ASSUME NEW checking \in BOOLEAN, NEW into \in Dirs, Start(checking, into) PROVE TypeOK'
  BY <1>1, NoEntries DEF Start
<1>2. ASSUME NEW p \in AllParts, ReadSpec(p) PROVE TypeOK'
  <2>1. CASE spec[p] = Missing
    BY <1>2, <2>1 DEF ReadSpec, run
  <2>2. CASE spec[p] # Missing
    <3>1. spec[p] \in Versions
      BY <2>2
    <3>2. /\ read' = [q \in DOMAIN read \cup {p} |-> IF q = p THEN spec[p] ELSE read[q]]
          /\ UNCHANGED <<spec, tree, gen, shell, pc, check, dir, outs, taken, running,
                         tidied, collected, done, stale, calm>>
      BY <1>2, <2>2 DEF ReadSpec
    <3>3. DOMAIN read' \subseteq AllParts /\ read' \in [DOMAIN read' -> Versions]
      BY <3>1, <3>2
    <3> QED
      BY <3>2, <3>3
  <2> QED
    BY <2>1, <2>2
<1>3. CASE Build
  <2>1. DOMAIN outs' \subseteq AllFiles
    BY <1>3, ExpectedFiles DEF Build
  <2> QED
    BY <1>3, <2>1 DEF Build
<1>4. ASSUME NEW f \in AllFiles, Take(f) PROVE TypeOK'
  BY <1>4 DEF Take
<1>5. ASSUME NEW f \in AllFiles, TidyOne(f) PROVE TypeOK'
  <2>1. tidied' \in [DOMAIN tidied' -> {"ok", "failed"}]
    BY <1>5 DEF TidyOne
  <2> QED
    BY <1>5, <2>1 DEF TidyOne
<1>6. ASSUME NEW f \in AllFiles, Collect(f) PROVE TypeOK'
  <2>1. DOMAIN outs' = DOMAIN outs /\ collected' \subseteq AllFiles
    BY <1>6 DEF Collect
  <2> QED
    BY <1>6, <2>1 DEF Collect
<1>7. CASE Drained \/ TidyDone \/ Generated
  BY <1>7 DEF Drained, TidyDone, Generated, run
<1>8. ASSUME NEW f \in AllFiles, Truncate(f) PROVE TypeOK'
  <2>1. Blank \in Contents
    BY DEF Contents
  <2>2. tree' \in [Dirs -> [AllFiles -> Contents]]
    BY <1>8, <2>1 DEF Truncate
  <2> QED
    BY <1>8, <2>2 DEF Truncate, run
<1>9. ASSUME NEW f \in AllFiles, Write(f) PROVE TypeOK'
  <2>1. outs[f] \in Contents
    BY <1>9, OutsAreFinal, NextFileIn DEF Write, Left
  <2>2. tree' \in [Dirs -> [AllFiles -> Contents]]
    BY <1>9, <2>1 DEF Write
  <2> QED
    BY <1>9, <2>2 DEF Write
<1>10. ASSUME NEW f \in AllFiles, Compare(f) PROVE TypeOK'
  BY <1>10 DEF Compare
<1>11. CASE Report
  BY <1>11 DEF Report, Leftovers
<1>12. ASSUME NEW p \in AllParts, EditSpec(p) PROVE TypeOK'
  BY <1>12 DEF EditSpec, run
<1>13. ASSUME NEW f \in AllFiles, EditTree(f) PROVE TypeOK'
  <2>1. NoFile \in Contents /\ Foreign \in Contents /\ "lib" \in Dirs
    BY DEF Contents, Dirs
  <2>2. tree' \in [Dirs -> [AllFiles -> Contents]]
    BY <1>13, <2>1 DEF EditTree
  <2> QED
    BY <1>13, <2>2 DEF EditTree, run
<1>14. CASE Kill
  BY <1>14, NoEntries DEF Kill
<1>15. CASE UNCHANGED vars
  BY <1>15 DEF vars, run
<1> QED
  BY <1>1, <1>2, <1>3, <1>4, <1>5, <1>6, <1>7, <1>8, <1>9, <1>10, <1>11, <1>12,
     <1>13, <1>14, <1>15 DEF Next, Step

-----------------------------------------------------------------------------
(* The texts.                                                              *)

\* Steps that leave the texts and what has been done with them alone.
LEMMA AssembledKept ==
  ASSUME Assembled, UNCHANGED <<gen, read, outs, collected>>,
         pc' \in Phases \ {"reading"} => pc \in Phases \ {"reading"}
  PROVE  Assembled'
BY ExpectedSame DEF Assembled, Phases, Targets, Raw, Rendered, Text, Sources

LEMMA AssembledStep ==
  TypeOK /\ Assembled /\ AllFinal /\ NotBegun /\ [Next]_vars => Assembled'
<1> SUFFICES ASSUME TypeOK, Assembled, AllFinal, NotBegun, [Next]_vars PROVE Assembled'
  OBVIOUS
<1> USE DEF Phases, End
<1>1. ASSUME NEW checking \in BOOLEAN, NEW into \in Dirs, Start(checking, into)
      PROVE Assembled'
  BY <1>1 DEF Start, Assembled
<1>2. ASSUME NEW p \in AllParts, ReadSpec(p) PROVE Assembled'
  BY <1>2 DEF ReadSpec, Assembled
<1>3. CASE Build
  <2>1. /\ DOMAIN read' = AllParts /\ collected' = {} /\ UNCHANGED <<gen, read>>
        /\ outs' = [f \in Expected(read) |-> Raw(read, f)]
    BY <1>3 DEF Build, NotBegun
  <2>2. DOMAIN outs' = Expected(read)'
    BY <2>1, ExpectedSame
  <2>3. ASSUME NEW f \in DOMAIN outs'
        PROVE  outs'[f] = IF f \in (Targets \ collected)'
                          THEN Raw(read, f)' ELSE Rendered(read, f)'
    <3>1. outs'[f] = Raw(read, f)
      BY <2>1, <2>3
    <3>2. f \in (Targets \ collected)' <=> IsPm(f)
      BY <2>1, <2>3 DEF Targets, IsPm
    <3>3. ~IsPm(f) => Raw(read, f) = Rendered(read, f)
      BY RawIsFinal
    <3>4. Raw(read, f)' = Raw(read, f) /\ Rendered(read, f)' = Rendered(read, f)
      BY <2>1 DEF Raw, Rendered, Text, Sources
    <3> QED
      BY <3>1, <3>2, <3>3, <3>4
  <2> QED
    BY <2>1, <2>2, <2>3 DEF Assembled
<1>4. ASSUME NEW f \in AllFiles, Collect(f) PROVE Assembled'
  <2>1. CASE tidied[f] # "ok"
    <3>1. UNCHANGED <<gen, read, outs, collected>> /\ pc = "tidying"
      BY <1>4, <2>1 DEF Collect
    <3> QED
      BY <3>1, AssembledKept
  <2>2. CASE tidied[f] = "ok"
    <3>1. /\ outs' = [outs EXCEPT ![f] = Rendered(read, f)]
          /\ collected' = collected \cup {f} /\ f \in Targets
          /\ UNCHANGED <<gen, read>> /\ pc = "tidying"
      BY <1>4, <2>2, NextFileIn DEF Collect
    <3>2. /\ DOMAIN read = AllParts /\ DOMAIN outs = Expected(read)
          /\ collected \subseteq Targets
          /\ \A g \in DOMAIN outs : outs[g] = IF g \in Targets \ collected
                                            THEN Raw(read, g) ELSE Rendered(read, g)
      BY <3>1 DEF Assembled
    <3>3. DOMAIN outs' = DOMAIN outs /\ Targets' = Targets
      BY <3>1 DEF Targets, IsPm
    <3>4. ASSUME NEW g \in DOMAIN outs'
          PROVE  outs'[g] = IF g \in (Targets \ collected)'
                            THEN Raw(read, g) ELSE Rendered(read, g)
      BY <3>1, <3>2, <3>3
    <3>5. Expected(read)' = Expected(read)
      BY <3>1, ExpectedSame
    <3>6. \A g : Raw(read, g)' = Raw(read, g) /\ Rendered(read, g)' = Rendered(read, g)
      BY <3>1 DEF Raw, Rendered, Text, Sources
    <3> QED
      BY <3>1, <3>2, <3>3, <3>4, <3>5, <3>6 DEF Assembled
  <2> QED
    BY <2>1, <2>2
<1>5. CASE Kill
  BY <1>5 DEF Kill, Assembled
<1>6. CASE \/ Drained \/ TidyDone \/ Generated \/ Report
           \/ \E f \in AllFiles : \/ Take(f) \/ TidyOne(f) \/ Truncate(f) \/ Write(f)
                                  \/ Compare(f) \/ EditTree(f)
           \/ \E p \in AllParts : EditSpec(p)
           \/ UNCHANGED vars
  <2>1. /\ UNCHANGED <<gen, read, outs, collected>>
        /\ pc' \in Phases \ {"reading"} => pc \in Phases \ {"reading"}
    BY <1>6 DEF Drained, TidyDone, Generated, Report, Take, TidyOne, Truncate, Write,
       Compare, EditTree, EditSpec, vars, run
  <2> QED
    BY <2>1, AssembledKept
<1> QED
  BY <1>1, <1>2, <1>3, <1>4, <1>5, <1>6 DEF Next, Step

LEMMA FinalStep ==
  TypeOK /\ AllFinal /\ NotBegun /\ [Next]_vars => AllFinal'
<1> SUFFICES ASSUME TypeOK, AllFinal, NotBegun, [Next]_vars PROVE AllFinal'
  OBVIOUS
<1> USE DEF End, Targets, IsPm
<1>1. CASE TidyDone
  BY <1>1 DEF TidyDone, run, AllFinal, NotBegun
<1>2. ASSUME NEW f \in AllFiles, Write(f) \/ Compare(f) PROVE AllFinal'
  <2>1. f \in DOMAIN outs
    BY <1>2, NextFileIn DEF Write, Compare, Left
  <2> QED
    BY <1>2, <2>1 DEF Write, Compare, AllFinal
<1>3. CASE \/ Build \/ Drained \/ Generated \/ Report \/ Kill
           \/ \E checking \in BOOLEAN, into \in Dirs : Start(checking, into)
           \/ \E f \in AllFiles : Take(f) \/ Collect(f)
           \/ \E p \in AllParts : ReadSpec(p)
  <2>1. pc' \notin {"comparing", "writing", "filling"}
    BY <1>3 DEF Build, Drained, Generated, Report, Start, Take, Collect, ReadSpec, Kill
  <2> QED
    BY <2>1 DEF AllFinal
<1>4. CASE \/ \E f \in AllFiles : Truncate(f) \/ EditTree(f) \/ TidyOne(f)
           \/ \E p \in AllParts : EditSpec(p)
           \/ UNCHANGED vars
  BY <1>4 DEF Truncate, EditTree, EditSpec, TidyOne, vars, run, AllFinal
<1> QED
  BY <1>1, <1>2, <1>3, <1>4 DEF Next, Step

LEMMA NotBegunStep == TypeOK /\ NotBegun /\ [Next]_vars => NotBegun'
<1> SUFFICES ASSUME TypeOK, NotBegun, [Next]_vars PROVE NotBegun'
  OBVIOUS
<1> USE DEF End
<1>1. CASE \E checking \in BOOLEAN, into \in Dirs : Start(checking, into)
  BY <1>1, NoEntries DEF Start, NotBegun
<1>2. CASE \/ Build \/ Drained \/ TidyDone \/ \E p \in AllParts : ReadSpec(p)
  BY <1>2 DEF Build, Drained, TidyDone, ReadSpec, run, NotBegun
<1>3. ASSUME NEW f \in AllFiles, Take(f) \/ TidyOne(f) \/ Collect(f) PROVE NotBegun'
  BY <1>3 DEF Take, TidyOne, Collect, NotBegun
<1>4. CASE \/ Generated \/ Report \/ Kill
           \/ \E f \in AllFiles : Truncate(f) \/ Write(f) \/ Compare(f)
  <2>1. pc' \notin {"reading", "tidying", "draining"}
    BY <1>4 DEF Generated, Report, Kill, Truncate, Write, Compare
  <2> QED
    BY <2>1 DEF NotBegun
<1>5. CASE \/ \E f \in AllFiles : EditTree(f)
           \/ \E p \in AllParts : EditSpec(p)
           \/ UNCHANGED vars
  BY <1>5 DEF EditTree, EditSpec, vars, run, NotBegun
<1> QED
  BY <1>1, <1>2, <1>3, <1>4, <1>5 DEF Next, Step

-----------------------------------------------------------------------------
(* Runs that nothing disturbs.                                             *)

LEMMA UndisturbedStep ==
  TypeOK /\ Assembled /\ AllFinal /\ NotBegun /\ Undisturbed /\ [Next]_vars => Undisturbed'
<1> SUFFICES ASSUME TypeOK, Assembled, AllFinal, NotBegun, Undisturbed, [Next]_vars
             PROVE  Undisturbed'
  OBVIOUS
<1> USE DEF End
<1>1. CASE \/ \E p \in AllParts : EditSpec(p)
           \/ \E f \in AllFiles : EditTree(f)
  BY <1>1 DEF EditSpec, EditTree, Undisturbed
<1>2. CASE Generated \/ Report \/ Drained \/ Kill
  BY <1>2 DEF Generated, Report, Drained, Kill, Undisturbed
<1>3. ASSUME NEW checking \in BOOLEAN, NEW into \in Dirs, Start(checking, into)
      PROVE Undisturbed'
  <2>1. DOMAIN read' = {} /\ pc' = "reading"
    BY <1>3, NoEntries DEF Start
  <2> QED
    BY <2>1 DEF Undisturbed
<1>4. ASSUME NEW p \in AllParts, ReadSpec(p) PROVE Undisturbed'
  <2>1. CASE spec[p] = Missing
    BY <1>4, <2>1 DEF ReadSpec, Undisturbed
  <2>2. CASE spec[p] # Missing
    <3>1. /\ read' = [q \in DOMAIN read \cup {p} |-> IF q = p THEN spec[p] ELSE read[q]]
          /\ pc = "reading" /\ UNCHANGED <<pc, spec, calm>>
      BY <1>4, <2>2 DEF ReadSpec
    <3>2. calm => \A q \in DOMAIN read : read[q] = spec[q]
      BY <3>1 DEF Undisturbed
    <3> QED
      BY <3>1, <3>2 DEF Undisturbed
  <2> QED
    BY <2>1, <2>2
<1>5. CASE Build
  BY <1>5 DEF Build, Undisturbed
<1>6. CASE TidyDone
  BY <1>6 DEF TidyDone, run, Undisturbed, NotBegun
<1>7. ASSUME NEW f \in AllFiles, Take(f) \/ TidyOne(f) \/ Collect(f) PROVE Undisturbed'
  BY <1>7 DEF Take, TidyOne, Collect, Undisturbed
<1>8. ASSUME NEW f \in AllFiles, Truncate(f) PROVE Undisturbed'
  <2>1. /\ f \notin done /\ tree' = [tree EXCEPT ![dir][f] = Blank]
        /\ pc = "writing" /\ pc' = "filling" /\ UNCHANGED <<dir, read, spec, outs, done, calm>>
    BY <1>8, NextFileIn DEF Truncate, Left, run
  <2>2. \A g \in done : tree'[dir][g] = tree[dir][g]
    BY <2>1 DEF TypeOK
  <2> QED
    BY <2>1, <2>2 DEF Undisturbed
<1>9. ASSUME NEW f \in AllFiles, Write(f) PROVE Undisturbed'
  <2>1. /\ f \notin done /\ tree' = [tree EXCEPT ![dir][f] = outs[f]]
        /\ pc = "filling" /\ pc' = "writing" /\ UNCHANGED <<dir, read, spec, outs, calm>>
        /\ done' = done \cup {f}
    BY <1>9, NextFileIn DEF Write, Left
  <2>2. /\ \A g \in done : tree'[dir][g] = tree[dir][g]
        /\ tree'[dir][f] = outs[f]
    BY <2>1 DEF TypeOK
  <2> QED
    BY <2>1, <2>2 DEF Undisturbed
<1>10. ASSUME NEW f \in AllFiles, Compare(f) PROVE Undisturbed'
  <2>1. /\ f \notin done /\ done' = done \cup {f}
        /\ stale' = IF tree[dir][f] = outs[f] THEN stale ELSE stale \cup {f}
        /\ pc = "comparing" /\ UNCHANGED <<pc, tree, dir, read, spec, outs, calm>>
    BY <1>10, NextFileIn DEF Compare, Left
  <2> QED
    BY <2>1 DEF Undisturbed
<1>11. CASE UNCHANGED vars
  BY <1>11 DEF vars, run, Undisturbed
<1> QED
  BY <1>1, <1>2, <1>3, <1>4, <1>5, <1>6, <1>7, <1>8, <1>9, <1>10, <1>11 DEF Next, Step

\* At its end an undisturbed run has worked from the specifications as they are.
LEMMA ReadIsSpec ==
  ASSUME TypeOK, Assembled, Undisturbed, calm, pc \in {"comparing", "writing"}
  PROVE  read = spec /\ DOMAIN outs = Expected(spec)
<1>1. DOMAIN read = AllParts /\ read \in [AllParts -> Versions]
  BY DEF TypeOK, Assembled, Phases
<1>2. \A p \in AllParts : read[p] = spec[p]
  BY <1>1 DEF Undisturbed
<1>3. read = spec
  BY <1>1, <1>2 DEF TypeOK
<1> QED
  BY <1>3 DEF Assembled, Phases

\* What the verdict is about does not change between runs.
LEMMA FreshSame ==
  ASSUME UNCHANGED <<spec, tree, gen, dir>>
  PROVE  /\ TreeIsFresh' <=> TreeIsFresh
         /\ (\A f \in Expected(spec) : Holds(f))' <=> \A f \in Expected(spec) : Holds(f)
BY DEF TreeIsFresh, Holds, Expected, Kinds, Rendered, Text, Sources

LEMMA VerdictStep ==
  TypeOK /\ Assembled /\ AllFinal /\ NoVerdictYet /\ Undisturbed /\ VerdictTruthful
    /\ [Next]_vars => VerdictTruthful'
<1> SUFFICES ASSUME TypeOK, Assembled, AllFinal, NoVerdictYet, Undisturbed, VerdictTruthful,
                    [Next]_vars
             PROVE  VerdictTruthful'
  OBVIOUS
<1> USE DEF End
<1>1. CASE Report
  <2> SUFFICES ASSUME calm PROVE VerdictTruthful'
    BY <1>1 DEF Report, VerdictTruthful
  <2>1. /\ pc = "comparing" /\ DOMAIN outs \subseteq done
        /\ stale' = stale \cup Leftovers
        /\ verdict' = IF stale' = {} THEN "fresh" ELSE "stale"
        /\ UNCHANGED <<spec, tree, gen, dir, calm>>
    BY <1>1 DEF Report, Left
  <2>2. read = spec /\ DOMAIN outs = Expected(spec)
    BY <2>1, ReadIsSpec
  <2>3. \A f \in DOMAIN outs : f \in AllFiles /\ outs[f] = Rendered(spec, f)
    BY <2>1, <2>2, OutsAreFinal
  <2>4. stale = {f \in Expected(spec) : ~Holds(f)}
    BY <2>1, <2>2, <2>3 DEF Undisturbed, Holds, AllFinal
  <2>5. Leftovers = {f \in AllFiles \ Expected(spec) :
                       KindOf[f] \in Kinds /\ tree[dir][f] # NoFile}
    BY <2>2 DEF Leftovers
  <2>6. stale' = {} <=> TreeIsFresh
    BY <2>1, <2>4, <2>5, ExpectedFiles DEF TreeIsFresh
  <2>7. TreeIsFresh' <=> TreeIsFresh
    BY <2>1, FreshSame
  <2> QED
    BY <2>1, <2>6, <2>7 DEF VerdictTruthful
<1>2. CASE Generated
  <2> SUFFICES ASSUME calm PROVE VerdictTruthful'
    BY <1>2 DEF Generated, VerdictTruthful
  <2>1. /\ pc = "writing" /\ DOMAIN outs \subseteq done /\ verdict' = "generated"
        /\ UNCHANGED <<spec, tree, gen, dir, calm>>
    BY <1>2 DEF Generated, Left, run
  <2>2. read = spec /\ DOMAIN outs = Expected(spec)
    BY <2>1, ReadIsSpec
  <2>3. \A f \in DOMAIN outs : outs[f] = Rendered(spec, f) /\ tree[dir][f] = outs[f]
    BY <2>1, <2>2, OutsAreFinal DEF Undisturbed
  <2>4. \A f \in Expected(spec) : Holds(f)
    BY <2>2, <2>3 DEF Holds
  <2> QED
    BY <2>1, <2>4, FreshSame DEF VerdictTruthful
<1>3. CASE \/ \E p \in AllParts : EditSpec(p)
           \/ \E f \in AllFiles : EditTree(f)
  BY <1>3 DEF EditSpec, EditTree, VerdictTruthful
<1>4. ASSUME verdict' \notin {"fresh", "stale", "generated"} PROVE VerdictTruthful'
  BY <1>4 DEF VerdictTruthful
<1>5. ASSUME UNCHANGED <<spec, tree, gen, dir, calm, verdict>> PROVE VerdictTruthful'
  BY <1>5, FreshSame DEF VerdictTruthful
<1>6. CASE \/ \E checking \in BOOLEAN, into \in Dirs : Start(checking, into)
           \/ Drained \/ Kill
  BY <1>4, <1>6 DEF Start, Drained, Kill
<1>7. CASE \/ Build \/ TidyDone \/ \E p \in AllParts : ReadSpec(p)
           \/ \E f \in AllFiles : Take(f) \/ TidyOne(f) \/ Collect(f) \/ Compare(f)
           \/ UNCHANGED vars
  BY <1>4, <1>5, <1>7 DEF Build, TidyDone, ReadSpec, Take, TidyOne, Collect, Compare, vars, run
<1>8. CASE \E f \in AllFiles : Truncate(f) \/ Write(f)
  BY <1>4, <1>8 DEF Truncate, Write, NoVerdictYet
<1> QED
  BY <1>1, <1>2, <1>3, <1>6, <1>7, <1>8 DEF Next, Step

-----------------------------------------------------------------------------
(* Failures.                                                               *)

LEMMA NoVerdictStep == TypeOK /\ NoVerdictYet /\ [Next]_vars => NoVerdictYet'
<1> SUFFICES ASSUME TypeOK, NoVerdictYet, [Next]_vars PROVE NoVerdictYet'
  OBVIOUS
<1> USE DEF End, NoVerdictYet
<1>1. CASE \/ \E checking \in BOOLEAN, into \in Dirs : Start(checking, into)
           \/ Build \/ Drained \/ TidyDone \/ Generated \/ Report \/ Kill
           \/ \E p \in AllParts : ReadSpec(p) \/ EditSpec(p)
           \/ UNCHANGED vars
  BY <1>1 DEF Start, Build, Drained, TidyDone, Generated, Report, Kill, ReadSpec, EditSpec,
     vars, run
<1>2. CASE \E f \in AllFiles : \/ Take(f) \/ TidyOne(f) \/ Collect(f) \/ Truncate(f)
                               \/ Write(f) \/ Compare(f) \/ EditTree(f)
  BY <1>2 DEF Take, TidyOne, Collect, Truncate, Write, Compare, EditTree
<1> QED
  BY <1>1, <1>2 DEF Next, Step

\* Perltidy is not found only where there is none.
LEMMA NotFound ==
  ASSUME shell \in Shells, PerltidyBin = "none"
  PROVE  shell.found = {}
<1>1. shell.found \subseteq {"variable", "path", "home"}
  BY ShellsAreKnown DEF AllShells
<1> QED
  BY <1>1 DEF PerltidyBin

LEMMA InstalledStep == TypeOK /\ NoneInstalled /\ [Next]_vars => NoneInstalled'
<1> SUFFICES ASSUME TypeOK, NoneInstalled, [Next]_vars PROVE NoneInstalled'
  OBVIOUS
<1> USE DEF End, NoneInstalled
<1>1. CASE Build
  BY <1>1, NotFound DEF Build, TypeOK
<1>2. CASE \/ \E checking \in BOOLEAN, into \in Dirs : Start(checking, into)
           \/ Drained \/ TidyDone \/ Generated \/ Report \/ Kill
           \/ \E p \in AllParts : ReadSpec(p) \/ EditSpec(p)
           \/ UNCHANGED vars
  BY <1>2 DEF Start, Drained, TidyDone, Generated, Report, Kill, ReadSpec, EditSpec, vars, run
<1>3. CASE \E f \in AllFiles : \/ Take(f) \/ TidyOne(f) \/ Collect(f) \/ Truncate(f)
                               \/ Write(f) \/ Compare(f) \/ EditTree(f)
  BY <1>3 DEF Take, TidyOne, Collect, Truncate, Write, Compare, EditTree
<1> QED
  BY <1>1, <1>2, <1>3 DEF Next, Step

\* Whether perltidy takes a text depends on the text and on the shell.
LEMMA TidySame ==
  ASSUME shell' = shell, NEW text
  PROVE  TidyWorks(text)' <=> TidyWorks(text)
BY DEF TidyWorks, PerltidyLoads, PerltidyBin, PerltidyEnv

\* A failure stays one while the texts stay.
LEMMA ReasonKept ==
  ASSUME UNCHANGED <<outs, shell>>
  PROVE  Targets' = Targets /\ \A f : HasReason(f)' <=> HasReason(f)
<1>1. Targets' = Targets
  BY DEF Targets, IsPm
<1>2. \A f : TidyWorks(outs[f])' <=> TidyWorks(outs[f])
  BY DEF TidyWorks, PerltidyLoads, PerltidyBin, PerltidyEnv
<1> QED
  BY <1>1, <1>2 DEF HasReason

LEMMA ReasonStep ==
  TypeOK /\ NotBegun /\ NoVerdictYet /\ FailuresHaveReasons /\ [Next]_vars
    => FailuresHaveReasons'
<1> SUFFICES ASSUME TypeOK, NotBegun, NoVerdictYet, FailuresHaveReasons, [Next]_vars
             PROVE  FailuresHaveReasons'
  OBVIOUS
<1> USE DEF End
<1>1. CASE \/ \E checking \in BOOLEAN, into \in Dirs : Start(checking, into)
           \/ Kill
           \/ \E p \in AllParts : ReadSpec(p)
  <2>1. pc' \notin {"tidying", "draining"} /\ verdict' # "perltidy failed"
    BY <1>1 DEF Start, Kill, ReadSpec, NoVerdictYet, TypeOK
  <2> QED
    BY <2>1 DEF FailuresHaveReasons
<1>2. CASE Build
  BY <1>2 DEF Build, FailuresHaveReasons, NotBegun, NoVerdictYet
<1>3. ASSUME NEW f \in AllFiles, Take(f) PROVE FailuresHaveReasons'
  <2>1. f \in Targets
    BY <1>3, NextFileIn DEF Take
  <2>2. /\ UNCHANGED <<outs, shell, tidied, pc, verdict>> /\ running' = running \cup {f}
        /\ pc = "tidying"
    BY <1>3 DEF Take
  <2> QED
    BY <2>1, <2>2, ReasonKept DEF FailuresHaveReasons
<1>4. ASSUME NEW f \in AllFiles, TidyOne(f) PROVE FailuresHaveReasons'
  <2>1. /\ UNCHANGED <<outs, shell, pc, verdict>> /\ running' = running \ {f}
        /\ f \in running /\ pc \in {"tidying", "draining"}
        /\ DOMAIN tidied' = DOMAIN tidied \cup {f}
        /\ \A g \in DOMAIN tidied : g # f => tidied'[g] = tidied[g]
        /\ tidied'[f] = "failed" => ~TidyWorks(outs[f])
    BY <1>4 DEF TidyOne
  <2>2. f \in Targets
    BY <2>1 DEF FailuresHaveReasons
  <2>3. tidied'[f] = "failed" => HasReason(f)
    BY <2>1, <2>2 DEF HasReason
  <2> QED
    BY <2>1, <2>2, <2>3, ReasonKept DEF FailuresHaveReasons
<1>5. ASSUME NEW f \in AllFiles, Collect(f) PROVE FailuresHaveReasons'
  <2>1. CASE tidied[f] = "ok"
    <3>1. /\ outs' = [outs EXCEPT ![f] = Rendered(read, f)]
          /\ UNCHANGED <<pc, shell, tidied, running, verdict>> /\ pc = "tidying"
      BY <1>5, <2>1 DEF Collect
    <3>2. Targets' = Targets
      BY <3>1 DEF Targets, IsPm
    <3>3. ASSUME NEW g \in DOMAIN tidied, tidied[g] = "failed" PROVE HasReason(g)'
      <4>1. g # f /\ HasReason(g)
        BY <2>1, <3>1, <3>3 DEF FailuresHaveReasons
      <4>2. outs'[g] = outs[g] /\ g \in Targets'
        BY <3>1, <3>2, <4>1 DEF HasReason, Targets
      <4>3. TidyWorks(outs[g])' <=> TidyWorks(outs[g])
        BY <3>1, <4>2 DEF TidyWorks, PerltidyLoads, PerltidyBin, PerltidyEnv
      <4> QED
        BY <4>1, <4>2, <4>3 DEF HasReason
    <3> QED
      BY <3>1, <3>2, <3>3 DEF FailuresHaveReasons, NoVerdictYet
  <2>2. CASE tidied[f] # "ok"
    <3>1. /\ UNCHANGED <<outs, shell, tidied, running, verdict>> /\ f \in DOMAIN tidied
          /\ pc = "tidying"
      BY <1>5, <2>2 DEF Collect
    <3>2. HasReason(f) /\ f \in DOMAIN outs
      BY <2>2, <3>1 DEF FailuresHaveReasons, TypeOK, Targets
    <3> QED
      BY <3>1, <3>2, ReasonKept DEF FailuresHaveReasons
  <2> QED
    BY <2>1, <2>2
<1>6. CASE \/ Drained \/ TidyDone \/ Generated \/ Report
           \/ \E f \in AllFiles : Truncate(f) \/ Write(f) \/ Compare(f) \/ EditTree(f)
           \/ \E p \in AllParts : EditSpec(p)
           \/ UNCHANGED vars
  <2>1. /\ UNCHANGED <<outs, shell, tidied, running>>
        /\ pc' \in {"tidying", "draining"} => pc' = pc
        /\ verdict' = "perltidy failed" => pc = "draining" \/ verdict = "perltidy failed"
    BY <1>6 DEF Drained, TidyDone, Generated, Report, Truncate, Write, Compare, EditTree,
       EditSpec, vars, run
  <2> QED
    BY <2>1, ReasonKept DEF FailuresHaveReasons
<1> QED
  BY <1>1, <1>2, <1>3, <1>4, <1>5, <1>6 DEF Next, Step

-----------------------------------------------------------------------------
(* The invariant and what follows from it.                                 *)

LEMMA InvInit == Init => GenInv
<1> SUFFICES ASSUME Init PROVE GenInv
  OBVIOUS
<1>1. pc = "idle" /\ verdict = "none"
  BY DEF Init
<1>2. Assembled /\ AllFinal /\ NotBegun /\ NoVerdictYet /\ Undisturbed
  BY <1>1 DEF Assembled, AllFinal, NotBegun, NoVerdictYet, Undisturbed, Phases
<1>3. FailuresHaveReasons /\ NoneInstalled /\ VerdictTruthful
  BY <1>1 DEF FailuresHaveReasons, NoneInstalled, VerdictTruthful
<1> QED
  BY <1>2, <1>3, TypeInit DEF GenInv

LEMMA InvStep == GenInv /\ [Next]_vars => GenInv'
BY TypeStep, AssembledStep, FinalStep, NotBegunStep, NoVerdictStep, UndisturbedStep, ReasonStep,
   InstalledStep, VerdictStep DEF GenInv

(* Every state of a run is one its invariant describes, its types included.*)
THEOREM InvCorrect == Spec => []GenInv
BY InvInit, InvStep, PTL DEF Spec

(* What an undisturbed run says of the tree is so, whatever files, texts,  *)
(* specifications and kills there are.                                     *)
THEOREM VerdictCorrect == Spec => []VerdictTruthful
<1>1. GenInv => VerdictTruthful
  BY DEF GenInv
<1> QED
  BY <1>1, InvCorrect, PTL

LEMMA SingletonSeq ==
  ASSUME NEW S, NEW x \in S
  PROVE  <<x>> \in Seq(S)
OBVIOUS

LEMMA FrontOfConcat ==
  ASSUME NEW S, NEW a \in S, NEW s \in Seq(S)
  PROVE  a \in Range(<<a>> \o s)
<1>1. <<a>> \in Seq(S)
  BY SingletonSeq
<1>2. Len(<<a>>) = 1 /\ <<a>>[1] = a
  OBVIOUS
<1>3. Len(s) \in Nat
  BY LenProperties
<1>4. <<a>> \o s \in Seq(S) /\ Len(<<a>> \o s) = 1 + Len(s)
  BY <1>1, <1>2, ConcatProperties
<1>5. (<<a>> \o s)[1] = a
  BY <1>1, <1>2, <1>3, ConcatProperties
<1>6. 1 \in DOMAIN (<<a>> \o s)
  BY <1>3, <1>4, LenProperties
<1> QED
  BY <1>5, <1>6 DEF Range

\* With the local installation and no foreign root perltidy finds itself.
LEMMA LocalLoads ==
  ASSUME shell \in Shells, shell.root \in {"", "home lib"}, "home lib" \in shell.installed
  PROVE  PerltidyLoads
<1> DEFINE lib == IF shell.root = "" THEN "home lib" ELSE shell.root
<1>1. lib = "home lib"
  OBVIOUS
<1>2. CASE "home lib" \in Range(shell.perl5lib)
  BY <1>1, <1>2 DEF PerltidyLoads, PerltidyEnv
<1>3. CASE "home lib" \notin Range(shell.perl5lib)
  <2>1. PerltidyEnv = <<"home lib">> \o shell.perl5lib
    BY <1>1, <1>3 DEF PerltidyEnv
  <2>2. shell.perl5lib \in {<<>>, <<"home lib">>, <<"other lib">>}
    BY ShellsAreKnown DEF AllShells
  <2> DEFINE libs == {"home lib", "other lib"}
  <2>3. <<>> \in Seq(libs)
    BY EmptySeq
  <2>4. \A x \in libs : <<x>> \in Seq(libs)
    BY SingletonSeq
  <2>5. shell.perl5lib \in Seq(libs) /\ "home lib" \in libs
    BY <2>2, <2>3, <2>4
  <2> HIDE DEF libs
  <2>6. "home lib" \in Range(<<"home lib">> \o shell.perl5lib)
    BY <2>5, FrontOfConcat
  <2> QED
    BY <2>1, <2>6 DEF PerltidyLoads
<1> QED
  BY <1>2, <1>3

(* A run fails for want of perltidy, or because of the text of a file that *)
(* perltidy refuses, and for nothing else.                                 *)
THEOREM ReasonCorrect == Spec => []FailsForAReason
<1>1. GenInv => FailsForAReason
  <2> SUFFICES ASSUME GenInv PROVE FailsForAReason
    OBVIOUS
  <2>1. ASSUME verdict = "perltidy failed", shell.root \in {"", "home lib"},
               "home lib" \in shell.installed
        PROVE  \E f \in DOMAIN outs : IsPm(f) /\ Range(outs[f][2]) \cap Malformed # {}
    <3>1. PICK f \in DOMAIN outs : HasReason(f)
      BY <2>1 DEF GenInv, FailuresHaveReasons
    <3>2. PerltidyLoads
      BY <2>1, LocalLoads DEF GenInv, TypeOK
    <3> QED
      BY <3>1, <3>2 DEF HasReason, TidyWorks, Targets
  <2> QED
    BY <2>1 DEF FailsForAReason, GenInv, NoneInstalled
<1> QED
  BY <1>1, InvCorrect, PTL

-----------------------------------------------------------------------------
(* Refinement.  A slot is a file of one of the two directories.            *)

SlotTree == [s \in Slots |-> tree[s[1]][s[2]]]

\* Changing a file of a directory changes its slot and no other.
LEMMA SlotChanged ==
  ASSUME TypeOK, NEW d \in Dirs, NEW f \in AllFiles, NEW c,
         tree' = [tree EXCEPT ![d][f] = c]
  PROVE  /\ <<d, f>> \in Slots
         /\ SlotTree' = [SlotTree EXCEPT ![<<d, f>>] = c]
<1>1. <<d, f>> \in Slots
  BY DEF Slots
<1>2. ASSUME NEW s \in Slots
      PROVE  tree'[s[1]][s[2]] = IF s = <<d, f>> THEN c ELSE tree[s[1]][s[2]]
  <2>1. PICK e \in Dirs, g \in AllFiles : s = <<e, g>>
    BY DEF Slots
  <2>2. tree'[e][g] = IF e = d /\ g = f THEN c ELSE tree[e][g]
    BY DEF TypeOK
  <2>3. s[1] = e /\ s[2] = g /\ (s = <<d, f>> <=> e = d /\ g = f)
    BY <2>1
  <2> QED
    BY <2>2, <2>3
<1> QED
  BY <1>1, <1>2 DEF SlotTree

LEMMA SlotSame ==
  ASSUME UNCHANGED tree
  PROVE  UNCHANGED SlotTree
BY DEF SlotTree

\* Another phase of the same job.
LEMMA JobSame ==
  ASSUME UNCHANGED <<dir, outs, done>>, (pc = "idle") <=> (pc' = "idle"), Writing' <=> Writing
  PROVE  UNCHANGED Job
BY DEF Job, Left

LEMMA RefineInit == Init => Contract!Init
<1> SUFFICES ASSUME Init PROVE Contract!Init
  OBVIOUS
<1>1. SlotTree \in [Slots -> Contents]
  BY TypeInit DEF SlotTree, Slots, TypeOK
<1>2. Job = [phase |-> "idle"]
  BY DEF Init, Job
<1> QED
  BY <1>1, <1>2 DEF Contract!Init, Contract!Idle, SlotTree

LEMMA RefineStep == GenInv /\ [Next]_vars => [Contract!Next]_<<SlotTree, Job>>
<1> SUFFICES ASSUME GenInv, [Next]_vars PROVE Contract!Next \/ UNCHANGED <<SlotTree, Job>>
  OBVIOUS
<1> USE DEF End
<1>t. TypeOK /\ Assembled /\ AllFinal
  BY DEF GenInv
<1>1. ASSUME NEW checking \in BOOLEAN, NEW into \in Dirs, Start(checking, into)
      PROVE  Contract!Begin
  BY <1>1, SlotSame DEF Start, Contract!Begin, Contract!Idle, Contract!Preparing, Job, Writing,
     SlotTree
<1>2. ASSUME pc # "idle", ~Writing, pc' = "idle", UNCHANGED tree
      PROVE  Contract!GiveUp
  BY <1>2, SlotSame DEF Contract!GiveUp, Contract!Idle, Contract!Preparing, Job, SlotTree
<1>3. ASSUME pc # "idle", ~Writing, pc' # "idle", ~Writing', UNCHANGED tree
      PROVE  UNCHANGED <<SlotTree, Job>>
  BY <1>3, SlotSame DEF Job
<1>4. CASE \/ Build \/ Drained \/ Report \/ (TidyDone /\ pc' # "writing")
           \/ \E p \in AllParts : ReadSpec(p)
           \/ \E f \in AllFiles : Take(f) \/ TidyOne(f) \/ Collect(f) \/ Compare(f)
  <2>1. UNCHANGED tree /\ pc # "idle" /\ ~Writing /\ (pc' # "idle" => ~Writing')
    BY <1>4, <1>t DEF Build, Drained, Report, TidyDone, ReadSpec, Take, TidyOne, Collect, Compare,
       Writing
  <2> QED
    BY <2>1, <1>2, <1>3 DEF Contract!Next
<1>5. CASE TidyDone /\ pc' = "writing"
  <2>1. /\ pc = "tidying" /\ pc' = "writing" /\ collected = Targets /\ done = {}
        /\ UNCHANGED <<tree, dir, outs, done, read>>
    BY <1>5 DEF TidyDone, run, GenInv, NotBegun
  <2> DEFINE goal == [s \in {dir} \X (DOMAIN outs) |-> outs[s[2]]]
  <2>2. /\ Job = [phase |-> "preparing"]
        /\ Job' = [phase |-> "replacing", goal |-> goal, left |-> {dir} \X (DOMAIN outs)]
    BY <2>1 DEF Job, Writing, Left
  <2>3. DOMAIN goal = {dir} \X (DOMAIN outs) /\ DOMAIN goal \subseteq Slots
    BY <1>t DEF TypeOK, Slots
  <2>4. ASSUME NEW s \in DOMAIN goal PROVE goal[s] \in Finals[s]
    <3>1. PICK f \in DOMAIN outs : s = <<dir, f>>
      BY <2>3
    <3>2. f \in AllFiles /\ s[2] = f /\ s \in Slots
      BY <3>1, <2>3, <1>t DEF TypeOK
    <3>3. outs[f] = Rendered(read, f) /\ read \in [AllParts -> Versions]
      BY <2>1, <3>1, <1>t DEF Assembled, TypeOK, Phases
    <3>4. outs[f] \in Texts(f)
      BY <3>2, <3>3, RenderedContent
    <3> QED
      BY <3>2, <3>4 DEF Finals
  <2>5. Contract!Settle
    BY <2>1, <2>2, <2>3, <2>4, SlotSame DEF Contract!Settle, Contract!Preparing,
       Contract!Replacing, SlotTree
  <2> QED
    BY <2>5 DEF Contract!Next
<1>6. ASSUME NEW f \in AllFiles, NEW s \in Slots, s = <<dir, f>>, Truncate(f)
      PROVE  Contract!Clear(s)
  <2>1. /\ pc = "writing" /\ pc' = "filling" /\ f \in Left
        /\ tree' = [tree EXCEPT ![dir][f] = Blank] /\ UNCHANGED <<dir, outs, done>>
    BY <1>6, NextFileIn DEF Truncate, run
  <2>2. Job.phase = "replacing" /\ <<dir, f>> \in Job.left /\ UNCHANGED Job
    BY <2>1 DEF Job, Writing, Left
  <2>3. SlotTree' = [SlotTree EXCEPT ![<<dir, f>>] = Blank]
    BY <2>1, <1>t, SlotChanged DEF TypeOK
  <2> QED
    BY <1>6, <2>2, <2>3 DEF Contract!Clear, SlotTree
<1>7. ASSUME NEW f \in AllFiles, NEW s \in Slots, s = <<dir, f>>, Write(f)
      PROVE  Contract!Fill(s)
  <2>1. /\ pc = "filling" /\ pc' = "writing" /\ f \in Left /\ f \in DOMAIN outs
        /\ tree' = [tree EXCEPT ![dir][f] = outs[f]] /\ UNCHANGED <<dir, outs>>
        /\ done' = done \cup {f}
    BY <1>7, NextFileIn DEF Write, Left
  <2> DEFINE goal == [x \in {dir} \X (DOMAIN outs) |-> outs[x[2]]]
  <2>2. /\ Job  = [phase |-> "replacing", goal |-> goal, left |-> {dir} \X Left]
        /\ Job' = [phase |-> "replacing", goal |-> goal, left |-> {dir} \X Left']
    BY <2>1 DEF Job, Writing
  <2>3. {dir} \X Left' = ({dir} \X Left) \ {<<dir, f>>} /\ <<dir, f>> \in {dir} \X Left
    BY <2>1 DEF Left
  <2>4. goal[<<dir, f>>] = outs[f]
    BY <2>1
  <2>5. SlotTree' = [SlotTree EXCEPT ![<<dir, f>>] = outs[f]]
    BY <2>1, <1>t, SlotChanged DEF TypeOK
  <2> HIDE DEF goal
  <2>6. Job.phase = "replacing" /\ <<dir, f>> \in Job.left /\ Job.goal = goal
    BY <2>2, <2>3
  <2> DEFINE left == {dir} \X Left
  <2>7. Job' = [Job EXCEPT !.left = @ \ {<<dir, f>>}]
    <3>1. Job = [phase |-> "replacing", goal |-> goal, left |-> left]
      BY <2>2
    <3>2. Job' = [phase |-> "replacing", goal |-> goal, left |-> left \ {<<dir, f>>}]
      BY <2>2, <2>3
    <3> HIDE DEF left
    <3> QED
      BY <3>1, <3>2
  <2>8. SlotTree' = [SlotTree EXCEPT ![<<dir, f>>] = Job.goal[<<dir, f>>]]
    BY <2>4, <2>5, <2>6
  <2> QED
    BY <1>7, <2>6, <2>7, <2>8 DEF Contract!Fill, SlotTree
<1>8. CASE Generated
  <2>1. /\ pc = "writing" /\ pc' = "idle" /\ Left = {} /\ UNCHANGED <<tree>>
    BY <1>8 DEF Generated
  <2>2. Job.phase = "replacing" /\ Job.left = {} /\ Job' = [phase |-> "idle"]
    BY <2>1 DEF Job, Writing
  <2> QED
    BY <2>1, <2>2, SlotSame DEF Contract!Finish, Contract!Idle, Contract!Next, SlotTree
<1>9. CASE \E p \in AllParts : EditSpec(p)
  <2>1. UNCHANGED <<tree, dir, outs, done, pc>>
    BY <1>9 DEF EditSpec, run
  <2> QED
    BY <2>1, SlotSame, JobSame DEF Writing
<1>10. ASSUME NEW f \in AllFiles, NEW s \in Slots, s = <<"lib", f>>, EditTree(f)
       PROVE  Contract!Tamper(s)
  <2>1. PICK c \in {NoFile, Foreign} : tree' = [tree EXCEPT !["lib"][f] = c]
    BY <1>10 DEF EditTree
  <2>2. c \in Contents /\ "lib" \in Dirs
    BY DEF Contents, Dirs
  <2>3. SlotTree' = [SlotTree EXCEPT ![<<"lib", f>>] = c]
    BY <2>1, <2>2, <1>t, SlotChanged
  <2>4. UNCHANGED Job
    BY <1>10, JobSame DEF EditTree, run, Writing
  <2> QED
    BY <1>10, <2>2, <2>3, <2>4 DEF Contract!Tamper, SlotTree
<1>11. CASE Kill
  <2>1. pc # "idle" /\ pc' = "idle" /\ UNCHANGED tree
    BY <1>11 DEF Kill
  <2>2. Job # [phase |-> "idle"] /\ Job' = [phase |-> "idle"]
    BY <2>1 DEF Job
  <2> QED
    BY <2>1, <2>2, SlotSame DEF Contract!Die, Contract!Idle, Contract!Next, SlotTree
<1>12. CASE UNCHANGED vars
  BY <1>12, SlotSame, JobSame DEF vars, run, Writing
<1>13. dir \in Dirs /\ "lib" \in Dirs /\ \A d \in Dirs, f \in AllFiles : <<d, f>> \in Slots
  BY <1>t DEF TypeOK, Dirs, Slots
<1>14. CASE \E f \in AllFiles : Truncate(f) \/ Write(f) \/ EditTree(f)
  <2>1. PICK f \in AllFiles : Truncate(f) \/ Write(f) \/ EditTree(f)
    BY <1>14
  <2>2. PICK s \in Slots : s = IF EditTree(f) THEN <<"lib", f>> ELSE <<dir, f>>
    BY <1>13
  <2>3. Contract!Clear(s) \/ Contract!Fill(s) \/ Contract!Tamper(s)
    BY <1>6, <1>7, <1>10, <2>1, <2>2
  <2> QED
    BY <2>3 DEF Contract!Next
<1>15. CASE \E checking \in BOOLEAN, into \in Dirs : Start(checking, into)
  BY <1>1, <1>15 DEF Contract!Next
<1> QED
  BY <1>4, <1>5, <1>8, <1>9, <1>11, <1>12, <1>14, <1>15 DEF Next, Step

(* Whatever happens inside it, a run changes the tree only as RegenContract*)
(* allows: nothing before all texts are final, then one file at a time.    *)
THEOREM ContractImplemented == Spec => ImplementsRegenContract
BY RefineInit, RefineStep, InvCorrect, PTL
   DEF Spec, ImplementsRegenContract, Contract!Spec, SlotTree
=============================================================================
