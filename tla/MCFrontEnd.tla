----------------------------- MODULE MCFrontEnd -----------------------------
(***************************************************************************)
(* The front end, each part a unit of its own: signals and alarms of the   *)
(* application, the conversion to smodels, the three formats of programs   *)
(* and the facts of the reifier, the tables of theory data and domain      *)
(* modifications, atoms, dependency graphs, and the containers they are    *)
(* built on. The module of the queue with one consumer is extended, so     *)
(* that its own properties are those that are checked; it idles empty.     *)
(***************************************************************************)
EXTENDS MpScQueue

CONSTANTS Units, AppRuns, AppAlarms, AppCalls, SmAtoms, SmOps, SmSteps,
          AspAtoms, AspOps, AspSteps, TxtOps, TxtSteps, LpOps, LpSteps,
          ThTerms, ThElems, ThSteps, ThUpdates, PrgSteps, PrgEdges, DomAdds,
          GrNodes, GrEdges, GrCalls, Keys, ScoreMax, HeapLen, LeftCells,
          RightCells, InlineCells, LrSteps, RfAtoms, RfOps, RfSteps

ASSUME UnitsAssumption == Units \subseteq {"app", "convert", "aspif", "text",
    "smodels", "theory", "program", "domain", "sccs", "ext", "queue", "heap",
    "sequence", "reify", "mpsc"}

VARIABLES
  unit,   \* the unit whose steps this behaviour takes
  appBase, slot, alarm, thr, appLeft,
  sm, outp, given,
  wr, file, rd, seen, asked,
  tw, terms, text, wish,
  lpOut, lpFile, lpIn, lpGot, lpAsked,
  thTerms, thElems, thAtoms, thFrame, thBorn, thCount,
  atom, store, supported, prgSteps,
  entries, merged, wanted,
  tarjan,
  ext, extHist,
  heap, indices, score,
  slice, heaped, content,
  lrSeq, cells, lefts, rights, lrSteps,
  rf, rfFacts, rfGiven

App == INSTANCE AppSignals
Convert == INSTANCE SmodelsConvert
Aspif == INSTANCE AspifFormat
Text == INSTANCE TextFormat
Smodels == INSTANCE SmodelsFormat
Theory == INSTANCE TheoryTables
Program == INSTANCE ProgramTables
Graphs == INSTANCE DepGraphs
Boxes == INSTANCE Containers
Reify == INSTANCE ReifyFacts

appState == <<appBase, slot, alarm, thr, appLeft>>
convertState == <<sm, outp, given>>
aspifState == <<wr, file, rd, seen, asked>>
textState == <<tw, terms, text, wish>>
smodelsState == <<lpOut, lpFile, lpIn, lpGot, lpAsked>>
theoryState == <<thTerms, thElems, thAtoms, thFrame, thBorn, thCount>>
programState == <<atom, store, supported, prgSteps>>
domainState == <<entries, merged, wanted>>
sccsState == <<tarjan>>
extState == <<ext, extHist>>
queueState == <<heap, indices, score>>
heapState == <<slice, heaped, content>>
sequenceState == <<lrSeq, cells, lefts, rights, lrSteps>>
reifyState == <<rf, rfFacts, rfGiven>>

\* The variables of a unit that is not taken stay idle.
Init ==
  /\ unit \in Units
  /\ IF unit = "app" THEN App!AppInit
     ELSE /\ appBase = "idle" /\ slot = "idle" /\ alarm = "idle"
          /\ thr = "idle" /\ appLeft = "idle"
  /\ IF unit = "convert" THEN Convert!SmInit
     ELSE /\ sm = "idle" /\ outp = "idle" /\ given = "idle"
  /\ IF unit = "aspif" THEN Aspif!AspInit
     ELSE /\ wr = "idle" /\ file = "idle" /\ rd = "idle" /\ seen = "idle"
          /\ asked = "idle"
  /\ IF unit = "text" THEN Text!TxtInit
     ELSE /\ tw = "idle" /\ terms = "idle" /\ text = "idle" /\ wish = "idle"
  /\ IF unit = "smodels" THEN Smodels!LpInit
     ELSE /\ lpOut = "idle" /\ lpFile = "idle" /\ lpIn = "idle"
          /\ lpGot = "idle" /\ lpAsked = "idle"
  /\ IF unit = "theory" THEN Theory!ThInit
     ELSE /\ thTerms = "idle" /\ thElems = "idle" /\ thAtoms = "idle"
          /\ thFrame = "idle" /\ thBorn = "idle" /\ thCount = "idle"
  /\ IF unit = "program" THEN Program!PrgInit
     ELSE /\ atom = "idle" /\ store = "idle" /\ supported = "idle"
          /\ prgSteps = "idle"
  /\ IF unit = "domain" THEN Program!DomInit
     ELSE /\ entries = "idle" /\ merged = "idle" /\ wanted = "idle"
  /\ IF unit = "sccs" THEN Graphs!SccInit
     ELSE /\ tarjan = "idle"
  /\ IF unit = "ext" THEN Graphs!ExtInit
     ELSE /\ ext = "idle" /\ extHist = "idle"
  /\ IF unit = "queue" THEN Boxes!QueueInit
     ELSE /\ heap = "idle" /\ indices = "idle" /\ score = "idle"
  /\ IF unit = "heap" THEN Boxes!HeapInit
     ELSE /\ slice = "idle" /\ heaped = "idle" /\ content = "idle"
  /\ IF unit = "sequence" THEN Boxes!LrInit
     ELSE /\ lrSeq = "idle" /\ cells = "idle" /\ lefts = "idle"
          /\ rights = "idle" /\ lrSteps = "idle"
  /\ IF unit = "reify" THEN Reify!RfInit
     ELSE /\ rf = "idle" /\ rfFacts = "idle" /\ rfGiven = "idle"
  /\ MpInit

Signal ==
  /\ unit = "app" /\ App!AppNext
  /\ UNCHANGED <<unit, convertState, aspifState, textState, smodelsState,
                 theoryState, programState, domainState, sccsState, extState,
                 queueState, heapState, sequenceState, reifyState, mpVars>>

ConvertProgram ==
  /\ unit = "convert" /\ Convert!SmNext
  /\ UNCHANGED <<unit, appState, aspifState, textState, smodelsState,
                 theoryState, programState, domainState, sccsState, extState,
                 queueState, heapState, sequenceState, reifyState, mpVars>>

CopyAspif ==
  /\ unit = "aspif" /\ Aspif!AspNext
  /\ UNCHANGED <<unit, appState, convertState, textState, smodelsState,
                 theoryState, programState, domainState, sccsState, extState,
                 queueState, heapState, sequenceState, reifyState, mpVars>>

PrintText ==
  /\ unit = "text" /\ Text!TxtNext
  /\ UNCHANGED <<unit, appState, convertState, aspifState, smodelsState,
                 theoryState, programState, domainState, sccsState, extState,
                 queueState, heapState, sequenceState, reifyState, mpVars>>

CopySmodels ==
  /\ unit = "smodels" /\ Smodels!LpNext
  /\ UNCHANGED <<unit, appState, convertState, aspifState, textState,
                 theoryState, programState, domainState, sccsState, extState,
                 queueState, heapState, sequenceState, reifyState, mpVars>>

FillTheory ==
  /\ unit = "theory" /\ Theory!ThNext
  /\ UNCHANGED <<unit, appState, convertState, aspifState, textState,
                 smodelsState, programState, domainState, sccsState, extState,
                 queueState, heapState, sequenceState, reifyState, mpVars>>

SupportAtom ==
  /\ unit = "program" /\ Program!PrgNext
  /\ UNCHANGED <<unit, appState, convertState, aspifState, textState,
                 smodelsState, theoryState, domainState, sccsState, extState,
                 queueState, heapState, sequenceState, reifyState, mpVars>>

AddDomain ==
  /\ unit = "domain" /\ Program!DomNext
  /\ UNCHANGED <<unit, appState, convertState, aspifState, textState,
                 smodelsState, theoryState, programState, sccsState, extState,
                 queueState, heapState, sequenceState, reifyState, mpVars>>

FindSccs ==
  /\ unit = "sccs" /\ Graphs!SccNext
  /\ UNCHANGED <<unit, appState, convertState, aspifState, textState,
                 smodelsState, theoryState, programState, domainState,
                 extState, queueState, heapState, sequenceState, reifyState,
                 mpVars>>

ExtendGraph ==
  /\ unit = "ext" /\ Graphs!ExtNext
  /\ UNCHANGED <<unit, appState, convertState, aspifState, textState,
                 smodelsState, theoryState, programState, domainState,
                 sccsState, queueState, heapState, sequenceState, reifyState,
                 mpVars>>

ChangeQueue ==
  /\ unit = "queue" /\ Boxes!QueueNext
  /\ UNCHANGED <<unit, appState, convertState, aspifState, textState,
                 smodelsState, theoryState, programState, domainState,
                 sccsState, extState, heapState, sequenceState, reifyState,
                 mpVars>>

SortHeap ==
  /\ unit = "heap" /\ Boxes!HeapNext
  /\ UNCHANGED <<unit, appState, convertState, aspifState, textState,
                 smodelsState, theoryState, programState, domainState,
                 sccsState, extState, queueState, sequenceState, reifyState,
                 mpVars>>

PushSequence ==
  /\ unit = "sequence" /\ Boxes!LrNext
  /\ UNCHANGED <<unit, appState, convertState, aspifState, textState,
                 smodelsState, theoryState, programState, domainState,
                 sccsState, extState, queueState, heapState, reifyState,
                 mpVars>>

ReifyProgram ==
  /\ unit = "reify" /\ Reify!RfNext
  /\ UNCHANGED <<unit, appState, convertState, aspifState, textState,
                 smodelsState, theoryState, programState, domainState,
                 sccsState, extState, queueState, heapState, sequenceState,
                 mpVars>>

ShareQueue ==
  /\ unit = "mpsc" /\ MpNext
  /\ UNCHANGED <<unit, appState, convertState, aspifState, textState,
                 smodelsState, theoryState, programState, domainState,
                 sccsState, extState, queueState, heapState, sequenceState,
                 reifyState>>

Next == Signal \/ ConvertProgram \/ CopyAspif \/ PrintText \/ CopySmodels \/
     FillTheory \/ SupportAtom \/ AddDomain \/ FindSccs \/ ExtendGraph \/
     ChangeQueue \/ SortHeap \/ PushSequence \/ ReifyProgram \/ ShareQueue

vars == <<unit, appState, convertState, aspifState, textState, smodelsState,
          theoryState, programState, domainState, sccsState, extState,
          queueState, heapState, sequenceState, reifyState, mpVars>>

Spec == Init /\ [][Next]_vars

(***************************************************************************)
(* Properties. What each part says is stated with its definition in the    *)
(* module of the component.                                                *)
(***************************************************************************)

(* Signals: a handler finds its application alive, and an error is not     *)
(* reported as success.                                                    *)
SignalsSafe ==
  unit = "app" => App!HandlerSafe /\ App!ErrorExit

(* Alarms: one that was cancelled does not fire.                           *)
KilledStaysSilent ==
  [][unit = "app" => App!SilentStep]_vars

(* Conversion to smodels: every name is true when an atom or condition it  *)
(* was given to is, the rules mean the same, and externals and heuristics  *)
(* have their value, their condition and their atom.                       *)
ConversionKept ==
  unit = "convert" =>
    /\ Convert!ShownExactly /\ Convert!RulesKept
    /\ Convert!ExternalsKept /\ Convert!HeuristicsKept

(* Writers and readers: what the reader delivers is what the writer was    *)
(* given, and the facts of the reifier say what it was given.              *)
RoundTrips ==
  /\ unit = "aspif" => Aspif!ReadBack
  /\ unit = "smodels" => Smodels!LpReadBack
  /\ unit = "text" => Text!TextMeans
  /\ unit = "reify" => Reify!ReifiedMeans

(* Tables of a program: theory data of a step, the supports of an atom and *)
(* merged domain modifications are those that were added, and components   *)
(* and arcs of the dependency graphs are those of the edges that were.     *)
ProgramKept ==
  /\ unit = "theory" => Theory!StepSeen
  /\ unit = "program" => Program!SupportsKept
  /\ unit = "domain" => Program!MergeKeepsMeaning
  /\ unit = "sccs" => Graphs!SccsExact
  /\ unit = "ext" => Graphs!ArcsExact

(* Containers: the queue is a heap over its keys, and the left-right       *)
(* sequence keeps both sides.                                              *)
ContainersKept ==
  /\ unit = "queue" => Boxes!QueueOrdered
  /\ unit = "sequence" => Boxes!BothKept

(* Heap functions keep the values, and sort_heap sorts.                    *)
HeapsSort ==
  [][unit = "heap" => Boxes!HeapsSortStep]_vars
=============================================================================
