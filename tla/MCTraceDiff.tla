----------------------------- MODULE MCTraceDiff -----------------------------
(* Small instances of TraceDiff for TLC: every trace of a one-bit signal with *)
(* changes up to time 3, next to a second signal that has few traces.         *)
EXTENDS TraceDiff, TLC

\* The trace that starts at v and changes at the times of a set.
TraceFrom(v, changes) ==
  LET times == SetToSortSeq({0} \cup changes, <)
  IN  [n \in DOMAIN times |-> << times[n], (v + n - 1) % 2 >>]

AllTraces == { TraceFrom(v, c) : v \in 0 .. 1, c \in SUBSET (1 .. 3) }
FewTraces == { TraceFrom(0, {}), TraceFrom(0, {2}) }

\* The first file has its signals at the top, the second under an instance, next
\* to one of the same name elsewhere; z is in the first file only.
MCInputs ==
  { << [end |-> 3, sigs |-> (<< "x" >> :> x1) @@ (<< "y" >> :> TraceFrom(0, {}))
                            @@ (<< "z" >> :> TraceFrom(0, {1}))],
       [end |-> 4, sigs |-> (<< "dut", "x" >> :> x2) @@ (<< "dut", "y" >> :> y2)
                            @@ (<< "tb", "x" >> :> TraceFrom(1, {}))] >> :
      x1 \in AllTraces, x2 \in AllTraces, y2 \in FewTraces }

\* Every window, and every way to choose the signals.
MCOptions ==
  [top1 : {<< >>}, top2 : {<< "dut" >>}, filter : {{}}, ignore : {{}}, list : {FALSE},
   after : {0, 1, 2, 4}, before : {0, 1, 3}]
  \cup [top1 : {<< >>, << "x" >>}, top2 : {<< >>, << "dut" >>, << "tb" >>},
        filter : {{}, {{<< "x" >>, << "z" >>}}}, ignore : {{}, {{<< "x" >>}}},
        list : BOOLEAN, after : {0}, before : {0}]
=============================================================================
