------------------------------ MODULE TraceDiff ------------------------------
(***************************************************************************)
(* diffvcd.py: print the first difference between two VCD files.           *)
(*                                                                         *)
(* A file is [end, sigs]: its last time stamp and a function from the      *)
(* names of its signals to their traces.  A name is the sequence of its    *)
(* path's components, an absent --top the empty prefix, and a regex the    *)
(* set of the keys it matches.  A trace is the sequence of << time, value  *)
(* >> pairs of vcdvcd's signal.tv: it starts with the dump of time 0 and   *)
(* has one pair for every change.  An --after or --before that is absent   *)
(* and one of 0 are both 0: the code tests their truth value.  VCDVCD is a *)
(* library and external.                                                   *)
(***************************************************************************)
EXTENDS Naturals, Sequences, FiniteSets, SequencesExt

CONSTANTS
  Values,         \* the values of signals
  Inputs,         \* the pairs of files, << file1, file2 >>
  Options         \* the command lines: top1, top2, filter, ignore, list, after, before

\* What a VCD reader gives for a signal of a file that ends at the time end
\* (external): the dump at time 0, and then the changes in their order.
IsTrace(tv, end) ==
  /\ tv \in Seq(Nat \X Values) /\ tv # << >> /\ tv[1][1] = 0
  /\ \A i, j \in DOMAIN tv : i < j => tv[i][1] < tv[j][1]
  /\ \A i \in DOMAIN tv : tv[i][1] <= end /\ (i > 1 => tv[i][2] # tv[i - 1][2])

ASSUME InputsAssumption ==
  \A pair \in Inputs, f \in 1 .. 2 :
    /\ pair[f].end \in Nat
    /\ DOMAIN pair[f].sigs \subseteq Seq(STRING) /\ IsFiniteSet(DOMAIN pair[f].sigs)
    /\ \A s \in DOMAIN pair[f].sigs : IsTrace(pair[f].sigs[s], pair[f].end)

ASSUME OptionsAssumption ==
  \A o \in Options :
    /\ o.top1 \in Seq(STRING) /\ o.top2 \in Seq(STRING)
    /\ o.list \in BOOLEAN /\ o.after \in Nat /\ o.before \in Nat

VARIABLES
  pc,             \* "start", "compare", or "done"
  files, opts,    \* the two files and the command line
  common_signals, \* the triples still to compare
  earliest_mismatches,
  printed,        \* what is written to stdout
  code            \* the exit code

vars == << pc, files, opts, common_signals, earliest_mismatches, printed, code >>

Init ==
  /\ pc = "start"
  /\ files \in Inputs /\ opts \in Options
  /\ common_signals = << >> /\ earliest_mismatches = << >>
  /\ printed = << >> /\ code = 0

-----------------------------------------------------------------------------
(* Which signals are compared *)

\* The signals under a prefix, by what is left of their names without it.
filter_signals(signals, prefix) ==
  { << SubSeq(s, Len(prefix) + 1, Len(s)), s >> : s \in { t \in signals : IsPrefix(prefix, t) } }

CommonSignals ==
  { << pair[1][1], pair[1][2], pair[2][2] >> :
      pair \in { p \in filter_signals(DOMAIN files[1].sigs, opts.top1)
                       \X filter_signals(DOMAIN files[2].sigs, opts.top2) : p[1][1] = p[2][1] } }

Selected ==
  { x \in CommonSignals : /\ \A f \in opts.filter : x[1] \in f
                          /\ \A i \in opts.ignore : x[1] \notin i }

\* --list, or no signal in common, or on to the comparison.  (The order of
\* common_signals.sort() is some order.)
Select ==
  /\ pc = "start"
  /\ common_signals' = SetToSeq(Selected)
  /\ printed' = IF opts.list THEN [n \in DOMAIN common_signals' |-> common_signals'[n][1]]
                ELSE << >>
  /\ code' = IF ~opts.list /\ Selected = {} THEN 1 ELSE 0
  /\ pc' = IF opts.list \/ Selected = {} THEN "done" ELSE "compare"
  /\ UNCHANGED << files, opts, earliest_mismatches >>

-----------------------------------------------------------------------------
(* Comparing one signal *)

\* signal[t]: the value of the last change up to t (external).
ValueAt(tv, t) ==
  LET n == CHOOSE k \in DOMAIN tv : /\ tv[k][1] <= t
                                    /\ \A j \in DOMAIN tv : tv[j][1] <= t => j <= k
  IN  tv[n][2]

\* tv without the pairs before the first one that is not before --after.
skip_time(tv) ==
  LET kept == { n \in DOMAIN tv : tv[n][1] >= opts.after }
  IN  IF opts.after = 0 THEN tv
      ELSE IF kept = {} THEN << >>
      ELSE SubSeq(tv, CHOOSE n \in kept : \A m \in kept : n <= m, Len(tv))

\* The changes of a signal up to the end of both files, those before --after cut off.
Changes(tv) ==
  LET endtime == IF files[1].end > files[2].end THEN files[1].end ELSE files[2].end
  IN  skip_time(Append(tv, << endtime, Last(tv)[2] >>))

\* Mutant: the later of the two times.
PairTimeLate(p, q) == IF p[1] >= q[1] THEN p[1] ELSE q[1]

PairTime(p, q) == IF p[1] <= q[1] THEN p[1] ELSE q[1]

\* The positions at which the loop over zip(tv1, tv2) leaves by its breaks, or
\* would: the pairs differ, and either lie beyond --before or stand for a value
\* that differs at the earlier of their times.
Stops(tv1, tv2) ==
  LET c1 == Changes(tv1) c2 == Changes(tv2) IN
  { n \in DOMAIN c1 \cap DOMAIN c2 :
      /\ c1[n] # c2[n]
      /\ LET t == PairTime(c1[n], c2[n])
         IN  \/ opts.before # 0 /\ t > opts.before
             \/ ValueAt(tv1, t) # ValueAt(tv2, t) }

\* Mutant: later mismatches are added to the earlier ones, which are kept.
NoteKeeping(m) ==
  IF earliest_mismatches = << >> \/ m.t <= earliest_mismatches[1].t
  THEN Append(earliest_mismatches, m) ELSE earliest_mismatches

Note(m) ==
  IF earliest_mismatches # << >> /\ m.t < earliest_mismatches[1].t THEN << m >>
  ELSE IF earliest_mismatches = << >> \/ m.t = earliest_mismatches[1].t
  THEN Append(earliest_mismatches, m)
  ELSE earliest_mismatches

Compare ==
  /\ pc = "compare" /\ common_signals # << >>
  /\ LET signal == Head(common_signals)
         tv1 == files[1].sigs[signal[2]]
         tv2 == files[2].sigs[signal[3]]
         stops == Stops(tv1, tv2)
         n == CHOOSE k \in stops : \A j \in stops : k <= j
         t == PairTime(Changes(tv1)[n], Changes(tv2)[n])
     IN  earliest_mismatches' =
           IF stops = {} \/ (opts.before # 0 /\ t > opts.before) THEN earliest_mismatches
           ELSE Note([t |-> t, v1 |-> ValueAt(tv1, t), v2 |-> ValueAt(tv2, t),
                      name |-> signal[1]])
  /\ common_signals' = Tail(common_signals)
  /\ UNCHANGED << pc, files, opts, printed, code >>

Report ==
  /\ pc = "compare" /\ common_signals = << >>
  /\ printed' = earliest_mismatches
  /\ code' = IF earliest_mismatches # << >> THEN 1 ELSE 0
  /\ pc' = "done"
  /\ UNCHANGED << files, opts, common_signals, earliest_mismatches >>

Done == pc = "done" /\ UNCHANGED vars

Next == Select \/ Compare \/ Report \/ Done

Spec == Init /\ [][Next]_vars

-----------------------------------------------------------------------------
(* Properties *)

\* The values of a signal in both files differ at a time, as of one time unit.
Differs(x, t) == ValueAt(files[1].sigs[x[2]], t) # ValueAt(files[2].sigs[x[3]], t)

Compared == pc = "done" /\ ~opts.list /\ Selected # {}

\* Every line printed is true, whatever the options: at that time, which is in
\* the window asked for, the signal, which passes the filters, has these two
\* different values.  All lines are of one time, and no signal has two.
ReportsAreReal ==
  Compared =>
    /\ \A n \in DOMAIN printed :
         /\ \E x \in Selected : /\ x[1] = printed[n].name
                                /\ printed[n].v1 = ValueAt(files[1].sigs[x[2]], printed[n].t)
                                /\ printed[n].v2 = ValueAt(files[2].sigs[x[3]], printed[n].t)
         /\ printed[n].v1 # printed[n].v2
         /\ opts.after <= printed[n].t
         /\ opts.before # 0 => printed[n].t <= opts.before
         /\ printed[n].t = printed[1].t
    /\ IsInjective(printed)

Horizon == 0 .. files[1].end \cup 0 .. files[2].end

InWindow(t) == opts.after <= t /\ (opts.before # 0 => t <= opts.before)

\* What is promised: the differences at the earliest time in the window at which
\* there is one.
FirstDifferences ==
  LET times == { t \in Horizon : InWindow(t) /\ \E x \in Selected : Differs(x, t) }
      first == CHOOSE t \in times : \A u \in times : t <= u
  IN  IF times = {} THEN {}
      ELSE { [t |-> first, v1 |-> ValueAt(files[1].sigs[x[2]], first),
              v2 |-> ValueAt(files[2].sigs[x[3]], first), name |-> x[1]] :
             x \in { y \in Selected : Differs(y, first) } }

\* "Print the first difference between two VCD files": without --after the
\* lines printed are all the differences at the earliest time there is one (up
\* to --before), although each signal is compared by its own changes only, and
\* the exit code is 1 exactly if there are any.
EarliestReported ==
  Compared /\ opts.after = 0 =>
    /\ ToSet(printed) = FirstDifferences
    /\ code = IF FirstDifferences = {} THEN 0 ELSE 1

\* diffvcd.py: "Print the first difference between two VCD files", "only compare
\* after time": a compared signal that becomes different in the window, having been
\* equal before in that window, makes for a report.
DifferenceAfterIsFound ==
  Compared =>
    \A x \in Selected, t \in Horizon :
      InWindow(t) /\ t > 0 /\ InWindow(t - 1) /\ Differs(x, t) /\ ~Differs(x, t - 1) => code = 1

=============================================================================
