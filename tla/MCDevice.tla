------------------------------ MODULE MCDevice ------------------------------
(***************************************************************************)
(* The commands for dynamic capacity, for firmware and for events, for     *)
(* TLC.  The five groups of commands have no variable in common, so that a *)
(* state of one of them does not depend on the steps of the others: a      *)
(* behaviour exercises one group, its subject, and the others stay in      *)
(* their initial states.  Of the groups only the events are also changed   *)
(* by an interrupt; a command of the others runs to its end at once.       *)
(***************************************************************************)
EXTENDS MCDcdExtents, DcdTags, DcdReports, FwTransfer, MCEventLog

VARIABLE subject

deviceVars == <<vars, tagVars, reportVars, fwVars, logVars, subject>>

\* One initial state of the groups that are not the subject is enough.
ReportsIdle == command = "extents" /\ versions = << << >> >>
FwIdle == slot = 1

DeviceInit ==
    /\ Init /\ TagsInit /\ ReportsInit /\ FwInit /\ LogInit
    /\ subject \in {"extents", "tags", "reports", "firmware", "events"}
    /\ subject # "reports" => ReportsIdle
    /\ subject # "firmware" => FwIdle

OnExtents(A) == subject = "extents" /\ A /\ UNCHANGED <<tagVars, reportVars, fwVars, logVars, subject>>
OnTags(A)    == subject = "tags" /\ A /\ UNCHANGED <<vars, reportVars, fwVars, logVars, subject>>
OnReports(A) == subject = "reports" /\ A /\ UNCHANGED <<vars, tagVars, fwVars, logVars, subject>>
OnFw(A)      == subject = "firmware" /\ A /\ UNCHANGED <<vars, tagVars, reportVars, logVars, subject>>
OnEvents(A)  == subject = "events" /\ A /\ UNCHANGED <<vars, tagVars, reportVars, fwVars, subject>>

DeviceNext ==
    \/ OnExtents(Next)
    \/ OnTags(TagsNext)
    \/ OnReports(ReportsNext)
    \/ OnFw(FwNext)
    \/ OnEvents(LogNext)

DeviceSpec ==
    /\ DeviceInit /\ [][DeviceNext]_deviceVars
    /\ WF_deviceVars(OnReports(Read))
    /\ WF_deviceVars(OnFw(GoOn))
    /\ WF_deviceVars(OnEvents(MainLoop))
    /\ SF_deviceVars(OnEvents(Service))

\* ReaderEnds, where a report is the subject.
EveryReaderEnds == subject = "reports" => ReaderEnds

\* Lists of every length up to four, with entries in any order.
MCContents == {<< >>, <<"a">>, <<"b", "a">>, <<"a", "b", "c">>, <<"c", "a", "b", "a">>}

\* Packages of one unit, of as many as a payload holds, and of more; the last
\* one fills its slot.
MCPackages == {<<1>>, <<2, 3>>, <<4, 5, 6>>, <<7, 8, 9, 10>>}
=============================================================================
