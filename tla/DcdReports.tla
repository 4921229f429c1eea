----------------------------- MODULE DcdReports -----------------------------
(***************************************************************************)
(* The commands that report a list in pages (cxl_dcd.c): the extent list   *)
(* of the device (4801h), the extent list of a host (5603h), the regions   *)
(* of a host (5601h) and the tags (5608h).  Each command sees the list as  *)
(* it is at that moment; between two commands the list may change, and     *)
(* only the generation number tells.  A reader has to put together one     *)
(* list from the pages: it asks for the header, then for everything, for   *)
(* less if that is too large, and starts again when the list has changed.  *)
(*                                                                         *)
(* The lists and their generation numbers are only used in the code, as is *)
(* the reader; the handlers are operators that return the answer.  A       *)
(* definition marked "mutant" is a faulty variant of the one after it.     *)
(***************************************************************************)
EXTENDS Integers, Sequences

CONSTANTS Entries,     \* of the lists
          Contents,    \* what a list may hold
          Room,        \* entries that CXL_MAX_PAYLOAD_SIZE has room for
          MaxVersions  \* bound on the changes of the list

ASSUME ReportsAssumption ==
    /\ Contents \subseteq Seq(Entries)
    /\ Room \in Nat \ {0} /\ MaxVersions \in Nat \ {0}

Commands == {"extents", "hostExtents", "hostRegions", "tags"}

VARIABLES command,   \* what is being read
          versions,  \* all lists there have been; the last one is the current
          count,     \* how much the reader asks for; 0 for the header
          got,       \* what it has received
          seen,      \* the generation number that came with it; 0 if none
          ended

reportVars == <<command, versions, count, got, seen, ended>>
readerVars == <<count, got, seen, ended>>

generation == Len(versions)
list == versions[generation]

ReportsInit ==
    /\ command \in Commands
    /\ versions \in {<<c>> : c \in Contents}
    /\ count = 0 /\ got = << >> /\ seen = 0 /\ ended = FALSE

-----------------------------------------------------------------------------
(* The handlers.                                                           *)

Refused(why) == [code |-> why, total |-> 0, generation |-> 0,
                 returned |-> 0, items |-> << >>]

Answer(n, items) == [code |-> "SUCCESS", total |-> Len(list),
                     generation |-> generation, returned |-> n, items |-> items]

PageLengthUncapped(start, n) == Len(list) - start  \* mutant

PageLength(start, n) == IF Len(list) - start > n THEN n ELSE Len(list) - start

ItemsFromFront(start, n) == SubSeq(list, 1, n)  \* mutant

Items(start, n) == SubSeq(list, start + 1, start + n)

Page(start, n) == IF n > Room THEN Refused("INTERNAL_ERROR")
                  ELSE Answer(n, Items(start, n))

\* To begin right behind the last extent is allowed.
GetExtentList(start, n) ==
    IF start > Len(list) THEN Refused("INVALID_INPUT")
    ELSE IF n = 0 THEN Answer(0, << >>)
    ELSE Page(start, PageLength(start, n))

GetRegionExtentLists(start, n) ==
    IF start > Len(list) THEN Refused("INVALID_INPUT")
    ELSE IF n = 0 THEN Answer(0, << >>)
    ELSE Page(start, PageLength(start, n))

\* Here it is not allowed, and there is no generation number.
GetHostRegions(start, n) ==
    IF start >= Len(list) THEN Refused("INVALID_INPUT")
    ELSE [Page(start, PageLength(start, n)) EXCEPT !.generation = 0]

\* The header alone tells how many tags are left as if they were returned.
ListTags(start, n) ==
    IF start > Len(list) THEN Refused("INVALID_INPUT")
    ELSE IF n = 0 THEN Answer(Len(list) - start, << >>)
    ELSE Page(start, PageLength(start, n))

Handler(start, n) ==
    CASE command = "extents"     -> GetExtentList(start, n)
      [] command = "hostExtents" -> GetRegionExtentLists(start, n)
      [] command = "hostRegions" -> GetHostRegions(start, n)
      [] command = "tags"        -> ListTags(start, n)

-----------------------------------------------------------------------------
(* The device and the reader.                                              *)

\* The regions do not change: 5602h, which would change them, is refused as
\* long as nothing has filled g_dcd_info.
Change(c) ==
    /\ command # "hostRegions"
    /\ generation < MaxVersions
    /\ versions' = Append(versions, c)
    /\ UNCHANGED <<command, readerVars>>

ReadAgain == count' = 0 /\ got' = << >> /\ seen' = 0 /\ UNCHANGED ended

\* A host without regions refuses every start index.
IsRefused(a) ==
    /\ a.code = "INVALID_INPUT"
    /\ IF command = "hostRegions"
       THEN ended' = TRUE /\ UNCHANGED <<count, got, seen>>
       ELSE ReadAgain

TooLarge(a) ==
    /\ a.code = "INTERNAL_ERROR"
    /\ count' = count \div 2
    /\ UNCHANGED <<got, seen, ended>>

Changed(a) ==
    /\ a.code = "SUCCESS" /\ seen # 0 /\ a.generation # seen
    /\ ReadAgain

Header(a) ==
    /\ a.code = "SUCCESS" /\ count = 0
    /\ count' = a.total /\ seen' = a.generation
    /\ ended' = (a.total = 0)
    /\ UNCHANGED got

NextPage(a) ==
    /\ a.code = "SUCCESS" /\ count > 0 /\ a.generation = seen
    /\ got' = got \o a.items
    /\ ended' = (Len(got) + a.returned = a.total)
    /\ UNCHANGED <<count, seen>>

Read ==
    /\ ~ended
    /\ LET a == Handler(Len(got), count)
       IN IsRefused(a) \/ TooLarge(a) \/ Changed(a) \/ Header(a) \/ NextPage(a)
    /\ UNCHANGED <<command, versions>>

ReportsNext == Read \/ \E c \in Contents : Change(c)

\* A reader goes on until it has ended.
ReportsSpec == ReportsInit /\ [][ReportsNext]_reportVars /\ WF_reportVars(Read)

-----------------------------------------------------------------------------
(* Correctness properties.                                                 *)

\* However often the list changed between two commands, what a reader ends
\* with is a list the device once had, the one of the generation number it was
\* told, and never the front of one list with the end of another.
ReadWhole ==
    ended => got = IF command = "hostRegions" THEN list
                   ELSE versions[seen]

\* Every reader ends: whatever the size of the list, there is a page size that
\* is answered, a page never repeats the one before, and the reader can tell
\* the last page.
ReaderEnds == ~ended ~> ended
=============================================================================
