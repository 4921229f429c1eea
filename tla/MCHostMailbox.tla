--------------------------- MODULE MCHostMailbox ----------------------------
(* Instances of HostMailbox for TLC.                                       *)
EXTENDS HostMailbox

Request(o, d) == [op |-> o, data |-> d]

MCOpcodes == {"GET_TIMESTAMP", "SET_TIMESTAMP", "GET_SUPPORTED_LOGS", "GET_LOG", "TRANSFER_FW"}

\* Well-formed requests and one of the wrong length for each command that
\* checks it, and one command that is not in the switch.
Plain ==
    {Request("GET_TIMESTAMP", << >>), Request("GET_SUPPORTED_LOGS", << >>),
     Request("GET_SUPPORTED_LOGS", <<1>>), Request("SET_TIMESTAMP", << >>),
     Request("GET_LOG", << >>), Request("TRANSFER_FW", <<1>>)}
    \cup {Request("SET_TIMESTAMP", <<t>>) : t \in Times}

\* Reads of the whole log at every size, some of them beyond its end, one that
\* begins behind it, one that begins before it, and one of negative length,
\* which is asked for while the log is empty.
MCWholeReads ==
    Plain \cup {Request("GET_LOG", <<0, EntrySize * l>>) : l \in 1 .. MaxNum}
          \cup {Request("GET_LOG", d) :
                    d \in {<<EntrySize * MaxNum, EntrySize>>, <<-EntrySize, EntrySize>>,
                           <<0, -EntrySize>>}}

\* Reads of every whole number of entries, from every entry.
MCAnyReads ==
    Plain \cup {Request("GET_LOG", <<EntrySize * o, EntrySize * l>>) :
                    o \in 0 .. MaxNum, l \in 1 .. MaxNum}
=============================================================================
