-------------------------------- MODULE Disk --------------------------------
(***************************************************************************)
(* What FatFs is promised of disk_read: the sectors asked for or a         *)
(* failure, and a failure only if the drive is not mounted or the card     *)
(* driver has failed in this call.  A sector may be that of any medium     *)
(* that was in use at the host in the same run of reads: those since       *)
(* another host was read last.  It is the one in use unless the medium has *)
(* been exchanged.                                                         *)
(***************************************************************************)
EXTENDS Integers, Sequences

CONSTANTS
    Hosts, NoHost,
    Media, NoMedium,
    Size        \* of every medium, in sectors

VARIABLES
    host,       \* the host in use
    medium,     \* the medium found at it
    readHost,   \* the host of the last read
    media,      \* the media of that run of reads
    mounted,    \* disk_initialize has been called
    request,    \* the sectors FatFs waits for
    faulty,     \* the card driver has failed since
    answer      \* to the last request, if there is one

driveVars == <<host, medium, mounted>>
runVars == <<readHost, media>>
vars == <<driveVars, runVars, request, faulty, answer>>

Request(n, cnt) == [start |-> n, cnt |-> cnt]
NoRequest == Request(0, 0)

\* The sectors of r, the i-th of them from from[i]
Sectors(from, r) == [i \in 1 .. r.cnt |-> <<from[i], r.start + i - 1>>]

Succeeded(data) == [ok |-> TRUE, data |-> data]
Failed == [ok |-> FALSE, data |-> <<>>]
NoAnswer == Failed

Init ==
    /\ host = NoHost /\ medium = NoMedium
    /\ readHost = NoHost /\ media = {}
    /\ mounted = FALSE
    /\ request = NoRequest
    /\ faulty = FALSE
    /\ answer = NoAnswer

Select ==
    /\ request = NoRequest
    /\ host' \in Hosts
    /\ medium' = NoMedium
    /\ UNCHANGED <<runVars, mounted, request, faulty, answer>>

Find ==
    /\ request = NoRequest
    /\ medium' \in Media
    /\ UNCHANGED <<host, runVars, mounted, request, faulty, answer>>

Mount ==
    /\ mounted' = TRUE
    /\ UNCHANGED <<host, medium, runVars, request, faulty, answer>>

\* The medium in use joins the run of reads, or starts another.
Ask ==
    /\ request = NoRequest
    /\ \E n \in 0 .. Size - 1, cnt \in 1 .. Size :
          n + cnt <= Size /\ request' = Request(n, cnt)
    /\ faulty' = FALSE
    /\ answer' = NoAnswer
    /\ \/ /\ mounted
          /\ readHost' = host
          /\ media' = (IF readHost = host THEN media ELSE {}) \cup ({medium} \ {NoMedium})
       \/ ~mounted /\ UNCHANGED runVars
    /\ UNCHANGED driveVars

Answer(a) ==
    /\ request # NoRequest
    /\ request' = NoRequest
    /\ answer' = a
    /\ UNCHANGED <<driveVars, runVars>>

Fault ==
    /\ request # NoRequest
    /\ faulty' = TRUE
    /\ UNCHANGED <<driveVars, runVars, request, answer>>

Refuse ==
    /\ faulty \/ ~mounted
    /\ Answer(Failed)
    /\ UNCHANGED faulty

Deliver ==
    /\ mounted
    /\ \E from \in [1 .. request.cnt -> media] : Answer(Succeeded(Sectors(from, request)))
    /\ UNCHANGED faulty

Next == Select \/ Find \/ Mount \/ Ask \/ Fault \/ Refuse \/ Deliver

Spec == Init /\ [][Next]_vars
=============================================================================
