---------------------------- MODULE SectorStore ----------------------------
(***************************************************************************)
(* What the disk layer promises FatFs: sectors, and one request at a time. *)
(* A request touches no sector it was not asked for.  A read that reports  *)
(* success gives what is stored; a verified write that reports success has *)
(* stored all it was given.  A request that fails promises nothing.        *)
(***************************************************************************)
EXTENDS Functions

CONSTANTS
  Lbas, Data,   \* the card's sectors, what one holds
  Torn,         \* a sector whose programming was cut short
  None          \* no request; no answer yet

VARIABLES
  sectors,      \* the card
  request,      \* [op, verified, want]: want gives each sector asked for its
                \*   content; of a read, only its domain counts
  answer,       \* None, "ok" or "error"
  buffer        \* what a read has put where, per sector

Wants == UNION {[s -> Data] : s \in (SUBSET Lbas) \ {{}}}
Requests == [op : {"read", "write"}, verified : BOOLEAN, want : Wants]

Init ==
  /\ sectors \in [Lbas -> Data]
  /\ request = None /\ answer = None
  /\ buffer \in [Lbas -> Data \cup {None}]

Ask ==
  /\ request = None
  /\ request' \in Requests /\ answer' = None
  /\ sectors' = sectors

\* The sectors of a write change in any order, or not, or are torn.
Change ==
  /\ request # None /\ request.op = "write"
  /\ \A l \in Lbas : \/ sectors'[l] = sectors[l]
                     \/ /\ l \in DOMAIN request.want
                        /\ sectors'[l] \in {request.want[l], Torn}
  /\ UNCHANGED <<request, answer>>

Fill ==
  /\ request # None /\ buffer' # buffer
  /\ UNCHANGED <<sectors, request, answer>>

Stored == request.verified => Restrict(sectors, DOMAIN request.want) = request.want
Fetched == \A l \in DOMAIN request.want : buffer'[l] = sectors[l]

Answer ==
  /\ request # None /\ request' = None
  /\ answer' \in {"ok", "error"}
  /\ answer' = "ok" => IF request.op = "write" THEN Stored ELSE Fetched
  /\ sectors' = sectors

Next == Ask \/ Change \/ Fill \/ Answer

Spec == Init /\ [][Next]_<<sectors, request, answer, buffer>>
=============================================================================
