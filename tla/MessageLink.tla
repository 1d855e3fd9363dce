---------------------------- MODULE MessageLink ----------------------------
(***************************************************************************)
(* What the framing of ProtoClientSocket and ProtoServerSocket promises    *)
(* over one connection: each end takes packets off its outQueue and the    *)
(* other end's inQueue gets them whole, in order, none twice and none      *)
(* invented.  A packet marked as compressed may lose the mark; the client  *)
(* makes use of the mark only after the server did.  Either end may leave, *)
(* and what the other has not got by then may be lost.                     *)
(***************************************************************************)
EXTENDS Naturals, Sequences

CONSTANTS Message    \* [len : lengths, zipped : BOOLEAN]

Ends == {"client", "server"}

Other(e) == IF e = "client" THEN "server" ELSE "client"

VARIABLES taken,      \* taken[e]: packets end e took off its outQueue
          delivered   \* delivered[e]: packets of end e that the other end got

linkVars == <<taken, delivered>>

Nothing == [e \in Ends |-> <<>>]

LinkInit == taken = Nothing /\ delivered = Nothing

Take(e) ==
    /\ \E m \in Message : taken' = [taken EXCEPT ![e] = Append(@, m)]
    /\ UNCHANGED delivered

\* The server has announced that it compresses.
Announced == \E i \in 1..Len(taken["server"]) : taken["server"][i].zipped

MayMark(e, m) == m.zipped /\ (e = "client" => Announced)

DeliverNext(e) ==
    /\ Len(delivered[e]) < Len(taken[e])
    /\ LET m == taken[e][Len(delivered[e]) + 1]
       IN \E zipped \in {FALSE, MayMark(e, m)} :
              delivered' = [delivered EXCEPT ![e] = Append(@, [len |-> m.len, zipped |-> zipped])]
    /\ UNCHANGED taken

NewConnection == taken' = Nothing /\ delivered' = Nothing

LinkNext == (\E e \in Ends : Take(e) \/ DeliverNext(e)) \/ NewConnection

LinkSpec == LinkInit /\ [][LinkNext]_linkVars
=============================================================================
