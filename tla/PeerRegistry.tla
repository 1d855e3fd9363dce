---------------------------- MODULE PeerRegistry ----------------------------
(***************************************************************************)
(* What a TCP server channel promises the application about its clients,   *)
(* with sockets, epoll and packets left out: the server keeps a map from   *)
(* descriptors to connections, it announces each change of the map as an   *)
(* OPEN or a CLOSE message on one FIFO feed, and the application, which    *)
(* reads the feed at its own pace, keeps a view of who is connected.       *)
(* A descriptor may be reused by a later connection.                       *)
(***************************************************************************)
EXTENDS Naturals, Sequences, FiniteSets

CONSTANTS Fds,       \* descriptors the server's accept() can return
          Conns,     \* connections clients ever make, each with its identity
          None,      \* no connection
          MaxPeers   \* the most clients served at once

VARIABLES live,   \* live[fd]: the connection served on fd, or None
          feed,   \* announcements not yet read by the application
          view    \* view[fd]: the connection the application believes is on fd

registryVars == <<live, feed, view>>

Announcement == [type : {"OPEN", "CLOSE"}, fd : Fds, conn : Conns]

\* What the application concludes from one announcement.
Effect(m) == IF m.type = "OPEN" THEN m.conn ELSE None

RegistryTypeOK ==
    /\ live \in [Fds -> Conns \cup {None}]
    /\ feed \in Seq(Announcement)
    /\ view \in [Fds -> Conns \cup {None}]

RegistryInit ==
    /\ live = [fd \in Fds |-> None]
    /\ feed = <<>>
    /\ view = [fd \in Fds |-> None]

Open(fd, c) ==
    /\ live[fd] = None
    /\ Cardinality({f \in Fds : live[f] # None}) < MaxPeers
    /\ live' = [live EXCEPT ![fd] = c]
    /\ feed' = Append(feed, [type |-> "OPEN", fd |-> fd, conn |-> c])
    /\ UNCHANGED view

Close(fd) ==
    /\ live[fd] # None
    /\ live' = [live EXCEPT ![fd] = None]
    /\ feed' = Append(feed, [type |-> "CLOSE", fd |-> fd, conn |-> live[fd]])
    /\ UNCHANGED view

Learn ==
    /\ feed # <<>>
    /\ view' = [view EXCEPT ![Head(feed).fd] = Effect(Head(feed))]
    /\ feed' = Tail(feed)
    /\ UNCHANGED live

RegistryNext ==
    \/ \E fd \in Fds, c \in Conns : Open(fd, c)
    \/ \E fd \in Fds : Close(fd)
    \/ Learn

RegistrySafety == RegistryInit /\ [][RegistryNext]_registryVars

-----------------------------------------------------------------------------
(* Once the application has read the whole feed its view of every          *)
(* descriptor is the server's map: the last announcement still in the feed *)
(* about a descriptor says what the map holds, and when the feed is silent *)
(* about it the view already does.                                         *)
ViewConverges ==
    \A fd \in Fds :
        \/ \E i \in 1..Len(feed) :
               /\ feed[i].fd = fd
               /\ \A j \in (i+1)..Len(feed) : feed[j].fd # fd
               /\ live[fd] = Effect(feed[i])
        \/ /\ \A j \in 1..Len(feed) : feed[j].fd # fd
           /\ live[fd] = view[fd]

(* If from some moment on no client comes or goes, the application knows    *)
(* for good who is connected.                                               *)
QuietConverges == <>[][Learn]_registryVars => <>[](view = live)
=============================================================================
