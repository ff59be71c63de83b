---------------------------- MODULE LobbyProofs ----------------------------
(* Theorems about module Lobby, for every set of connections, whatever is  *)
(* written to them and whatever the limit.                                 *)
EXTENDS Lobby, SequenceTheorems, FiniteSetTheorems, TLAPS

PlacesOK(c) ==
    /\ pc[Reader(c)] \in ReaderPlace \cup InRemoveClient
    /\ pc[Writer(c)] \in WriterPlace \cup InRemoveClient
    /\ pc[Phantom(c)] \in {"idle"} \cup InRemoveClient

(* The strengthening, connection by connection: whoever is about to take   *)
(* it off the list has closed its socket, and none of its threads has      *)
(* begun before it was accepted.                                           *)
Served(c) ==
    /\ PlacesOK(c)
    /\ open[c] => /\ pc[Reader(c)] \in {"reading", "body", "queues",
                                       "disconnect"}
                  /\ c \in clients \cup accepting
    /\ "erase" \in {pc[Reader(c)], pc[Writer(c)], pc[Phantom(c)]} => ~open[c]
    /\ pc[Reader(c)] = "none" => /\ c \notin clients \cup accepting
                                 /\ pc[Writer(c)] = "idle"
                                 /\ pc[Phantom(c)] = "idle"

ListInv ==
    /\ DOMAIN pc = Thread
    /\ open \in [Conn -> BOOLEAN]
    /\ accepting \subseteq Conn
    /\ clients \subseteq Conn
    /\ \A c \in Conn : Served(c)

Same(c) ==
    /\ pc'[Reader(c)] = pc[Reader(c)]
    /\ pc'[Writer(c)] = pc[Writer(c)]
    /\ pc'[Phantom(c)] = pc[Phantom(c)]
    /\ open'[c] = open[c]
    /\ c \in clients' <=> c \in clients
    /\ c \in accepting' <=> c \in accepting

-----------------------------------------------------------------------------
(* The threads of the connections are different ones.                      *)
LEMMA Threads ==
    ASSUME NEW c \in Conn, NEW d \in Conn
    PROVE  /\ Reader(c) \in Thread /\ Writer(c) \in Thread
           /\ Phantom(c) \in Thread
           /\ Reader(c) # Writer(d) /\ Reader(c) # Phantom(d)
           /\ Writer(c) # Phantom(d)
           /\ c # d => /\ Reader(c) # Reader(d)
                       /\ Writer(c) # Writer(d)
                       /\ Phantom(c) # Phantom(d)
  BY DEF Reader, Writer, Phantom, Thread, Role

LEMMA ThreadOf ==
    ASSUME NEW t \in Thread
    PROVE  \E c \in Conn :
              /\ Target(t) = c
              /\ \/ t = Reader(c) /\ t[2] = "reader"
                 \/ t = Writer(c) /\ t[2] = "writer"
                 \/ t = Phantom(c) /\ t[2] = "phantom"
  BY DEF Reader, Writer, Phantom, Thread, Role, Target

LEMMA Moves ==
    ASSUME DOMAIN pc = Thread, NEW t \in Thread, NEW from, NEW to,
           Go(t, from, to)
    PROVE  /\ DOMAIN pc' = Thread
           /\ pc[t] = from
           /\ pc'[t] = to
           /\ \A u \in Thread : u # t => pc'[u] = pc[u]
  BY DEF Go

(* A step that concerns one connection has to be looked at only there.     *)
LEMMA OnlyOne ==
    ASSUME ListInv, NEW c \in Conn,
           DOMAIN pc' = Thread, open' \in [Conn -> BOOLEAN],
           accepting' \subseteq Conn, clients' \subseteq Conn,
           \A d \in Conn : d # c => Same(d),
           Served(c)'
    PROVE  ListInv'
<1>1. ASSUME NEW d \in Conn, d # c
      PROVE  Served(d)'
  BY <1>1 DEF ListInv, Served, PlacesOK, Same
<1> QED
  BY <1>1 DEF ListInv

(* A thread of c takes a step that leaves the lists alone.                 *)
LEMMA OneMoves ==
    ASSUME ListInv, NEW c \in Conn, NEW t \in {Reader(c), Writer(c), Phantom(c)},
           NEW from, NEW to, Go(t, from, to),
           UNCHANGED <<open, accepting, clients>>,
           Served(c)'
    PROVE  ListInv'
<1>1. t \in Thread
  BY Threads
<1>2. DOMAIN pc' = Thread /\ \A u \in Thread : u # t => pc'[u] = pc[u]
  BY <1>1, Moves DEF ListInv
<1>3. \A d \in Conn : d # c => Same(d)
  BY <1>2, Threads DEF Same
<1> QED
  BY <1>2, <1>3, OnlyOne DEF ListInv

-----------------------------------------------------------------------------
(* The handlers: the reader of c goes on to read, or fails.                *)
LEMMA ReaderMoves ==
    ASSUME ListInv, NEW c \in Conn,
           NEW from \in {"reading", "body"},
           NEW to \in {"reading", "body", "queues"},
           Go(Reader(c), from, to),
           UNCHANGED <<open, accepting, clients>>
    PROVE  ListInv'
<1>1. /\ pc[Reader(c)] = from /\ pc'[Reader(c)] = to
      /\ pc'[Writer(c)] = pc[Writer(c)]
      /\ pc'[Phantom(c)] = pc[Phantom(c)]
  BY Threads, Moves DEF ListInv
<1>2. Served(c)'
  BY <1>1 DEF ListInv, Served, PlacesOK, ReaderPlace, InRemoveClient
<1> QED
  BY <1>2, OneMoves

LEMMA WriterMoves ==
    ASSUME ListInv, NEW c \in Conn, pc[Reader(c)] # "none",
           NEW from \in {"idle", "writing"},
           NEW to \in {"idle", "writing", "queues"},
           Go(Writer(c), from, to),
           UNCHANGED <<open, accepting, clients>>
    PROVE  ListInv'
<1>1. /\ pc[Writer(c)] = from /\ pc'[Writer(c)] = to
      /\ pc'[Reader(c)] = pc[Reader(c)]
      /\ pc'[Phantom(c)] = pc[Phantom(c)]
  BY Threads, Moves DEF ListInv
<1>2. Served(c)'
  BY <1>1 DEF ListInv, Served, PlacesOK, WriterPlace, InRemoveClient
<1> QED
  BY <1>2, OneMoves

THEOREM InitLists == Init => ListInv
<1> SUFFICES ASSUME Init
             PROVE  ListInv
  OBVIOUS
<1>1. ASSUME NEW c \in Conn
      PROVE  /\ pc[Reader(c)] = "none"
             /\ pc[Writer(c)] = "idle"
             /\ pc[Phantom(c)] = "idle"
             /\ ~open[c]
  BY <1>1, Threads DEF Init, Reader, Writer, Phantom
<1>2. \A c \in Conn : Served(c)
  BY <1>1 DEF Init, Served, PlacesOK, ReaderPlace, WriterPlace
<1> QED
  BY <1>2 DEF Init, ListInv

-----------------------------------------------------------------------------
(* Accepting.                                                              *)
LEMMA Accepting ==
    ASSUME ListInv, NEW c \in Conn,
           Accept(c) \/ Refuse(c) \/ Insert(c)
    PROVE  ListInv'
<1>1. CASE Accept(c)
  <2>1. /\ DOMAIN pc' = Thread
        /\ pc[Reader(c)] = "none" /\ pc'[Reader(c)] = "reading"
        /\ \A u \in Thread : u # Reader(c) => pc'[u] = pc[u]
    BY <1>1, Threads, Moves DEF Accept, ListInv
  <2>2. /\ open' = [open EXCEPT ![c] = TRUE]
        /\ accepting' = accepting \cup {c}
        /\ clients' = clients
    BY <1>1 DEF Accept
  <2>3. \A d \in Conn : d # c => Same(d)
    BY <2>1, <2>2, Threads DEF Same, ListInv
  <2>4. /\ pc'[Writer(c)] = "idle" /\ pc'[Phantom(c)] = "idle"
        /\ open'[c]
    BY <2>1, <2>2, Threads DEF ListInv, Served
  <2>5. Served(c)'
    BY <2>1, <2>2, <2>4
       DEF Served, PlacesOK, ReaderPlace, WriterPlace
  <2> QED
    BY <2>1, <2>2, <2>3, <2>5, OnlyOne DEF ListInv
<1>2. CASE Refuse(c)
  <2>1. /\ Go(Reader(c), "none", "done")
        /\ UNCHANGED <<open, accepting, clients>>
    BY <1>2 DEF Refuse
  <2>2. /\ pc[Reader(c)] = "none" /\ pc'[Reader(c)] = "done"
        /\ pc'[Writer(c)] = pc[Writer(c)]
        /\ pc'[Phantom(c)] = pc[Phantom(c)]
    BY <2>1, Threads, Moves DEF ListInv
  <2>3. Served(c)'
    BY <2>1, <2>2 DEF ListInv, Served, PlacesOK, ReaderPlace, InRemoveClient
  <2> QED
    BY <2>1, <2>3, OneMoves
<1>3. CASE Insert(c)
  <2>1. /\ pc' = pc /\ open' = open
        /\ c \in accepting
        /\ accepting' = accepting \ {c}
        /\ clients' = clients \cup {c}
    BY <1>3 DEF Insert
  <2>2. \A d \in Conn : d # c => Same(d)
    BY <2>1 DEF Same
  <2>3. Served(c)'
    BY <2>1 DEF ListInv, Served, PlacesOK
  <2> QED
    BY <2>1, <2>2, <2>3, OnlyOne DEF ListInv
<1> QED
  BY <1>1, <1>2, <1>3

(* The handlers of a message.                                              *)
LEMMA Handling ==
    ASSUME ListInv, NEW c \in Conn, Handle(c)
    PROVE  ListInv'
<1>1. UNCHANGED <<open, accepting, clients>>
  BY DEF Handle, LogIn, JoinChannel, PartChannel, QueueTeam, CancelQueue,
         Ignore, Invalid
<1>2. Go(Reader(c), "body", "reading") \/ Go(Reader(c), "body", "queues")
  BY DEF Handle, LogIn, JoinChannel, PartChannel, QueueTeam, CancelQueue,
         Ignore, Invalid, Handled
<1> QED
  BY <1>1, <1>2, ReaderMoves

-----------------------------------------------------------------------------
(* Removing: a thread goes through removeClient, closing the socket before *)
(* it takes the client off the list.                                       *)
LEMMA FailureHandled ==
    ASSUME ListInv, NEW t \in Thread, HandleError(t)
    PROVE  ListInv'
<1>1. PICK c \in Conn : t \in {Reader(c), Writer(c), Phantom(c)}
  BY ThreadOf
<1>2. /\ Go(t, "reading", "queues") \/ Go(t, "writing", "queues")
      /\ UNCHANGED <<open, accepting, clients>>
  BY DEF HandleError
<1>3. /\ PlacesOK(c)
      /\ pc[Reader(c)] = "none" => pc[Writer(c)] = "idle"
  BY DEF ListInv, Served
<1>4. CASE Go(t, "reading", "queues")
  <2>1. t = Reader(c)
    BY <1>1, <1>3, <1>4
       DEF Go, PlacesOK, WriterPlace, InRemoveClient
  <2> QED
    BY <1>2, <1>4, <2>1, ReaderMoves
<1>5. CASE Go(t, "writing", "queues")
  <2>1. t = Writer(c) /\ pc[Reader(c)] # "none"
    BY <1>1, <1>3, <1>5
       DEF Go, PlacesOK, ReaderPlace, InRemoveClient
  <2> QED
    BY <1>2, <1>5, <2>1, WriterMoves
<1> QED
  BY <1>2, <1>4, <1>5

LEMMA Leaving ==
    ASSUME ListInv, NEW t \in Thread, LeaveQueues(t)
    PROVE  ListInv'
<1>1. PICK c \in Conn : t \in {Reader(c), Writer(c), Phantom(c)}
  BY ThreadOf
<1>2. /\ Go(t, "queues", "disconnect")
      /\ UNCHANGED <<open, accepting, clients>>
  BY DEF LeaveQueues
<1>3. /\ pc[t] = "queues" /\ pc'[t] = "disconnect"
      /\ \A u \in Thread : u # t => pc'[u] = pc[u]
  BY <1>2, Moves DEF ListInv
<1>4. Served(c)
  BY DEF ListInv
<1>5. t = Reader(c) => Served(c)'
  <2> HAVE t = Reader(c)
  <2>1. /\ pc'[Writer(c)] = pc[Writer(c)]
        /\ pc'[Phantom(c)] = pc[Phantom(c)]
    BY <1>3, Threads
  <2> QED
    BY <1>2, <1>3, <1>4, <2>1
       DEF Served, PlacesOK, InRemoveClient
<1>6. t = Writer(c) => Served(c)'
  <2> HAVE t = Writer(c)
  <2>1. /\ pc'[Reader(c)] = pc[Reader(c)]
        /\ pc'[Phantom(c)] = pc[Phantom(c)]
    BY <1>3, Threads
  <2> QED
    BY <1>2, <1>3, <1>4, <2>1
       DEF Served, PlacesOK, InRemoveClient
<1>7. t = Phantom(c) => Served(c)'
  <2> HAVE t = Phantom(c)
  <2>1. /\ pc'[Reader(c)] = pc[Reader(c)]
        /\ pc'[Writer(c)] = pc[Writer(c)]
    BY <1>3, Threads
  <2> QED
    BY <1>2, <1>3, <1>4, <2>1
       DEF Served, PlacesOK, InRemoveClient
<1> QED
  BY <1>1, <1>2, <1>5, <1>6, <1>7, OneMoves

(* Closing the socket.                                                     *)
LEMMA Disconnecting ==
    ASSUME ListInv, NEW t \in Thread, Disconnect(t)
    PROVE  ListInv'
<1>1. PICK c \in Conn : /\ t \in {Reader(c), Writer(c), Phantom(c)}
                        /\ Target(t) = c
  BY ThreadOf
<1>2. /\ Go(t, "disconnect", "erase")
      /\ open' = [open EXCEPT ![c] = FALSE]
      /\ UNCHANGED <<accepting, clients>>
  BY <1>1 DEF Disconnect
<1>3. /\ pc[t] = "disconnect" /\ pc'[t] = "erase"
      /\ DOMAIN pc' = Thread
      /\ \A u \in Thread : u # t => pc'[u] = pc[u]
  BY <1>2, Moves DEF ListInv
<1>4. \A d \in Conn : d # c => Same(d)
  BY <1>1, <1>2, <1>3, Threads DEF Same, ListInv
<1>5. Served(c) /\ ~open'[c]
  BY <1>2 DEF ListInv
<1>6. t = Reader(c) => Served(c)'
  <2> HAVE t = Reader(c)
  <2>1. /\ pc'[Writer(c)] = pc[Writer(c)]
        /\ pc'[Phantom(c)] = pc[Phantom(c)]
    BY <1>3, Threads
  <2> QED
    BY <1>2, <1>3, <1>5, <2>1
       DEF Served, PlacesOK, InRemoveClient
<1>7. t = Writer(c) => Served(c)'
  <2> HAVE t = Writer(c)
  <2>1. /\ pc'[Reader(c)] = pc[Reader(c)]
        /\ pc'[Phantom(c)] = pc[Phantom(c)]
    BY <1>3, Threads
  <2> QED
    BY <1>2, <1>3, <1>5, <2>1
       DEF Served, PlacesOK, InRemoveClient
<1>8. t = Phantom(c) => Served(c)'
  <2> HAVE t = Phantom(c)
  <2>1. /\ pc'[Reader(c)] = pc[Reader(c)]
        /\ pc'[Writer(c)] = pc[Writer(c)]
    BY <1>3, Threads
  <2> QED
    BY <1>2, <1>3, <1>5, <2>1
       DEF Served, PlacesOK, InRemoveClient
<1> QED
  BY <1>1, <1>2, <1>3, <1>4, <1>6, <1>7, <1>8, OnlyOne DEF ListInv

(* Taking it off the list.                                                 *)
LEMMA Erasing ==
    ASSUME ListInv, NEW t \in Thread, Erase(t)
    PROVE  ListInv'
<1>1. PICK c \in Conn : /\ Target(t) = c
                        /\ \/ t = Reader(c) /\ t[2] = "reader"
                           \/ t = Writer(c) /\ t[2] = "writer"
                           \/ t = Phantom(c) /\ t[2] = "phantom"
  BY ThreadOf
<1> DEFINE to == CASE t[2] = "reader" -> "done"
                   [] t[2] = "writer" -> "stuck"
                   [] t[2] = "phantom" -> "idle"
<1>2. /\ Go(t, "erase", to)
      /\ clients' = clients \ {c}
      /\ UNCHANGED <<open, accepting>>
  BY <1>1 DEF Erase
<1> HIDE DEF to
<1>3. /\ pc[t] = "erase" /\ pc'[t] = to
      /\ DOMAIN pc' = Thread
      /\ \A u \in Thread : u # t => pc'[u] = pc[u]
  BY <1>2, Moves DEF ListInv
<1> USE DEF to
<1>4. \A d \in Conn : d # c => Same(d)
  BY <1>1, <1>2, <1>3, Threads DEF Same, ListInv
<1>5. Served(c) /\ ~open[c]
  BY <1>1, <1>3 DEF ListInv, Served
<1>6. CASE t = Reader(c) /\ t[2] = "reader"
  <2>1. /\ pc'[Reader(c)] = "done"
        /\ pc'[Writer(c)] = pc[Writer(c)]
        /\ pc'[Phantom(c)] = pc[Phantom(c)]
    BY <1>3, <1>6, Threads
  <2>2. Served(c)'
    BY <1>2, <1>5, <2>1
       DEF Served, PlacesOK, ReaderPlace, InRemoveClient
  <2> QED
    BY <1>2, <1>3, <1>4, <2>2, OnlyOne DEF ListInv
<1>7. CASE t = Writer(c) /\ t[2] = "writer"
  <2>1. /\ pc'[Writer(c)] = "stuck"
        /\ pc'[Reader(c)] = pc[Reader(c)]
        /\ pc'[Phantom(c)] = pc[Phantom(c)]
        /\ pc[Writer(c)] = "erase"
    BY <1>3, <1>7, Threads
  <2>2. Served(c)'
    BY <1>2, <1>5, <2>1
       DEF Served, PlacesOK, WriterPlace, InRemoveClient
  <2> QED
    BY <1>2, <1>3, <1>4, <2>2, OnlyOne DEF ListInv
<1>8. CASE t = Phantom(c) /\ t[2] = "phantom"
  <2>1. /\ pc'[Phantom(c)] = "idle"
        /\ pc'[Reader(c)] = pc[Reader(c)]
        /\ pc'[Writer(c)] = pc[Writer(c)]
    BY <1>3, <1>8, Threads
  <2>2. Served(c)'
    BY <1>2, <1>5, <2>1
       DEF Served, PlacesOK, InRemoveClient
  <2> QED
    BY <1>2, <1>3, <1>4, <2>2, OnlyOne DEF ListInv
<1> QED
  BY <1>1, <1>6, <1>7, <1>8

(* Silent clients are in the list, so they were accepted.                  *)
LEMMA FindingPhantoms ==
    ASSUME ListInv, NEW P \in SUBSET Conn, FindPhantoms(P)
    PROVE  ListInv'
<1>1. /\ \A c \in Conn : pc[Phantom(c)] = "idle"
      /\ P \subseteq clients
      /\ pc' = [t \in Thread |-> IF t[2] = "phantom" /\ t[1] \in P
                                 THEN "queues" ELSE pc[t]]
      /\ UNCHANGED <<open, accepting, clients>>
  BY DEF FindPhantoms
<1>2. ASSUME NEW c \in Conn
      PROVE  Served(c)'
  <2>1. /\ pc'[Reader(c)] = pc[Reader(c)]
        /\ pc'[Writer(c)] = pc[Writer(c)]
        /\ pc'[Phantom(c)] = IF c \in P THEN "queues" ELSE "idle"
    BY <1>1, <1>2, Threads DEF Reader, Writer, Phantom
  <2> QED
    BY <1>1, <1>2, <2>1 DEF ListInv, Served, PlacesOK, InRemoveClient
<1> QED
  BY <1>1, <1>2 DEF ListInv

(* Nothing else touches the threads, the sockets or the list.              *)
LEMMA ListUntouched ==
    ASSUME ListInv, UNCHANGED <<pc, open, accepting, clients>>
    PROVE  ListInv'
<1>1. \A c \in Conn : Served(c)'
  BY DEF ListInv, Served, PlacesOK
<1> QED
  BY <1>1 DEF ListInv

THEOREM NextLists == ListInv /\ [Next]_vars => ListInv'
<1> SUFFICES ASSUME ListInv, [Next]_vars
             PROVE  ListInv'
  OBVIOUS
<1>1. CASE \E c \in Conn : \/ Accept(c) \/ Refuse(c) \/ Insert(c)
                           \/ ReadMessage(c) \/ Handle(c)
                           \/ SendMessage(c) \/ WriteDone(c)
  <2>1. PICK c \in Conn : \/ Accept(c) \/ Refuse(c) \/ Insert(c)
                          \/ ReadMessage(c) \/ Handle(c)
                          \/ SendMessage(c) \/ WriteDone(c)
    BY <1>1
  <2>2. CASE Accept(c) \/ Refuse(c) \/ Insert(c)
    BY <2>2, Accepting
  <2>3. CASE ReadMessage(c)
    BY <2>3, ReaderMoves DEF ReadMessage
  <2>4. CASE Handle(c)
    BY <2>4, Handling
  <2>5. CASE SendMessage(c)
    BY <2>5, WriterMoves DEF SendMessage
  <2>6. CASE WriteDone(c)
    <3>1. pc[Reader(c)] # "none"
      BY <2>6 DEF WriteDone, Go, ListInv, Served
    <3> QED
      BY <2>6, <3>1, WriterMoves DEF WriteDone
  <2> QED
    BY <2>1, <2>2, <2>3, <2>4, <2>5, <2>6
<1>2. CASE \E t \in Thread : HandleError(t) \/ RemoveClient(t)
  BY <1>2, FailureHandled, Leaving, Disconnecting, Erasing DEF RemoveClient
<1>3. CASE \E P \in SUBSET Conn : FindPhantoms(P)
  BY <1>3, FindingPhantoms
<1>4. CASE StartMatches
  BY <1>4, ListUntouched DEF StartMatches
<1>5. CASE UNCHANGED vars
  BY <1>5, ListUntouched DEF vars
<1> QED
  BY <1>1, <1>2, <1>3, <1>4, <1>5 DEF Next

(* Whoever is connected is served, however the three removals of a client  *)
(* and its last message interleave.                                        *)
THEOREM ConnectedServed == Spec => []ConnectedIsServed
<1>1. ListInv => ConnectedIsServed
  BY DEF ListInv, Served, ConnectedIsServed
<1> QED
  BY <1>1, InitLists, NextLists, PTL DEF Spec

-----------------------------------------------------------------------------
(* The queue and the battles.  With one connection per user, the entry     *)
(* that goes is the client's own; with several it may be another's.        *)
DataOK ==
    /\ loggedIn \subseteq Conn
    /\ queue \in Seq(Conn)
    /\ queued \subseteq Conn
    /\ joined \subseteq Conn
    /\ playing \subseteq SUBSET Conn

OneConnection == \A c, d \in Conn : Owner[c] = Owner[d] => c = d

QueueInv ==
    /\ QueuedOnce
    /\ queued \subseteq loggedIn

LEMMA Removal ==
    ASSUME NEW s \in Seq(Conn), NEW i \in 1 .. Len(s)
    PROVE  /\ RemoveAt(s, i) \in Seq(Conn)
           /\ Len(RemoveAt(s, i)) = Len(s) - 1
           /\ \A j \in 1 .. Len(s) - 1 :
                RemoveAt(s, i)[j] = IF j < i THEN s[j] ELSE s[j + 1]
<1> DEFINE a == SubSeq(s, 1, i - 1)
           b == SubSeq(s, i + 1, Len(s))
<1>1. /\ a \in Seq(Conn) /\ Len(a) = i - 1
      /\ \A j \in 1 .. i - 1 : a[j] = s[j]
  OBVIOUS
<1>2. /\ b \in Seq(Conn) /\ Len(b) = Len(s) - i
      /\ \A j \in 1 .. Len(s) - i : b[j] = s[j + i]
  OBVIOUS
<1>3. RemoveAt(s, i) = a \o b
  BY DEF RemoveAt
<1> HIDE DEF a, b
<1>4. /\ a \o b \in Seq(Conn)
      /\ Len(a \o b) = Len(s) - 1
      /\ \A j \in 1 .. Len(s) - 1 :
            (a \o b)[j] = IF j < i THEN a[j] ELSE b[j - (i - 1)]
  <2>1. /\ a \o b \in Seq(Conn)
        /\ Len(a \o b) = Len(a) + Len(b)
        /\ \A j \in 1 .. Len(a) + Len(b) :
              (a \o b)[j] = IF j <= Len(a) THEN a[j] ELSE b[j - Len(a)]
    BY <1>1, <1>2, ConcatProperties
  <2>2. Len(a) + Len(b) = Len(s) - 1
    BY <1>1, <1>2
  <2>3. \A j \in 1 .. Len(s) - 1 : j <= Len(a) <=> j < i
    BY <1>1
  <2> QED
    BY <1>1, <2>1, <2>2, <2>3
<1>5. ASSUME NEW j \in 1 .. Len(s) - 1
      PROVE  (a \o b)[j] = IF j < i THEN s[j] ELSE s[j + 1]
  <2>1. CASE j < i
    BY <1>1, <1>4, <2>1
  <2>2. CASE ~(j < i)
    <3>1. j - (i - 1) \in 1 .. Len(s) - i
      BY <2>2
    <3>2. (j - (i - 1)) + i = j + 1
      OBVIOUS
    <3> QED
      BY <1>2, <1>4, <2>2, <3>1, <3>2
  <2> QED
    BY <2>1, <2>2
<1> QED
  BY <1>3, <1>4, <1>5

(* The list is left as it was, or loses the first entry of some user.      *)
LEMMA Leaves ==
    ASSUME DataOK, NEW c \in Conn, LeaveQueue(c)
    PROVE  /\ queued' = queued \ {c}
           /\ \/ queue' = queue /\ (c \in loggedIn => FirstOf(Owner[c]) = {})
              \/ \E d \in Conn :
                    /\ c \in loggedIn => Owner[d] = Owner[c]
                    /\ \E i \in FirstOf(Owner[d]) : queue' = RemoveAt(queue, i)
<1>1. CASE c \notin loggedIn /\ UNCHANGED queue
  BY <1>1 DEF LeaveQueue
<1>2. CASE \E d \in Conn :
            /\ c \in loggedIn => Owner[d] = Owner[c]
            /\ queue' = IF FirstOf(Owner[d]) = {} THEN queue
                        ELSE RemoveAt(queue, CHOOSE i \in FirstOf(Owner[d]) : TRUE)
  <2>1. PICK d \in Conn :
            /\ c \in loggedIn => Owner[d] = Owner[c]
            /\ queue' = IF FirstOf(Owner[d]) = {} THEN queue
                        ELSE RemoveAt(queue, CHOOSE i \in FirstOf(Owner[d]) : TRUE)
    BY <1>2
  <2>2. CASE FirstOf(Owner[d]) = {}
    BY <2>1, <2>2 DEF LeaveQueue
  <2>3. CASE FirstOf(Owner[d]) # {}
    <3>1. (CHOOSE i \in FirstOf(Owner[d]) : TRUE) \in FirstOf(Owner[d])
      BY <2>3
    <3>2. \E i \in FirstOf(Owner[d]) : queue' = RemoveAt(queue, i)
      BY <2>1, <2>3, <3>1
    <3> QED
      BY <2>1, <3>2 DEF LeaveQueue
  <2> QED
    BY <2>2, <2>3
<1> QED
  BY <1>1, <1>2 DEF LeaveQueue

LEMMA LeavesInType ==
    ASSUME DataOK, NEW c \in Conn, LeaveQueue(c)
    PROVE  queue' \in Seq(Conn) /\ queued' \subseteq Conn
<1>1. ASSUME NEW u, NEW i \in FirstOf(u)
      PROVE  RemoveAt(queue, i) \in Seq(Conn)
  BY Removal DEF FirstOf, DataOK
<1> QED
  BY <1>1, Leaves DEF DataOK

LEMMA LeavesOnce ==
    ASSUME OneConnection, DataOK, QueueInv, NEW c \in Conn, LeaveQueue(c)
    PROVE  /\ \A i, j \in DOMAIN queue' : queue'[i] = queue'[j] => i = j
           /\ ToSet(queue') \subseteq queued'
           /\ queued' \subseteq queued
<1>1. /\ \A i, j \in DOMAIN queue : queue[i] = queue[j] => i = j
      /\ \A i \in DOMAIN queue : queue[i] \in queued /\ queue[i] \in loggedIn
      /\ queue \in Seq(Conn) /\ DOMAIN queue = 1 .. Len(queue)
  BY DEF QueueInv, QueuedOnce, ToSet, DataOK
<1>2. queued' = queued \ {c}
  BY Leaves
<1>3. CASE queue' = queue /\ (c \in loggedIn => FirstOf(Owner[c]) = {})
  <2>1. ASSUME NEW i \in DOMAIN queue, queue[i] = c
        PROVE  i \in FirstOf(Owner[c])
    BY <1>1, <2>1 DEF FirstOf, OneConnection
  <2>2. \A i \in DOMAIN queue : queue[i] # c
    BY <1>1, <1>3, <2>1
  <2> QED
    BY <1>1, <1>2, <1>3, <2>2 DEF ToSet
<1>4. CASE \E d \in Conn :
            /\ c \in loggedIn => Owner[d] = Owner[c]
            /\ \E i \in FirstOf(Owner[d]) : queue' = RemoveAt(queue, i)
  <2>0. PICK d \in Conn :
            /\ c \in loggedIn => Owner[d] = Owner[c]
            /\ \E i \in FirstOf(Owner[d]) : queue' = RemoveAt(queue, i)
    BY <1>4
  <2>1. PICK i \in FirstOf(Owner[d]) : queue' = RemoveAt(queue, i)
    BY <2>0
  <2>2. i \in 1 .. Len(queue) /\ queue[i] = d
    BY <1>1 DEF FirstOf, OneConnection
  <2>3. /\ DOMAIN queue' = 1 .. Len(queue) - 1
        /\ \A j \in 1 .. Len(queue) - 1 :
                queue'[j] = IF j < i THEN queue[j] ELSE queue[j + 1]
    BY <1>1, <2>1, <2>2, Removal
  <2>4. ASSUME NEW j \in DOMAIN queue', NEW k \in DOMAIN queue',
               queue'[j] = queue'[k]
        PROVE  j = k
    <3> DEFINE J == IF j < i THEN j ELSE j + 1
               K == IF k < i THEN k ELSE k + 1
    <3>1. /\ J \in DOMAIN queue /\ queue'[j] = queue[J]
          /\ K \in DOMAIN queue /\ queue'[k] = queue[K]
      BY <1>1, <2>2, <2>3
    <3>2. J = K
      BY <1>1, <2>4, <3>1
    <3> QED
      BY <2>2, <2>3, <3>2
  <2>5. ASSUME NEW j \in DOMAIN queue'
        PROVE  queue'[j] \in queued'
    <3> DEFINE J == IF j < i THEN j ELSE j + 1
    <3>1. J \in DOMAIN queue /\ queue'[j] = queue[J] /\ J # i
      BY <1>1, <2>2, <2>3
    <3>2. queue[J] \in queued /\ queue[J] \in loggedIn /\ queue[J] # d
      BY <1>1, <2>2, <3>1
    <3>3. queue[J] # c
      BY <2>0, <3>2 DEF OneConnection
    <3> QED
      BY <1>2, <3>1, <3>2, <3>3
  <2> QED
    BY <1>2, <2>4, <2>5 DEF ToSet
<1> QED
  BY <1>3, <1>4, Leaves

(* The matched clients, in any order, are different ones.                  *)
LEMMA Matching ==
    ASSUME DataOK, StartMatches
    PROVE  /\ DataOK'
           /\ QueueInv => QueueInv'
<1> DEFINE n == Len(queue)
           Shuffled(f) == [i \in DOMAIN queue |-> queue[f[i]]]
           Matches(s) == {{s[2 * i - 1], s[2 * i]} : i \in 1 .. Len(s) \div 2}
<1>1. PICK o \in {f \in [DOMAIN queue -> DOMAIN queue] :
                    \A i, j \in DOMAIN queue : i # j => f[i] # f[j]} :
            /\ playing' = playing \cup Matches(Shuffled(o))
            /\ joined' = joined \cup UNION Matches(Shuffled(o))
            /\ Matched(Shuffled(o))
  BY DEF StartMatches
<1> DEFINE s == Shuffled(o)
<1>2. /\ n \in Nat /\ n >= 2 /\ DOMAIN queue = 1 .. n
      /\ queue \in [1 .. n -> Conn]
      /\ loggedIn' = loggedIn
  BY DEF DataOK, StartMatches
<1>3. /\ s \in Seq(Conn) /\ Len(s) = n /\ DOMAIN s = 1 .. n
      /\ \A i \in 1 .. n : s[i] = queue[o[i]] /\ o[i] \in 1 .. n
      /\ \A i, j \in 1 .. n : i # j => o[i] # o[j]
  <2>1. /\ \A i \in 1 .. n : o[i] \in 1 .. n
        /\ \A i, j \in 1 .. n : i # j => o[i] # o[j]
    BY <1>1, <1>2
  <2>2. s = [i \in 1 .. n |-> queue[o[i]]]
    BY <1>2
  <2> HIDE DEF s, n
  <2>3. s \in [1 .. n -> Conn]
    BY <1>2, <2>1, <2>2
  <2>4. s \in Seq(Conn) /\ Len(s) = n /\ DOMAIN s = 1 .. n
    BY <1>2, <2>3, LenProperties
  <2> QED
    BY <2>1, <2>2, <2>4
<1>4. /\ playing' = playing \cup Matches(s)
      /\ joined' = joined \cup UNION Matches(s)
      /\ Matched(s)
  BY <1>1
<1> HIDE DEF s, n
<1>5. ASSUME NEW m \in Matches(s)
      PROVE  \E i, j \in 1 .. n : i # j /\ m = {s[i], s[j]}
  <2>1. PICK i \in 1 .. Len(s) \div 2 : m = {s[2 * i - 1], s[2 * i]}
    BY <1>5
  <2>2. 2 * i - 1 \in 1 .. n /\ 2 * i \in 1 .. n /\ 2 * i - 1 # 2 * i
    BY <1>2, <1>3, <2>1
  <2> QED
    BY <2>1, <2>2
<1> HIDE DEF Matches
<1>6. /\ queue' = <<>> \/ queue' = <<s[n]>>
      /\ queued' = ToSet(queue')
  BY <1>3, <1>4 DEF Matched, Last
<1>7. s[n] \in Conn
  BY <1>2, <1>3
<1>8. DataOK'
  <2>1. queue' \in Seq(Conn)
    <3>1. CASE queue' = <<>>
      BY <3>1
    <3>2. CASE queue' = <<s[n]>>
      BY <1>7, <3>2
    <3> QED
      BY <1>6, <3>1, <3>2
  <2>2. queued' \subseteq Conn
    BY <1>6, <1>7 DEF ToSet
  <2>3. \A m \in Matches(s) : m \subseteq Conn
    BY <1>2, <1>3, <1>5
  <2> QED
    BY <1>2, <1>4, <2>1, <2>2, <2>3 DEF DataOK
<1>9. QueueInv => QueueInv'
  <2> HAVE QueueInv
  <2>1. \A i, j \in DOMAIN queue' : queue'[i] = queue'[j] => i = j
    BY <1>6
  <2>2. ASSUME NEW m \in Matches(s)
        PROVE  Cardinality(m) = 2
    <3>1. PICK i \in 1 .. n, j \in 1 .. n : i # j /\ m = {s[i], s[j]}
      BY <1>5, <2>2
    <3>2. s[i] # s[j]
      BY <1>2, <1>3, <3>1 DEF QueueInv, QueuedOnce
    <3>3. /\ IsFiniteSet({s[i]}) /\ Cardinality({s[i]}) = 1
          /\ m = {s[i]} \cup {s[j]} /\ s[j] \notin {s[i]}
      BY <3>1, <3>2, FS_Singleton
    <3>4. Cardinality({s[i]} \cup {s[j]}) = Cardinality({s[i]}) + 1
      BY <3>3, FS_AddElement
    <3> QED
      BY <3>3, <3>4
  <2>3. \A m \in playing' : Cardinality(m) = 2
    BY <1>4, <2>2 DEF QueueInv, QueuedOnce
  <2>4. s[n] \in loggedIn
    BY <1>2, <1>3 DEF QueueInv, QueuedOnce, ToSet
  <2>5. queued' \subseteq loggedIn'
    BY <1>2, <1>6, <2>4 DEF ToSet
  <2> QED
    BY <1>6, <2>1, <2>3, <2>5 DEF QueueInv, QueuedOnce
<1> QED
  BY <1>8, <1>9

LEMMA Queueing ==
    ASSUME DataOK, NEW c \in Conn, QueueTeam(c)
    PROVE  /\ DataOK'
           /\ QueueInv => QueueInv'
<1>1. /\ c \in loggedIn /\ c \notin queued
      /\ queue' = Append(queue, c)
      /\ queued' = queued \cup {c}
      /\ UNCHANGED <<loggedIn, joined, playing>>
  BY DEF QueueTeam, membership
<1>2. /\ queue' \in Seq(Conn)
      /\ DOMAIN queue' = 1 .. Len(queue) + 1
      /\ DOMAIN queue = 1 .. Len(queue)
      /\ \A i \in 1 .. Len(queue) : queue'[i] = queue[i]
      /\ queue'[Len(queue) + 1] = c
      /\ Len(queue) \in Nat
  BY <1>1 DEF DataOK
<1>3. DataOK'
  BY <1>1, <1>2 DEF DataOK
<1>4. QueueInv => QueueInv'
  <2> HAVE QueueInv
  <2>1. ASSUME NEW i \in DOMAIN queue'
        PROVE  IF i = Len(queue) + 1 THEN queue'[i] = c
               ELSE i \in DOMAIN queue /\ queue'[i] = queue[i] /\ queue[i] # c
    BY <1>1, <1>2 DEF QueueInv, QueuedOnce, ToSet
  <2>2. \A i, j \in DOMAIN queue' : queue'[i] = queue'[j] => i = j
    BY <2>1 DEF QueueInv, QueuedOnce
  <2>3. ToSet(queue') \subseteq queued'
    BY <1>1, <2>1 DEF QueueInv, QueuedOnce, ToSet
  <2> QED
    BY <1>1, <2>2, <2>3 DEF QueueInv, QueuedOnce
<1> QED
  BY <1>3, <1>4

(* A step that queues and matches nobody.                                  *)
LEMMA DataShrinks ==
    ASSUME DataOK, queue' = queue, queued' = queued,
           loggedIn \subseteq loggedIn', loggedIn' \subseteq Conn,
           joined' \subseteq Conn, playing' \subseteq playing
    PROVE  /\ DataOK'
           /\ QueueInv => QueueInv'
  BY DEF DataOK, QueueInv, QueuedOnce

LEMMA LeavingData ==
    ASSUME DataOK, NEW c \in Conn, LeaveQueue(c),
           UNCHANGED <<loggedIn, joined, playing>>
    PROVE  /\ DataOK'
           /\ OneConnection /\ QueueInv => QueueInv'
<1>1. DataOK'
  BY LeavesInType DEF DataOK
<1>2. OneConnection /\ QueueInv => QueueInv'
  BY LeavesOnce DEF QueueInv, QueuedOnce
<1> QED
  BY <1>1, <1>2

THEOREM NextData ==
    DataOK /\ [Next]_vars =>
        /\ DataOK'
        /\ OneConnection /\ QueueInv => QueueInv'
<1> SUFFICES ASSUME DataOK, [Next]_vars
             PROVE  /\ DataOK'
                    /\ OneConnection /\ QueueInv => QueueInv'
  OBVIOUS
<1>1. ASSUME NEW c \in Conn,
             \/ Accept(c) \/ Refuse(c) \/ Insert(c) \/ ReadMessage(c)
             \/ Ignore(c) \/ Invalid(c) \/ SendMessage(c) \/ WriteDone(c)
      PROVE  UNCHANGED <<loggedIn, matchmaking, membership>>
  BY <1>1 DEF Accept, Refuse, Insert, ReadMessage, Ignore, Invalid,
              SendMessage, WriteDone
<1>2. ASSUME NEW c \in Conn,
             LogIn(c) \/ JoinChannel(c) \/ PartChannel(c)
      PROVE  DataOK' /\ (QueueInv => QueueInv')
  BY <1>2, DataShrinks
     DEF LogIn, JoinChannel, PartChannel, Part, matchmaking, membership, DataOK
<1>3. ASSUME NEW t \in Thread, HandleError(t) \/ RemoveClient(t)
      PROVE  DataOK' /\ (OneConnection /\ QueueInv => QueueInv')
  <2>1. Target(t) \in Conn
    BY ThreadOf
  <2>2. CASE LeaveQueues(t)
    BY <2>1, <2>2, LeavingData DEF LeaveQueues, membership
  <2>3. CASE HandleError(t) \/ Erase(t)
    BY <2>3, DataShrinks DEF HandleError, Erase, matchmaking, membership, DataOK
  <2>4. CASE Disconnect(t)
    BY <2>4, DataShrinks DEF Disconnect, Part, matchmaking, DataOK
  <2> QED
    BY <1>3, <2>2, <2>3, <2>4 DEF RemoveClient
<1>4. ASSUME NEW c \in Conn, CancelQueue(c)
      PROVE  DataOK' /\ (OneConnection /\ QueueInv => QueueInv')
  BY <1>4, LeavingData DEF CancelQueue, membership
<1>5. ASSUME UNCHANGED <<loggedIn, matchmaking, membership>>
      PROVE  DataOK' /\ (OneConnection /\ QueueInv => QueueInv')
  BY <1>5, DataShrinks DEF matchmaking, membership, DataOK
<1>6. ASSUME NEW P \in SUBSET Conn, FindPhantoms(P)
      PROVE  UNCHANGED <<loggedIn, matchmaking, membership>>
  BY <1>6 DEF FindPhantoms
<1>7. UNCHANGED vars => UNCHANGED <<loggedIn, matchmaking, membership>>
  BY DEF vars, matchmaking, membership
<1> QED
  BY <1>1, <1>2, <1>3, <1>4, <1>5, <1>6, <1>7, Matching, Queueing
     DEF Next, Handle

(* Every variable keeps its type.                                          *)
THEOREM TypeCorrect == Spec => []TypeOK
<1>1. Init => DataOK
  BY DEF Init, DataOK
<1>2. ListInv /\ DataOK => TypeOK
  BY DEF ListInv, Served, PlacesOK, DataOK, TypeOK
<1> QED
  BY <1>1, <1>2, InitLists, NextLists, NextData, PTL DEF Spec

(* With one connection per user, nobody is queued twice or matched against *)
(* himself, and the list never holds a client that the set does not.       *)
THEOREM QueuesAreSets == OneConnection => (Spec => []QueuedOnce)
<1> SUFFICES ASSUME OneConnection
             PROVE  Spec => []QueuedOnce
  OBVIOUS
<1>1. Init => DataOK /\ QueueInv
  BY DEF Init, DataOK, QueueInv, QueuedOnce, ToSet
<1>2. QueueInv => QueuedOnce
  BY DEF QueueInv
<1>3. DataOK /\ QueueInv /\ [Next]_vars => (DataOK /\ QueueInv)'
  BY NextData
<1> QED
  BY <1>1, <1>2, <1>3, PTL DEF Spec

=============================================================================
