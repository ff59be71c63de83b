------------------------------- MODULE Lobby -------------------------------
(***************************************************************************)
(* The connections of the server (src/network/network.cpp): ServerImpl's   *)
(* list of clients, ClientImpl's reads and writes, a MetagameQueue with    *)
(* its matches, and the removal of a client from all of them.              *)
(*                                                                         *)
(* A client can be removed by three threads at once: the worker to which   *)
(* its pending read failed, the one to which its pending write failed, and *)
(* the thread that looks for silent clients.  ServerImpl::removeClient     *)
(* takes one lock after the other, so it is three steps here, each atomic  *)
(* under its own lock.  Meanwhile the client's last message may still be   *)
(* handled.                                                                *)
(*                                                                         *)
(* What a channel or a battle does is abstracted to who is in one and who  *)
(* plays whom, until a player parts: that ends the battle if it was not    *)
(* over (module BattleLocks).                                              *)
(* A connection logs in as one user; asking for another name while logged  *)
(* in is left out.                                                         *)
(*                                                                         *)
(* Definitions named Mutant... are wrong versions of the one that follows; *)
(* they are not used: they are there to see the properties fail.           *)
(***************************************************************************)
EXTENDS Naturals, SequencesExt

CONSTANTS
    Conn,       \* connections, each made at most once
    Owner,      \* Owner[c]: the user who makes connection c
    UserLimit,  \* m_userLimit
    Written     \* bound: the connections to which anything is written

ASSUME LobbyAssumption == UserLimit \in Nat /\ Written \subseteq Conn

Role == {"reader", "writer", "phantom"}
Thread == Conn \X Role
Target(t) == t[1]

VARIABLES
    pc,         \* where each thread is
    open,       \* open[c]: m_socket.is_open()
    accepting,  \* connections inside handleAccept, not in the list yet
    clients,    \* ServerImpl::m_clients
    loggedIn,   \* m_authenticated, and m_id is set
    queue,      \* MetagameQueue::m_queue
    queued,     \* MetagameQueue::m_clients
    joined,     \* clients in some channel of their m_channels
    playing     \* battles: {c, d} for c against d

vars == <<pc, open, accepting, clients, loggedIn, queue, queued, joined,
          playing>>
matchmaking == <<queue, queued>>
membership == <<joined, playing>>

InRemoveClient == {"queues", "disconnect", "erase"}
ReaderPlace == {"none",     \* not accepted
                "reading",  \* a read is pending
                "body",     \* a message was read
                "done"}     \* no read will be started again
WriterPlace == {"idle",
                "writing",  \* a write is pending
                "stuck"}    \* it failed: m_queue is not empty again

Reader(c) == <<c, "reader">>
Writer(c) == <<c, "writer">>
Phantom(c) == <<c, "phantom">>
Go(t, from, to) == pc[t] = from /\ pc' = [pc EXCEPT ![t] = to]

-----------------------------------------------------------------------------
(* Accepting.                                                              *)

(* handleAccept up to start(), which begins to read.                       *)
Accept(c) ==
    /\ Cardinality(clients) <= UserLimit
    /\ Go(Reader(c), "none", "reading")
    /\ open' = [open EXCEPT ![c] = TRUE]
    /\ accepting' = accepting \cup {c}
    /\ UNCHANGED <<clients, loggedIn, matchmaking, membership>>

(* The server is full, or the connection is gone before it is read from.   *)
Refuse(c) ==
    /\ Go(Reader(c), "none", "done")
    /\ UNCHANGED <<open, accepting, clients, loggedIn, matchmaking,
                   membership>>

(* The rest of handleAccept.                                               *)
Insert(c) ==
    /\ c \in accepting
    /\ accepting' = accepting \ {c}
    /\ clients' = clients \cup {c}
    /\ UNCHANGED <<pc, open, loggedIn, matchmaking, membership>>

-----------------------------------------------------------------------------
(* Reading and handling a message.                                         *)

ReadMessage(c) ==
    /\ open[c]
    /\ Go(Reader(c), "reading", "body")
    /\ UNCHANGED <<open, accepting, clients, loggedIn, matchmaking,
                   membership>>

(* The end of handleReadBody reads on only if the socket is still open.    *)
MutantHandled(c) ==
    Go(Reader(c), "body", IF open[c] THEN "reading" ELSE "done")

(* The end of handleReadBody: the next read, whatever happened meanwhile.  *)
Handled(c) == Go(Reader(c), "body", "reading")

(* authenticateClient.                                                     *)
LogIn(c) ==
    /\ Handled(c)
    /\ \A d \in clients \cap loggedIn : Owner[d] # Owner[c]
    /\ loggedIn' = loggedIn \cup {c}
    /\ UNCHANGED <<open, accepting, clients, matchmaking, membership>>

(* joinChannel.                                                            *)
JoinChannel(c) ==
    /\ Handled(c)
    /\ c \in loggedIn
    /\ joined' = joined \cup {c}
    /\ UNCHANGED <<open, accepting, clients, loggedIn, matchmaking,
                   playing>>

(* Channel::part, for all channels of a client.                            *)
Part(c) ==
    /\ joined' = joined \ {c}
    /\ playing' = {m \in playing : c \notin m}

(* partChannel of his only channel, or of one of his battles.              *)
PartChannel(c) ==
    /\ Handled(c)
    /\ c \in loggedIn
    /\ \/ Part(c)
       \/ /\ \E m \in playing : c \in m /\ playing' = playing \ {m}
          /\ UNCHANGED joined
    /\ UNCHANGED <<open, accepting, clients, loggedIn, matchmaking>>

(* Whether the client is queued already is not looked at.                  *)
MutantQueueTeam(c) ==
    /\ Handled(c)
    /\ c \in loggedIn
    /\ Len(queue) < 3
    /\ queue' = Append(queue, c)
    /\ queued' = queued \cup {c}
    /\ UNCHANGED <<open, accepting, clients, loggedIn, membership>>

(* queueClient with a valid team.                                          *)
QueueTeam(c) ==
    /\ Handled(c)
    /\ c \in loggedIn
    /\ c \notin queued
    /\ queue' = Append(queue, c)
    /\ queued' = queued \cup {c}
    /\ UNCHANGED <<open, accepting, clients, loggedIn, membership>>

(* MetagameQueue::removeClient: the client leaves the set, and the first   *)
(* entry with the same user id leaves the list.  The id of a client that   *)
(* is not logged in was never initialised: it may be anybody's.            *)
FirstOf(u) == {i \in DOMAIN queue :
                  /\ Owner[queue[i]] = u
                  /\ \A j \in 1 .. i - 1 : Owner[queue[j]] # u}
LeaveQueue(c) ==
    /\ queued' = queued \ {c}
    /\ \/ c \notin loggedIn /\ UNCHANGED queue
       \/ \E d \in Conn :
            /\ c \in loggedIn => Owner[d] = Owner[c]
            /\ queue' = IF FirstOf(Owner[d]) = {} THEN queue
                        ELSE RemoveAt(queue, CHOOSE i \in FirstOf(Owner[d]) : TRUE)

CancelQueue(c) ==
    /\ Handled(c)
    /\ c \in loggedIn
    /\ LeaveQueue(c)
    /\ UNCHANGED <<open, accepting, clients, loggedIn, membership>>

(* Any other message, and any that its handler ignores.                    *)
Ignore(c) ==
    /\ Handled(c)
    /\ UNCHANGED <<open, accepting, clients, loggedIn, matchmaking,
                   membership>>

(* A message that is not allowed or cannot be parsed.                      *)
Invalid(c) ==
    /\ Go(Reader(c), "body", "queues")
    /\ UNCHANGED <<open, accepting, clients, loggedIn, matchmaking,
                   membership>>

-----------------------------------------------------------------------------
(* Writing: only one write of a client is pending at a time.  A failed one *)
(* stays at the front of the queue, so that nothing is written after it.   *)

SendMessage(c) ==
    /\ c \in Written
    /\ pc[Reader(c)] # "none"
    /\ Go(Writer(c), "idle", "writing")
    /\ UNCHANGED <<open, accepting, clients, loggedIn, matchmaking,
                   membership>>

WriteDone(c) ==
    /\ open[c]
    /\ Go(Writer(c), "writing", "idle")
    /\ UNCHANGED <<open, accepting, clients, loggedIn, matchmaking,
                   membership>>

-----------------------------------------------------------------------------
(* Removing: ServerImpl::removeClient on any of the three threads.         *)

(* handleError, from handleReadHeader, handleReadBody or handleWrite.      *)
HandleError(t) ==
    /\ \/ Go(t, "reading", "queues")
       \/ Go(t, "writing", "queues")
    /\ UNCHANGED <<open, accepting, clients, loggedIn, matchmaking,
                   membership>>

(* handlePhantomClients collects the clients that have been silent for two *)
(* minutes, and removes one after the other.  Any client may have been: the *)
(* time is left out, and a new client's silence counts from the connection *)
(* before, when its object was made.                                       *)
FindPhantoms(P) ==
    /\ \A c \in Conn : pc[Phantom(c)] = "idle"
    /\ P \subseteq clients
    /\ P # {}
    /\ pc' = [t \in Thread |-> IF t[2] = "phantom" /\ t[1] \in P
                               THEN "queues" ELSE pc[t]]
    /\ UNCHANGED <<open, accepting, clients, loggedIn, matchmaking,
                   membership>>

LeaveQueues(t) ==
    /\ Go(t, "queues", "disconnect")
    /\ t[2] = "phantom" =>
            \A c \in Conn : pc[Phantom(c)] \in {"idle", "queues"}
    /\ LeaveQueue(Target(t))
    /\ UNCHANGED <<open, accepting, clients, loggedIn, membership>>

(* The socket is left to the read that will fail.                          *)
MutantDisconnect(t) ==
    /\ Go(t, "disconnect", "erase")
    /\ Part(Target(t))
    /\ UNCHANGED <<open, accepting, clients, loggedIn, matchmaking>>

(* ClientImpl::disconnect.                                                 *)
Disconnect(t) ==
    /\ Go(t, "disconnect", "erase")
    /\ open' = [open EXCEPT ![Target(t)] = FALSE]
    /\ Part(Target(t))
    /\ UNCHANGED <<accepting, clients, loggedIn, matchmaking>>

Erase(t) ==
    /\ Go(t, "erase", CASE t[2] = "reader" -> "done"
                        [] t[2] = "writer" -> "stuck"
                        [] t[2] = "phantom" -> "idle")
    /\ clients' = clients \ {Target(t)}
    /\ UNCHANGED <<open, accepting, loggedIn, matchmaking, membership>>

-----------------------------------------------------------------------------
(* Only the one who found no opponent stays.                               *)
Matched(s) ==
    /\ queue' = IF Len(s) % 2 = 1 THEN <<Last(s)>> ELSE <<>>
    /\ queued' = ToSet(queue')

(* startMatches, which holds the mutex of the queue: the clients in random *)
(* order are matched two by two.                                           *)
StartMatches ==
    /\ Len(queue) >= 2
    /\ \E o \in {f \in [DOMAIN queue -> DOMAIN queue] :
                    \A i, j \in DOMAIN queue : i # j => f[i] # f[j]} :
        LET s == [i \in DOMAIN queue |-> queue[o[i]]]
            matches == {{s[2 * i - 1], s[2 * i]} : i \in 1 .. Len(s) \div 2}
        IN  /\ playing' = playing \cup matches
            /\ joined' = joined \cup UNION matches
            /\ Matched(s)
    /\ UNCHANGED <<pc, open, accepting, clients, loggedIn>>

-----------------------------------------------------------------------------
Init ==
    /\ pc = [t \in Thread |-> IF t[2] = "reader" THEN "none" ELSE "idle"]
    /\ open = [c \in Conn |-> FALSE]
    /\ accepting = {}
    /\ clients = {}
    /\ loggedIn = {}
    /\ queue = <<>>
    /\ queued = {}
    /\ joined = {}
    /\ playing = {}

Handle(c) ==
    \/ LogIn(c) \/ JoinChannel(c) \/ PartChannel(c) \/ QueueTeam(c)
    \/ CancelQueue(c) \/ Ignore(c) \/ Invalid(c)

RemoveClient(t) == LeaveQueues(t) \/ Disconnect(t) \/ Erase(t)

Next ==
    \/ \E c \in Conn :
            \/ Accept(c) \/ Refuse(c) \/ Insert(c)
            \/ ReadMessage(c) \/ Handle(c)
            \/ SendMessage(c) \/ WriteDone(c)
    \/ \E t \in Thread : HandleError(t) \/ RemoveClient(t)
    \/ \E P \in SUBSET Conn : FindPhantoms(P)
    \/ StartMatches

Spec == Init /\ [][Next]_vars

-----------------------------------------------------------------------------
TypeOK ==
    /\ DOMAIN pc = Thread
    /\ \A c \in Conn :
        /\ pc[Reader(c)] \in ReaderPlace \cup InRemoveClient
        /\ pc[Writer(c)] \in WriterPlace \cup InRemoveClient
        /\ pc[Phantom(c)] \in {"idle"} \cup InRemoveClient
    /\ open \in [Conn -> BOOLEAN]
    /\ accepting \subseteq Conn
    /\ clients \subseteq Conn
    /\ loggedIn \subseteq Conn
    /\ queue \in Seq(Conn)
    /\ queued \subseteq Conn
    /\ joined \subseteq Conn
    /\ playing \subseteq SUBSET Conn

(* Whoever is connected is served: a message of his is awaited or handled, *)
(* and he is, or is about to be, in the list of clients, so that he hears  *)
(* what is broadcast and is found when he falls silent.  No removal of a   *)
(* client, by whichever threads at once, leaves his socket open.           *)
ConnectedIsServed ==
    \A c \in Conn : open[c] =>
        /\ pc[Reader(c)] \in {"reading", "body", "queues",
                             "disconnect"}
        /\ c \in clients \cup accepting

(* Nobody is queued twice, so that nobody is matched against himself or    *)
(* in two battles for one team; and who is in the list is in the set that  *)
(* keeps him from being queued again.                                      *)
QueuedOnce ==
    /\ \A i, j \in DOMAIN queue : queue[i] = queue[j] => i = j
    /\ ToSet(queue) \subseteq queued
    /\ \A m \in playing : Cardinality(m) = 2

(* "Remove the client from any metagame queues that the client may be in"  *)
(* (network.cpp:2407), and nobody else: the set and the list of a queue    *)
(* hold the same clients.                                                  *)
QueueAgrees == queued = ToSet(queue)

-----------------------------------------------------------------------------
(* Fairness: the workers and the two threads of the server run; who does   *)
(* not send any more is found to be silent; and a read or write pending on *)
(* a closed socket fails.  Nobody has to connect or to send anything.      *)
Failing(t) == ~open[Target(t)] /\ HandleError(t)
Fairness ==
    \A c \in Conn :
        /\ WF_vars(Insert(c))
        /\ WF_vars(Handle(c) \/ Failing(Reader(c)) \/ RemoveClient(Reader(c)))
        /\ WF_vars(Failing(Writer(c)) \/ RemoveClient(Writer(c)))
        /\ SF_vars(\/ ~open[c] /\ \E P \in SUBSET Conn : c \in P /\ FindPhantoms(P)
                   \/ RemoveClient(Phantom(c)))

FairSpec == Spec /\ Fairness

Gone(c) ==
    /\ c \notin clients \cup queued \cup ToSet(queue) \cup joined
    /\ c \notin UNION playing

(* A client whose socket was closed is eventually in no list, queue,       *)
(* channel or battle, and for good, although his last message may be       *)
(* handled, or he may be matched, after he was removed, and although he    *)
(* may be put in the list after he was removed from it.                    *)
LeftForGood ==
    \A c \in Conn :
        (~open[c] /\ pc[Reader(c)] # "none") ~> []Gone(c)

=============================================================================
