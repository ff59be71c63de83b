------------------------------ MODULE Channels ------------------------------
(***************************************************************************)
(* An ordinary chat channel (src/src/network/Channel.cpp), the clients who *)
(* join, leave, moderate and are removed (ClientImpl and ServerImpl in     *)
(* src/src/network/network.cpp), and the tables of the registry that keep  *)
(* its flags and bans (src/src/database/DatabaseRegistry.cpp).             *)
(*                                                                         *)
(* A client is a user here.  Each has a worker that handles its messages   *)
(* one after the other; Sweeper is the thread that removes silent clients. *)
(* The channel's shared mutex is upgrade (join, which reads the registry   *)
(* under it) and readers (those who set status flags, which are committed  *)
(* under it); whatever is done while it is held exclusively is one step.   *)
(* Every statement that changes the registry is a step of its own.         *)
(*                                                                         *)
(* Definitions named Mutant... are wrong versions of the one that follows; *)
(* they are not used: they are there to see the properties fail.           *)
(***************************************************************************)
EXTENDS FiniteSets

CONSTANTS
    Client,
    Late,           \* clients that log in later
    InitFlags,      \* what channel_users has for each at first
    Modes,          \* bound: the modes that are set
    Sweeper,
    None

Flag == {"protected", "op", "voice", "ban"}
ChannelFlag == {"moderated", "inviteOnly"}
ModeFlag == [a |-> "protected", o |-> "op", v |-> "voice", b |-> "ban",
             m |-> "moderated", i |-> "inviteOnly"]
Thread == Client \cup {Sweeper}

ASSUME ChannelsAssumption ==
    /\ Late \subseteq Client
    /\ InitFlags \in [Client -> SUBSET Flag]
    /\ Modes \subseteq DOMAIN ModeFlag
    /\ Sweeper \notin Client /\ None \notin Thread

VARIABLES
    online,         \* found by ServerImpl::getClient
    inside, flags,  \* ChannelImpl::clients
    listed,         \* clients whose m_channels has the channel
    modes,          \* ChannelImpl::flags
    upgrade,        \* who owns the channel's mutex for upgrade
    readers,        \* who set status flags under it
    held,           \* held[c]: who owns m_channelMutex of c to disconnect it
    userFlags,      \* channel_users
    channelFlags,   \* channels.flags
    bans,           \* bans[c]: who set the ban of c
    expired,        \* whose ban is over
    pc, job         \* where each thread is, and with what

vars == <<online, inside, flags, listed, modes, upgrade, readers, held,
          userFlags, channelFlags, bans, expired, pc, job>>
channel == <<inside, flags, modes>>
locks == <<upgrade, readers, held>>
registry == <<userFlags, channelFlags, bans, expired>>

NoJob == [target |-> None, set |-> {}, leaves |-> FALSE]
Goes(t, from, to) == pc[t] = from /\ pc' = [pc EXCEPT ![t] = to]
Begins(t, to, target, set, leaves) ==
    /\ Goes(t, "idle", to)
    /\ job' = [job EXCEPT ![t] = [target |-> target, set |-> set,
                                  leaves |-> leaves]]
Ends(t, from) ==
    /\ Goes(t, from, "idle")
    /\ job' = [job EXCEPT ![t] = NoJob]

(* getUserFlags, by id or by name.                                         *)
GetUserFlags(c) == userFlags[c]
(* getStatusFlags: nothing for one who is not inside.                      *)
StatusOf(c) == IF c \in inside THEN flags[c] ELSE {}

-----------------------------------------------------------------------------
(* Joining.                                                                *)

LogIn(c) ==
    /\ Goes(c, "off", "idle")
    /\ online' = online \cup {c}
    /\ UNCHANGED <<channel, listed, locks, registry, job>>

(* join, up to the check of bans: one who is banned is sent away.          *)
BeginJoin(c) ==
    /\ upgrade = None
    /\ c \notin inside
    /\ bans[c] = None \/ c \in expired
    /\ Begins(c, "unbanning", None, GetUserFlags(c), FALSE)
    /\ upgrade' = c
    /\ UNCHANGED <<online, channel, listed, readers, held, registry>>

(* A ban that has expired, and one that is not there, is removed.          *)
RemoveBan(c) ==
    /\ Goes(c, "unbanning", "entering")
    /\ bans' = [bans EXCEPT ![c] = None]
    /\ expired' = expired \ {c}
    /\ UNCHANGED <<online, channel, listed, locks, userFlags, channelFlags,
                   job>>

Enter(c) ==
    /\ readers = {}
    /\ Goes(c, "entering", "listing")
    /\ inside' = inside \cup {c}
    /\ flags' = [flags EXCEPT ![c] = job[c].set]
    /\ upgrade' = None
    /\ UNCHANGED <<online, modes, listed, readers, held, registry, job>>

(* joinChannel goes on under the client's own mutex.                       *)
List(c) ==
    /\ held[c] = None
    /\ Ends(c, "listing")
    /\ listed' = listed \cup {c}
    /\ UNCHANGED <<online, channel, locks, registry>>

-----------------------------------------------------------------------------
(* Leaving, and being made to leave.                                       *)

BeginPart(c) ==
    /\ c \in listed
    /\ Begins(c, "parting", c, {}, FALSE)
    /\ UNCHANGED <<online, channel, listed, locks, registry>>

(* Channel::part by t.                                                     *)
Part(t) ==
    /\ upgrade = None /\ readers = {}
    /\ Goes(t, "parting", "unlisting")
    /\ inside' = inside \ {job[t].target}
    /\ flags' = [flags EXCEPT ![job[t].target] = {}]
    /\ UNCHANGED <<online, modes, listed, locks, registry, job>>

Unlist(t) ==
    /\ Ends(t, "unlisting")
    /\ ~job[t].leaves /\ held[job[t].target] = None
    /\ listed' = listed \ {job[t].target}
    /\ UNCHANGED <<online, channel, locks, registry>>

(* The list of channels is looked at before it is locked.                  *)
MutantDisconnect(t, c) ==
    /\ IF t = Sweeper THEN c \in online ELSE t = c
    /\ Begins(t, IF c \in listed THEN "parting" ELSE "unlisting", c, {}, TRUE)
    /\ UNCHANGED <<online, channel, listed, locks, registry>>

(* disconnect, by the worker of c whose read failed or by Sweeper, keeps   *)
(* the client's mutex while it parts the channels.                         *)
Disconnect(t, c) ==
    /\ IF t = Sweeper THEN c \in online ELSE t = c
    /\ held[c] = None
    /\ Begins(t, IF c \in listed THEN "parting" ELSE "unlisting", c, {}, TRUE)
    /\ held' = [held EXCEPT ![c] = t]
    /\ UNCHANGED <<online, channel, listed, upgrade, readers, registry>>

Clear(t) ==
    /\ Goes(t, "unlisting", "erasing")
    /\ job[t].leaves
    /\ listed' = listed \ {job[t].target}
    /\ held' = [held EXCEPT ![job[t].target] = None]
    /\ UNCHANGED <<online, channel, upgrade, readers, registry, job>>

(* The end of removeClient.                                                *)
Erase(t) ==
    /\ Goes(t, "erasing", IF t = Sweeper THEN "idle" ELSE "gone")
    /\ online' = online \ {job[t].target}
    /\ job' = [job EXCEPT ![t] = NoJob]
    /\ UNCHANGED <<channel, listed, locks, registry>>

-----------------------------------------------------------------------------
(* Modes.  What setMode reads it reads in one step.                        *)

May(auth, s, u, mode) ==
    \/ mode = "a" /\ "protected" \in auth /\ u # s
    \/ mode = "o" /\ "protected" \in auth
    \/ mode \in {"v", "b"} /\ "op" \in auth

With(set, flag, on) == IF on THEN set \cup {flag} ELSE set \ {flag}

SetUserMode(s, u, mode, on) ==
    /\ s \in listed /\ u \in inside
    /\ May(StatusOf(s), s, u, mode)
    /\ LET set == With(flags[u], ModeFlag[mode], on)
       IN  /\ set # flags[u]
           /\ Begins(s, "writing", u, set, FALSE)
    /\ UNCHANGED <<online, channel, listed, locks, registry>>

(* The user is not in the channel: it is a mode of the channel.            *)
SetChannelMode(s, mode, on) ==
    /\ s \in listed
    /\ mode \in {"m", "i"} /\ "op" \in StatusOf(s)
    /\ LET set == With(modes, ModeFlag[mode], on)
       IN  /\ set # modes
           /\ Begins(s, "changing", None, set, FALSE)
    /\ UNCHANGED <<online, channel, listed, locks, registry>>

(* setStatusFlags, under the shared mutex.                                 *)
WriteFlags(s) ==
    /\ Goes(s, "writing", "committing")
    /\ job[s].target \in inside
    /\ flags' = [flags EXCEPT ![job[s].target] = job[s].set]
    /\ readers' = readers \cup {s}
    /\ UNCHANGED <<online, inside, modes, listed, upgrade, held, registry,
                   job>>

TargetLeft(s) ==
    /\ Ends(s, "writing")
    /\ job[s].target \notin inside
    /\ UNCHANGED <<online, channel, listed, locks, registry>>

CommitFlags(s) ==
    /\ Ends(s, "committing")
    /\ userFlags' = [userFlags EXCEPT ![job[s].target] = job[s].set]
    /\ readers' = readers \ {s}
    /\ UNCHANGED <<online, channel, listed, upgrade, held, channelFlags,
                   bans, expired>>

(* setChannelFlags, without the mutex.                                     *)
WriteModes(s) ==
    /\ Goes(s, "changing", "changed")
    /\ modes' = job[s].set
    /\ UNCHANGED <<online, inside, flags, listed, locks, registry, job>>

CommitModes(s) ==
    /\ Ends(s, "changed")
    /\ channelFlags' = job[s].set
    /\ UNCHANGED <<online, channel, listed, locks, userFlags, bans, expired>>

-----------------------------------------------------------------------------
(* Kicks and bans.                                                         *)

(* Who may do anything to u.                                               *)
Authority(s, u) ==
    /\ s \in listed
    /\ "op" \in StatusOf(s)
    /\ "protected" \notin GetUserFlags(u)
    /\ "protected" \in StatusOf(s) \/ "op" \notin GetUserFlags(u)

Kick(s, u) ==
    /\ Authority(s, u)
    /\ u \in online \cap listed
    /\ Begins(s, "parting", u, {}, FALSE)
    /\ UNCHANGED <<online, channel, listed, locks, registry>>

(* A ban that another set is changed only by one of his level.             *)
MayChangeBan(s, u) ==
    bans[u] # None /\ "protected" \in GetUserFlags(bans[u])
        => "protected" \in StatusOf(s)

(* Whether the user is online is known from before the ban.                *)
Ban(s, u) ==
    /\ Authority(s, u) /\ MayChangeBan(s, u)
    /\ Begins(s, IF u \in online THEN "banning" ELSE "banningOffline", u, {},
              FALSE)
    /\ UNCHANGED <<online, channel, listed, locks, registry>>

(* The user is made to leave first.                                        *)
MutantCommitBan(s) ==
    \/ /\ upgrade = None /\ readers = {}
       /\ Goes(s, "banning", "banningOffline")
       /\ inside' = inside \ {job[s].target}
       /\ listed' = listed \ {job[s].target}
       /\ UNCHANGED <<online, flags, modes, locks, registry, job>>
    \/ /\ Ends(s, "banningOffline")
       /\ bans' = [bans EXCEPT ![job[s].target] = s]
       /\ expired' = expired \ {job[s].target}
       /\ UNCHANGED <<online, channel, listed, locks, userFlags, channelFlags>>

CommitBan(s) ==
    /\ \/ Goes(s, "banning", "parting") /\ UNCHANGED job
       \/ Ends(s, "banningOffline")
    /\ bans' = [bans EXCEPT ![job[s].target] = s]
    /\ expired' = expired \ {job[s].target}
    /\ UNCHANGED <<online, channel, listed, locks, userFlags, channelFlags>>

Unban(s, u) ==
    /\ Authority(s, u) /\ MayChangeBan(s, u)
    /\ bans[u] # None
    /\ Begins(s, "unbanningOther", u, {}, FALSE)
    /\ UNCHANGED <<online, channel, listed, locks, registry>>

CommitUnban(s) ==
    /\ Ends(s, "unbanningOther")
    /\ bans' = [bans EXCEPT ![job[s].target] = None]
    /\ expired' = expired \ {job[s].target}
    /\ UNCHANGED <<online, channel, listed, locks, userFlags, channelFlags>>

Expire(u) ==
    /\ bans[u] # None /\ u \notin expired
    /\ expired' = expired \cup {u}
    /\ UNCHANGED <<online, channel, listed, locks, userFlags, channelFlags,
                   bans, pc, job>>

-----------------------------------------------------------------------------
Init ==
    /\ online = Client \ Late
    /\ inside = {} /\ flags = [c \in Client |-> {}]
    /\ listed = {}
    /\ modes = {}
    /\ upgrade = None /\ readers = {} /\ held = [c \in Client |-> None]
    /\ userFlags = InitFlags
    /\ channelFlags = {}
    /\ bans = [c \in Client |-> None] /\ expired = {}
    /\ pc = [t \in Thread |-> IF t \in Late THEN "off" ELSE "idle"]
    /\ job = [t \in Thread |-> NoJob]

Membership(c) ==
    \/ LogIn(c) \/ BeginJoin(c) \/ RemoveBan(c) \/ Enter(c) \/ List(c)
    \/ BeginPart(c)
    \/ \E t \in Thread : Disconnect(t, c)

Moderation(s) ==
    \/ \E u \in Client :
        \/ \E mode \in Modes \cap {"a", "o", "v", "b"}, on \in BOOLEAN :
                SetUserMode(s, u, mode, on)
        \/ Kick(s, u) \/ Ban(s, u) \/ Unban(s, u)
    \/ \E mode \in Modes, on \in BOOLEAN : SetChannelMode(s, mode, on)
    \/ WriteFlags(s) \/ TargetLeft(s) \/ CommitFlags(s)
    \/ WriteModes(s) \/ CommitModes(s)
    \/ CommitBan(s) \/ CommitUnban(s)

Next ==
    \/ \E c \in Client : Membership(c) \/ Moderation(c) \/ Expire(c)
    \/ \E t \in Thread : Part(t) \/ Unlist(t) \/ Clear(t) \/ Erase(t)

Spec == Init /\ [][Next]_vars

-----------------------------------------------------------------------------
(* Whoever is online and banned is not in the channel, or is just being    *)
(* made to leave, although join looks for bans before it lets him in and   *)
(* the ban may come between the two.  It does not hold of one who logs in  *)
(* after handleBanMessage did not find him: nobody makes him leave.        *)
BannedAreOut ==
    \A c \in (inside \cap online) \ Late : bans[c] # None /\ c \notin expired =>
        \E t \in Thread : pc[t] = "parting" /\ job[t].target = c

Settled(c) ==
    /\ pc[c] \in {"idle", "gone"}
    /\ \A t \in Thread : job[t].target # c

(* The flags of the members are those of the registry whenever none is     *)
(* being changed, although a member may leave and come back meanwhile and  *)
(* reads them there; and so are the modes of the channel.  This is of one  *)
(* operator, for of two the one who is first to write may be last to       *)
(* commit, and one who is protected may write flags as well.               *)
OperatesAlone ==
    /\ \A c, d \in Client : "op" \in InitFlags[c] \cap InitFlags[d] => c = d
    /\ Modes \cap {"a", "o"} = {}
RegistryAgrees ==
    OperatesAlone =>
        /\ \A c \in inside : flags[c] = userFlags[c]
                \/ \E t \in Thread : pc[t] = "committing" /\ job[t].target = c
        /\ modes = channelFlags \/ \E t \in Thread : pc[t] = "changed"

(* The list of channels of a client and the list of clients of the channel *)
(* agree for everyone who cannot be kicked, so that he is out of the       *)
(* channel when he is gone, whichever threads remove him while he joins or *)
(* leaves.  Nobody is made protected meanwhile: he may be being kicked.    *)
ListsAgree ==
    \A c \in Client :
        "a" \notin Modes /\ "protected" \in userFlags[c] /\ Settled(c) =>
            /\ c \in inside <=> c \in listed
            /\ pc[c] = "gone" => c \notin inside

(* What the channel knows of its members is what the registry and the      *)
(* clients know of them.                                                   *)
MembersAgree == RegistryAgrees /\ ListsAgree
=============================================================================
