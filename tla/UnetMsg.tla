------------------------------ MODULE UnetMsg ------------------------------
(***************************************************************************)
(* unetmsgd: publish/subscribe between the hosts of a unet network, in     *)
(* package/network/services/unetmsg/files/usr/share/ucode/unetmsg.         *)
(*                                                                         *)
(* Every host opens one channel to each peer (its tx channel) and accepts  *)
(* one from each peer (its rx channel).  Over its tx channel it announces  *)
(* the names its local clients publish and subscribe; what comes over the  *)
(* rx channel is the remote state of that peer.  A channel is a stream     *)
(* that can be lost at any moment.  The sockets have TCP_USER_TIMEOUT and  *)
(* no keepalive: an end that sent something the peer did not get is told   *)
(* of it, an idle one may never be.                                        *)
(*                                                                         *)
(* One network; a link <<a, b>> stands for the channels that a opens to b. *)
(* A token of unetd is either valid or not obtained.                       *)
(***************************************************************************)
EXTENDS Naturals, Sequences, FiniteSets, SequencesExt

CONSTANTS
    Hosts, Names, Clients,
    Home,        \* the host each client is connected to
    Uses,        \* Uses[c]: the <<kind, name>> client c asks for
    Slots,       \* bound: channels of a link that exist at the same time
    MaxWire,     \* bound: announcements in flight before a client waits
    MaxFaults    \* bound: lost channels, failed handshakes, slow handshakes,
                 \* configuration changes, restarts

ASSUME ClientAssumption ==
    Home \in [Clients -> Hosts] /\ Uses \in [Clients -> SUBSET ({"publish", "subscribe"} \X Names)]
ASSUME NamesAssumption == IsFiniteSet(Names)
ASSUME BoundAssumption == Slots \subseteq Nat \ {0} /\ MaxWire \in Nat /\ MaxFaults \in Nat

Kinds == {"publish", "subscribe"}
Links == {l \in Hosts \X Hosts : l[1] # l[2]}
Back(l) == <<l[2], l[1]>>
None == [k \in Kinds |-> {}]

VARIABLES
    cl,        \* cl[c][kind]: names client c published or subscribed
    keys,      \* keys[h][kind]: names that have a list in core[kind]
    peers,     \* peers[l]: names that l[2] allows from l[1], which is no peer
               \* of it when there are none
    conn,      \* conn[l][s]: the channels of a link
    tx,        \* tx[l]: net.tx_channels at l[1]; 0 for no channel
    rx,        \* rx[l]: net.rx_channels at l[2]
    remote,    \* remote[l][kind]: names with an entry for l[1] in the
               \* remote_publish and remote_subscribe of l[2]
    timer,     \* timer[h]: net.timer runs
    open,      \* open[h]: h listens and has the network in its networks
    told,      \* observer: names of l[1] that l[2] told its subscribers of
               \* since it can reach l[1]
    faults

vars == <<cl, keys, peers, conn, tx, rx, remote, timer, open, told, faults>>
data == <<cl, keys>>

-----------------------------------------------------------------------------
(* A channel: how far the handshake is; whether the ends a and b are open; *)
(* whether the stream is cut, and to which ends TCP reports it; whether a  *)
(* and b take it as authenticated; what is under way to b; whether a       *)
(* client's message is ahead of it; the names b has noted; and the names   *)
(* that had a list and no client when they were announced.                 *)
Free == [st |-> "free", a |-> FALSE, b |-> FALSE, cut |-> FALSE, sign |-> {},
         aok |-> FALSE, bok |-> FALSE, wire |-> <<>>, early |-> FALSE, list |-> None, empty |-> None]
Opened == [Free EXCEPT !.st = "syn", !.a = TRUE, !.b = TRUE]

Set(n, enabled, k) == [kind |-> k, name |-> n, enabled |-> enabled]

Put(l, s, c) == [conn EXCEPT ![l][s] = IF c.a \/ c.b THEN c ELSE Free]
EndA(c) == [c EXCEPT !.a = FALSE]
EndB(c) == [c EXCEPT !.b = FALSE]

(* The ends of the channels in S and T closed by their hosts *)
Closed(S, T) ==
    [l \in Links |-> [s \in Slots |->
        LET c == [conn[l][s] EXCEPT !.a = @ /\ <<l, s>> \notin S, !.b = @ /\ <<l, s>> \notin T]
        IN  IF c.a \/ c.b THEN c ELSE Free]]

tx_auth(l) == tx[l] # 0 /\ conn[l][tx[l]].aok
Known(l) == peers[l] # {}

Users(h, k, n) == {c \in Clients : Home[c] = h /\ n \in cl[c][k]}
Live(h, k) == {n \in Names : Users(h, k, n) # {}}

Fault == faults < MaxFaults /\ faults' = faults + 1

Init ==
    /\ cl = [c \in Clients |-> None]
    /\ keys = [h \in Hosts |-> None]
    /\ peers = [l \in Links |-> Names]
    /\ conn = [l \in Links |-> [s \in Slots |-> Free]]
    /\ tx = [l \in Links |-> 0] /\ rx = [l \in Links |-> 0]
    /\ remote = [l \in Links |-> None]
    /\ timer = [h \in Hosts |-> TRUE] /\ open = [h \in Hosts |-> TRUE]
    /\ told = [l \in Links |-> {}]
    /\ faults = 0

-----------------------------------------------------------------------------
(* Local clients *)

(* What is sent over a channel that was cut is not acknowledged, and       *)
(* TCP_USER_TIMEOUT runs out                                               *)
Sent(c, msgs) ==
    IF ~c.cut THEN [c EXCEPT !.wire = @ \o msgs]
    ELSE IF msgs = <<>> THEN c ELSE [c EXCEPT !.sign = @ \union {"a"}]

(* pubsub_set: to every authenticated tx channel *)
pubsub_set(h, msgs) ==
    conn' = [l \in Links |-> [s \in Slots |->
        IF l[1] = h /\ s = tx[l] /\ conn[l][s].aok THEN Sent(conn[l][s], msgs) ELSE conn[l][s]]]

Room(h) ==
    \A l \in Links : l[1] = h /\ tx[l] # 0 =>
        conn[l][tx[l]].cut \/ Len(conn[l][tx[l]].wire) < MaxWire

\* mutant: announced when the name has no list, not when the list is empty
client_pubsub_new_list(c, k, n) ==
    /\ <<k, n>> \in Uses[c] /\ n \notin cl[c][k] /\ Room(Home[c])
    /\ LET first == n \notin keys[Home[c]][k]
       IN  pubsub_set(Home[c], IF first \/ k = "publish" THEN <<Set(n, TRUE, k)>> ELSE <<>>)
    /\ cl' = [cl EXCEPT ![c][k] = @ \union {n}]
    /\ keys' = [keys EXCEPT ![Home[c]][k] = @ \union {n}]
    /\ UNCHANGED <<peers, tx, rx, remote, timer, open, told, faults>>

\* mutant: the list is kept under the client, not under the name
client_pubsub_by_client(c, k, n) ==
    /\ <<k, n>> \in Uses[c] /\ n \notin cl[c][k] /\ Room(Home[c])
    /\ LET first == Users(Home[c], k, n) = {}
       IN  pubsub_set(Home[c], IF first \/ k = "publish" THEN <<Set(n, TRUE, k)>> ELSE <<>>)
    /\ cl' = [cl EXCEPT ![c][k] = @ \union {n}]
    /\ keys' = [keys EXCEPT ![Home[c]][k] = @ \union {c}]
    /\ UNCHANGED <<peers, tx, rx, remote, timer, open, told, faults>>

(* client_pubsub, pubsub_add *)
client_pubsub(c, k, n) ==
    /\ <<k, n>> \in Uses[c] /\ n \notin cl[c][k] /\ Room(Home[c])
    /\ LET first == Users(Home[c], k, n) = {}
       IN  pubsub_set(Home[c], IF first \/ k = "publish" THEN <<Set(n, TRUE, k)>> ELSE <<>>)
    /\ cl' = [cl EXCEPT ![c][k] = @ \union {n}]
    /\ keys' = [keys EXCEPT ![Home[c]][k] = @ \union {n}]
    /\ UNCHANGED <<peers, tx, rx, remote, timer, open, told, faults>>

(* client_disconnect, pubsub_del: a publisher is announced whatever is     *)
(* left, a subscriber when it was the last                                 *)
client_disconnect(c) ==
    LET h == Home[c]
        others(k, n) == Users(h, k, n) \ {c}
        Del(k, S) == LET q == SetToSeq(S)
                     IN  [i \in 1..Len(q) |-> Set(q[i], others(k, q[i]) # {}, k)]
    IN  /\ cl[c] # None /\ Room(h)
        /\ pubsub_set(h, Del("publish", cl[c]["publish"]) \o
               Del("subscribe", {n \in cl[c]["subscribe"] : others("subscribe", n) = {}}))
        /\ cl' = [cl EXCEPT ![c] = None]
        /\ UNCHANGED <<keys, peers, tx, rx, remote, timer, open, told, faults>>

(* handle_message: get_channel does not ask whether the channel is         *)
(* authenticated; one that is takes the message and nothing changes, but   *)
(* that it may be the first to be sent since the stream was cut            *)
client_message(c, n) ==
    /\ n \in cl[c]["publish"]
    /\ \E l \in Links :
        /\ l[1] = Home[c] /\ n \in remote[Back(l)]["subscribe"] /\ tx[l] # 0
        /\ LET d == conn[l][tx[l]] IN
            \/ /\ d.cut /\ UNCHANGED faults
               /\ conn' = Put(l, tx[l], [d EXCEPT !.sign = @ \union {"a"}])
            \/ /\ Fault /\ ~d.cut /\ d.st \in {"syn", "hello"}
               /\ conn' = Put(l, tx[l], [d EXCEPT !.early = TRUE])
    /\ UNCHANGED <<data, peers, tx, rx, remote, timer, open, told>>

-----------------------------------------------------------------------------
(* The handshake *)

(* network_connect_peers, run by net.timer, and network_open_channel.  A   *)
(* handshake that is still going on is given up (one that is too slow, or  *)
(* of which no more comes).                                                *)
Pending(h) == {l \in Links : l[1] = h /\ Known(Back(l)) /\ ~tx_auth(l)}
Slot(l) == CHOOSE s \in Slots : conn[l][s] = Free

network_connect_peers(h) ==
    LET pending == Pending(h) IN
    /\ timer[h] /\ \A l \in pending : \E s \in Slots : conn[l][s] = Free
    /\ IF \E l \in pending : tx[l] # 0 /\ ~conn[l][tx[l]].cut THEN Fault ELSE UNCHANGED faults
    /\ conn' = [l \in Links |->
            IF l \notin pending THEN conn[l]
            ELSE [s \in Slots |->
                    IF s = Slot(l) THEN Opened
                    ELSE IF s # tx[l] THEN conn[l][s]
                    ELSE IF conn[l][s].b THEN EndA(conn[l][s]) ELSE Free]]
    /\ tx' = [l \in Links |-> IF l \in pending THEN Slot(l) ELSE tx[l]]
    /\ timer' = [timer EXCEPT ![h] = pending # {}]
    /\ UNCHANGED <<data, peers, rx, remote, open, told>>

(* network_accept; nobody listens when network_open failed *)
network_accept(l, s) ==
    LET c == conn[l][s] IN
    /\ c.st = "syn" /\ c.a /\ c.b /\ ~c.cut
    /\ conn' = Put(l, s, IF Known(l) /\ open[l[2]] THEN [c EXCEPT !.st = "hello"] ELSE EndB(c))
    /\ UNCHANGED <<data, peers, tx, rx, remote, timer, open, told, faults>>

(* The tx channel's callback: hello, answered with a token *)
hello(l, s) ==
    LET c == conn[l][s] IN
    /\ c.st = "hello" /\ c.a /\ ~c.cut
    /\ \/ conn' = Put(l, s, [c EXCEPT !.st = "auth"]) /\ UNCHANGED <<tx, told, faults>>
       \/ /\ Fault
          /\ conn' = Put(l, s, EndA(c)) /\ tx' = [tx EXCEPT ![l] = 0]
          /\ told' = [told EXCEPT ![Back(l)] = {}]
    /\ UNCHANGED <<data, peers, rx, remote, timer, open>>

\* mutant: a host takes a peer's channel only once its own is up
network_check_auth_wait(l, s) ==
    LET c == conn[l][s]  b == l[2] IN
    /\ c.b /\ ~c.cut /\ ~c.bok
    /\ c.st = "auth" /\ ~c.early /\ Known(l) /\ open[b] /\ tx_auth(Back(l))
    /\ conn' = [Closed({}, IF rx[l] = 0 THEN {} ELSE {<<l, rx[l]>>})
                  EXCEPT ![l][s] = [c EXCEPT !.st = "reply", !.bok = TRUE]]
    /\ rx' = [rx EXCEPT ![l] = s]
    /\ remote' = [remote EXCEPT ![l] = None]
    /\ told' = [told EXCEPT ![l] = {}]
    /\ UNCHANGED <<data, peers, tx, timer, open, faults>>

(* The rx channel's callback before it is authenticated: network_check_auth *)
(* takes the place of an older channel; whatever else arrives closes it     *)
network_check_auth(l, s) ==
    LET c == conn[l][s]  b == l[2] IN
    /\ c.b /\ ~c.cut /\ ~c.bok
    /\ \/ /\ c.st = "auth" /\ ~c.early /\ Known(l) /\ open[b]
          /\ conn' = [Closed({}, IF rx[l] = 0 THEN {} ELSE {<<l, rx[l]>>})
                        EXCEPT ![l][s] = [c EXCEPT !.st = "reply", !.bok = TRUE]]
          /\ rx' = [rx EXCEPT ![l] = s]
          /\ remote' = [remote EXCEPT ![l] = None]
          /\ told' = [told EXCEPT ![l] = {}]
          /\ timer' = [timer EXCEPT ![b] = @ \/ ~tx_auth(Back(l))]
       \/ /\ \/ c.early /\ c.st # "syn"
             \/ c.st = "auth" /\ ~(Known(l) /\ open[b])
          /\ conn' = Put(l, s, EndB(c))
          /\ UNCHANGED <<rx, remote, told, timer>>
    /\ UNCHANGED <<data, peers, tx, open, faults>>

(* auth_data_cb: every name with a list is announced, and local clients    *)
(* hear of what the peer publishes; auth_cb when the peer got no token     *)
Announced(h) ==
    LET All(k) == LET q == SetToSeq(keys[h][k]) IN [i \in 1..Len(q) |-> Set(q[i], TRUE, k)]
    IN  All("publish") \o All("subscribe")

\* mutant: the names the peer published before are not handed on
auth_data_silent(l, s) ==
    LET c == conn[l][s]  up == Back(l) IN
    /\ c.st = "reply" /\ c.a /\ ~c.cut
    /\ \/ /\ conn' = Put(l, s, [c EXCEPT !.st = "up", !.aok = TRUE, !.wire = Announced(l[1]),
                                !.empty = [k \in Kinds |-> keys[l[1]][k] \ Live(l[1], k)]])
          /\ UNCHANGED <<tx, told, faults>>
       \/ /\ Fault
          /\ conn' = Put(l, s, EndA(c)) /\ tx' = [tx EXCEPT ![l] = 0]
          /\ told' = [told EXCEPT ![up] = {}]
    /\ UNCHANGED <<data, peers, rx, remote, timer, open>>

auth_data(l, s) ==
    LET c == conn[l][s]  up == Back(l) IN
    /\ c.st = "reply" /\ c.a /\ ~c.cut
    /\ \/ /\ conn' = Put(l, s, [c EXCEPT !.st = "up", !.aok = TRUE, !.wire = Announced(l[1]),
                                !.empty = [k \in Kinds |-> keys[l[1]][k] \ Live(l[1], k)]])
          /\ told' = [told EXCEPT ![up] = @ \union
                        IF rx[up] = 0 THEN {} ELSE conn[up][rx[up]].list["publish"]]
          /\ UNCHANGED <<tx, faults>>
       \/ /\ Fault
          /\ conn' = Put(l, s, EndA(c)) /\ tx' = [tx EXCEPT ![l] = 0]
          /\ told' = [told EXCEPT ![up] = {}]
    /\ UNCHANGED <<data, peers, rx, remote, timer, open>>

(* The timers of both ends: 10 s for the handshake, which only a cut one   *)
(* needs                                                                   *)
handshake_timeout(l, s) ==
    LET c == conn[l][s] IN
    /\ IF c.cut THEN UNCHANGED faults ELSE Fault
    /\ \/ /\ c.a /\ c.st \in {"auth", "reply"}
          /\ conn' = Put(l, s, EndA(c)) /\ tx' = [tx EXCEPT ![l] = 0]
       \/ /\ c.b /\ c.st \in {"hello", "auth"}
          /\ conn' = Put(l, s, EndB(c)) /\ tx' = tx
    /\ UNCHANGED <<data, peers, rx, remote, timer, open, told>>

-----------------------------------------------------------------------------
(* network_socket_handle_request: the peer's names, of which it is allowed *)
(* some                                                                    *)
network_socket_handle_request(l, s) ==
    LET c == conn[l][s]
        m == Head(c.wire)
        k == m.kind
        rest == [c EXCEPT !.wire = Tail(@)]
        noted == m.name \in c.list[k]
        Tell == told' = IF k = "publish" /\ tx_auth(Back(l))
                        THEN [told EXCEPT ![l] = @ \union {m.name}] ELSE told
        Ignore == conn' = Put(l, s, rest) /\ UNCHANGED remote
    IN  /\ c.b /\ c.bok /\ c.wire # <<>>
        /\ \/ m.enabled /\ noted /\ Ignore /\ Tell
           \/ /\ m.enabled /\ ~noted /\ m.name \in peers[l]
              /\ conn' = Put(l, s, [rest EXCEPT !.list[k] = @ \union {m.name}])
              /\ remote' = [remote EXCEPT ![l][k] = @ \union {m.name}]
              /\ Tell
           \/ /\ ~noted /\ (m.enabled => m.name \notin peers[l])
              /\ Ignore /\ UNCHANGED told
           \/ /\ ~m.enabled /\ noted
              /\ conn' = Put(l, s, [rest EXCEPT !.list[k] = @ \ {m.name}])
              /\ remote' = [remote EXCEPT ![l][k] = @ \ {m.name}]
              /\ told' = IF k = "publish" THEN [told EXCEPT ![l] = @ \ {m.name}] ELSE told
        /\ UNCHANGED <<data, peers, tx, rx, timer, open, faults>>

(* The stream breaks; what was under way may be lost in part, which a is   *)
(* then told of.  A connection that was not accepted yet has no end b.     *)
cut(l, s) ==
    LET c == conn[l][s] IN
    /\ Fault /\ c.a /\ c.b /\ ~c.cut
    /\ \E n \in 0..Len(c.wire), sign \in SUBSET {"a", "b"} :
        /\ n < Len(c.wire) => "a" \in sign
        /\ conn' = Put(l, s, [c EXCEPT !.cut = TRUE, !.sign = sign, !.wire = SubSeq(@, 1, n),
                                       !.b = c.st # "syn"])
    /\ UNCHANGED <<data, peers, tx, rx, remote, timer, open, told>>

(* disconnect_cb of the tx channel: network_tx_socket_close and net.timer *)
tx_disconnect(l, s) ==
    LET c == conn[l][s] IN
    /\ c.a /\ IF c.cut THEN "a" \in c.sign ELSE ~c.b
    /\ conn' = Put(l, s, EndA(c))
    /\ tx' = [tx EXCEPT ![l] = 0]
    /\ told' = [told EXCEPT ![Back(l)] = {}]
    /\ timer' = [timer EXCEPT ![l[1]] = open[l[1]]]
    /\ UNCHANGED <<data, peers, rx, remote, open, faults>>

\* mutant: the state of the peer is left behind
rx_disconnect_keep(l, s) ==
    LET c == conn[l][s] IN
    /\ c.b /\ IF c.cut THEN "b" \in c.sign ELSE ~c.a
    /\ conn' = Put(l, s, EndB(c))
    /\ rx' = IF rx[l] = s THEN [rx EXCEPT ![l] = 0] ELSE rx
    /\ UNCHANGED <<data, peers, tx, remote, told, timer, open, faults>>

(* disconnect_cb of the rx channel: network_rx_socket_close *)
rx_disconnect(l, s) ==
    LET c == conn[l][s] IN
    /\ c.b /\ IF c.cut THEN "b" \in c.sign ELSE ~c.a
    /\ conn' = Put(l, s, EndB(c))
    /\ IF rx[l] = s
       THEN /\ rx' = [rx EXCEPT ![l] = 0]
            /\ remote' = [remote EXCEPT ![l] = None]
            /\ told' = [told EXCEPT ![l] = {}]
       ELSE UNCHANGED <<rx, remote, told>>
    /\ UNCHANGED <<data, peers, tx, timer, open, faults>>

(* Host h closes its channels of the links in S, which lead to it, and of  *)
(* the links back                                                          *)
CloseAll(S) ==
    LET out == {Back(l) : l \in S} IN
    /\ conn' = Closed({<<l, tx[l]>> : l \in out}, {<<l, rx[l]>> : l \in S})
    /\ tx' = [l \in Links |-> IF l \in out THEN 0 ELSE tx[l]]
    /\ rx' = [l \in Links |-> IF l \in S THEN 0 ELSE rx[l]]
    /\ remote' = [l \in Links |-> IF l \in S THEN None ELSE remote[l]]
    /\ told' = [l \in Links |-> IF l \in S THEN {} ELSE told[l]]

(* network_open: the listen may fail, which leaves h without the network   *)
(* and its timer                                                           *)
Opening(h) ==
    \E listens \in BOOLEAN :
        open' = [open EXCEPT ![h] = listens] /\ timer' = [timer EXCEPT ![h] = listens]

(* unetd_network_update on a host that has not got the network             *)
network_open(h) ==
    /\ ~open[h] /\ Opening(h)
    /\ UNCHANGED <<data, peers, conn, tx, rx, remote, told, faults>>

(* network_update: what l[2] allows l[1] changes; a host that has not got *)
(* the network, and so no channel to close, opens it                       *)
network_update(l, allowed) ==
    /\ allowed # peers[l]
    /\ CloseAll({l})
    /\ peers' = [peers EXCEPT ![l] = allowed]
    /\ \/ Fault /\ open[l[2]] /\ timer' = [timer EXCEPT ![l[2]] = TRUE] /\ UNCHANGED open
       \/ ~open[l[2]] /\ Opening(l[2]) /\ UNCHANGED faults
    /\ UNCHANGED data

(* network_close and network_open, when the local address changed *)
network_reopen(h) ==
    /\ Fault /\ open[h]
    /\ CloseAll({l \in Links : l[2] = h})
    /\ Opening(h)
    /\ UNCHANGED <<data, peers>>

(* The daemon of h is restarted; its sockets are closed, those of channels *)
(* not authenticated yet included                                          *)
restart(h) ==
    /\ Fault
    /\ conn' = Closed({ls \in Links \X Slots : ls[1][1] = h}, {ls \in Links \X Slots : ls[1][2] = h})
    /\ tx' = [l \in Links |-> IF l[1] = h THEN 0 ELSE tx[l]]
    /\ rx' = [l \in Links |-> IF l[2] = h THEN 0 ELSE rx[l]]
    /\ remote' = [l \in Links |-> IF l[2] = h THEN None ELSE remote[l]]
    /\ told' = [l \in Links |-> IF l[2] = h THEN {} ELSE told[l]]
    /\ cl' = [c \in Clients |-> IF Home[c] = h THEN None ELSE cl[c]]
    /\ keys' = [keys EXCEPT ![h] = None]
    /\ Opening(h)
    /\ UNCHANGED peers

-----------------------------------------------------------------------------
Client == \E c \in Clients :
    \/ client_disconnect(c)
    \/ \E n \in Names : client_message(c, n) \/ \E k \in Kinds : client_pubsub(c, k, n)

Channel(l, s) ==
    \/ network_accept(l, s) \/ hello(l, s) \/ network_check_auth(l, s) \/ auth_data(l, s)
    \/ network_socket_handle_request(l, s) \/ tx_disconnect(l, s) \/ rx_disconnect(l, s)

Trouble ==
    \/ \E l \in Links, s \in Slots : handshake_timeout(l, s) \/ cut(l, s)
    \/ \E l \in Links, allowed \in SUBSET Names : network_update(l, allowed)
    \/ \E h \in Hosts : network_open(h) \/ network_reopen(h) \/ restart(h)

Next ==
    \/ Client \/ Trouble
    \/ \E h \in Hosts : network_connect_peers(h)
    \/ \E l \in Links, s \in Slots : Channel(l, s)

(* uloop serves every descriptor that is ready and every timer that ran    *)
(* out.  Clients owe nothing, nor does unetd; and TCP owes an end nothing  *)
(* that has nothing unacknowledged.                                        *)
Fairness ==
    /\ \A h \in Hosts : WF_vars(network_connect_peers(h))
    /\ \A l \in Links, s \in Slots :
        WF_vars(Channel(l, s)) /\ WF_vars(conn[l][s].cut /\ handshake_timeout(l, s))

Spec == Init /\ [][Next]_vars /\ Fairness

-----------------------------------------------------------------------------
(* Every variable has its type *)
TypeOK ==
    /\ cl \in [Clients -> [Kinds -> SUBSET Names]]
    /\ keys \in [Hosts -> [Kinds -> SUBSET Names]]
    /\ peers \in [Links -> SUBSET Names]
    /\ \A l \in Links, s \in Slots :
        conn[l][s].st \in {"free", "syn", "hello", "auth", "reply", "up"}
    /\ {tx[l] : l \in Links} \union {rx[l] : l \in Links} \subseteq Slots \union {0}
    /\ remote \in [Links -> [Kinds -> SUBSET Names]]
    /\ {timer, open} \subseteq [Hosts -> BOOLEAN] /\ told \in [Links -> SUBSET Names]

(* Over a channel that both ends take as authenticated and that has        *)
(* nothing under way, the peer has every name that a local client holds    *)
(* and that it allows, and no other name but one that had lost its last    *)
(* client before the channel came up.                                      *)
Agreement ==
    \A l \in Links : tx_auth(l) /\ rx[l] = tx[l] =>
        LET c == conn[l][tx[l]] IN
        c.wire = <<>> /\ ~c.cut => \A k \in Kinds :
            /\ Live(l[1], k) \intersect peers[l] \subseteq remote[l][k]
            /\ remote[l][k] \subseteq Live(l[1], k) \union c.empty[k]

(* The remote state of a peer is what came over its present rx channel:    *)
(* nothing is left of a channel that was lost, replaced or closed, and no  *)
(* name is in it that the peer is not allowed.                             *)
NothingStale ==
    \A l \in Links :
        /\ rx[l] = 0 => remote[l] = None
        /\ rx[l] # 0 => conn[l][rx[l]].bok /\ remote[l] = conn[l][rx[l]].list
        /\ \A k \in Kinds : remote[l][k] \subseteq peers[l]

(* Local subscribers are told of every name a peer publishes once the peer *)
(* can be reached, whichever of the two channels came up first.            *)
SubscribersTold ==
    \A l \in Links : tx_auth(Back(l)) => remote[l]["publish"] \subseteq told[l]

(* A channel that was cut while it was idle, and that nothing was sent     *)
(* over since: its host takes the peer as connected.                       *)
Unnoticed(l) ==
    tx_auth(l) /\ conn[l][tx[l]].cut /\ "a" \notin conn[l][tx[l]].sign

(* Two hosts that listen and know each other end up connected both ways,   *)
(* unless the network keeps failing them: no failed or replaced handshake, *)
(* timeout, reconfiguration or loss that TCP reports leaves a host without *)
(* a timer that tries again.  A channel that was cut while idle is the     *)
(* exception, for network_check_auth leaves the timer alone as well.       *)
Reconnects ==
    <>[](\A l \in Links :
            Known(l) /\ Known(Back(l)) /\ open[l[1]] /\ open[l[2]] =>
                \/ Unnoticed(l)
                \/ tx_auth(l) /\ rx[l] = tx[l] /\ ~conn[l][tx[l]].cut)
=============================================================================
