---------------------------- MODULE PeerDiscovery ----------------------------
(* Discovery of other devices on the LAN: the advertiser thread, the peer     *)
(* cache PEERS and the Settings toggle in src/tools/mdns.rs, its line in the  *)
(* settings file (src/tools/settings_store.rs), and the thread in src/main.rs *)
(* that refreshes the device list of the UI.                                  *)
(*                                                                            *)
(* A packet is what parse_discovery_response and response_for_query make of   *)
(* it: who announces itself or leaves, or a query that is answered.  Packets  *)
(* may be lost; those received wait in the socket while the toggle is off.    *)
(* Modelled with the standard port bound: the announcement-only fallback      *)
(* receives nothing.                                                          *)
(* A write of the settings file that fails is left out: settings_store::set   *)
(* ignores the error, and the toggle is then simply not kept.                 *)
EXTENDS Naturals, FiniteSets, Sequences, Functions

CONSTANTS Peers,        \* other devices; one stands for its addresses
          Self,         \* this device
          Ttl,          \* PEER_TTL, in periods of the announcement (3 s)
          MaxBuffer     \* bound: packets of others waiting in the socket

ASSUME DiscoveryConstants ==
    /\ Self \notin Peers
    /\ Ttl \in Nat \ {0}
    /\ MaxBuffer \in Nat

VARIABLES
    enabled,     \* MDNS_ENABLED
    ui,          \* control state of the UI thread
    saved,       \* the toggle's line in the settings file
    text,        \* what the line will be when the file is written
    age,         \* PEERS: listed peer -> periods since it was last heard of
    buffer,      \* packets waiting in the socket
    adv,         \* control state of the advertiser thread
    wasEnabled,  \* was_enabled
    due,         \* last_announce is 3 s or more ago
    heard,       \* what the LAN last heard of this device
    unsaid,      \* history variable: turned off before the loop was entered, after
                 \* the first announcement or one of an earlier launch
    asking,      \* the discovery thread awaits answers to its query
    devices,     \* the device list of the UI
    up           \* the peers that run

radio == <<buffer, adv, wasEnabled, due, heard, unsaid>>
settings == <<ui, saved, text>>
vars == <<enabled, settings, age, radio, asking, devices, up>>

Lines == {"none", "on", "off"}
Kinds == {"announce", "goodbye", "query"}
Packets == [kind : Kinds, from : Peers \cup {Self}]

TypeOK ==
    /\ enabled \in BOOLEAN
    /\ ui \in {"idle", "clear", "save", "write"}
    /\ saved \in Lines /\ text \in Lines
    /\ DOMAIN age \subseteq Peers
    /\ \A p \in DOMAIN age : age[p] \in 0..Ttl
    /\ buffer \in Seq(Packets)
    /\ adv \in {"start", "starting", "top", "receive", "announce"}
    /\ wasEnabled \in BOOLEAN
    /\ due \in BOOLEAN
    /\ heard \in {"nothing", "here", "gone"}
    /\ unsaid \in BOOLEAN
    /\ asking \in BOOLEAN
    /\ devices \subseteq Peers
    /\ up \subseteq Peers

\* load_mdns_enabled: on, unless the file says off.
Loaded == saved # "off"

\* The toggle starts as the settings file has it.
Init ==
    /\ ui = "idle"
    /\ saved \in Lines /\ text = "none"
    /\ enabled = Loaded
    /\ age = [p \in {} |-> 0]
    /\ buffer = <<>>
    /\ adv = "start"
    /\ wasEnabled = FALSE
    /\ due = FALSE
    /\ heard = "nothing"
    /\ unsaid = FALSE
    /\ asking = FALSE
    /\ devices = {}
    /\ up = {}
------------------------------------------------------------------------------
(* The advertiser thread. *)

\* An announcement goes to the whole group, this device's socket included.
SayHere ==
    /\ heard' = "here"
    /\ buffer' = Append(buffer, [kind |-> "announce", from |-> Self])

FirstAnnounce ==
    /\ adv = "start"
    /\ IF enabled THEN SayHere ELSE UNCHANGED <<buffer, heard>>
    /\ adv' = "starting"
    /\ UNCHANGED <<enabled, settings, age, wasEnabled, due, unsaid, asking, devices, up>>

\* The toggle is looked at a second time, for was_enabled.
EnterLoop ==
    /\ adv = "starting"
    /\ wasEnabled' = enabled
    /\ unsaid' = (heard = "here" /\ ~enabled)
    /\ adv' = "top"
    /\ UNCHANGED <<enabled, settings, age, buffer, due, heard, asking, devices, up>>

\* Mutation: was_enabled is reset, but no goodbye is sent.
LoopDisabledSilent ==
    /\ adv = "top"
    /\ ~enabled
    /\ wasEnabled' = FALSE
    /\ UNCHANGED <<enabled, settings, age, buffer, adv, due, heard, unsaid, asking, devices, up>>

\* The goodbye that comes back to this socket removes nobody, and is left out.
LoopDisabled ==
    /\ adv = "top"
    /\ ~enabled
    /\ heard' = IF wasEnabled THEN "gone" ELSE heard
    /\ wasEnabled' = FALSE
    /\ UNCHANGED <<enabled, settings, age, buffer, adv, due, unsaid, asking, devices, up>>

\* Mutation: was_enabled is not set again.
LoopEnabledForgets ==
    /\ adv = "top"
    /\ enabled
    /\ due' = (due \/ ~wasEnabled)
    /\ unsaid' = FALSE
    /\ adv' = "receive"
    /\ UNCHANGED <<enabled, settings, age, buffer, wasEnabled, heard, asking, devices, up>>

\* After a while disabled the announcement is due at once.
LoopEnabled ==
    /\ adv = "top"
    /\ enabled
    /\ due' = (due \/ ~wasEnabled)
    /\ wasEnabled' = TRUE
    /\ unsaid' = FALSE
    /\ adv' = "receive"
    /\ UNCHANGED <<enabled, settings, age, buffer, heard, asking, devices, up>>

Pruned(f) == Restrict(f, {p \in DOMAIN f : f[p] < Ttl})

\* Mutation: a packet that announces nobody new prunes nobody either.
RecordedUnpruned(packet) ==
    CASE packet.kind = "query"   -> age
      [] packet.kind = "goodbye" -> Restrict(age, DOMAIN age \ {packet.from})
      [] packet.kind = "announce" ->
            IF packet.from = Self THEN age
            ELSE Pruned([p \in DOMAIN age \cup {packet.from} |->
                            IF p = packet.from THEN 0 ELSE age[p]])

\* record_peer_packet: a query names no address; a goodbye removes its sender
\* and prunes nobody; an announcement lists its sender, unless that is this
\* device, and prunes every peer not heard of for Ttl.
Recorded(packet) ==
    CASE packet.kind = "query"   -> age
      [] packet.kind = "goodbye" -> Restrict(age, DOMAIN age \ {packet.from})
      [] packet.kind = "announce" ->
            Pruned([p \in DOMAIN age \cup ({packet.from} \ {Self}) |->
                        IF p = packet.from THEN 0 ELSE age[p]])

\* Whatever the toggle says by now: it was looked at at the top of the loop.
Receive ==
    /\ adv = "receive"
    /\ buffer # <<>>
    /\ age' = Recorded(Head(buffer))
    /\ buffer' = Tail(buffer)
    /\ heard' = IF Head(buffer).kind = "query" THEN "here" ELSE heard
    /\ adv' = "announce"
    /\ UNCHANGED <<enabled, settings, wasEnabled, due, unsaid, asking, devices, up>>

ReceiveTimeout ==
    /\ adv = "receive"
    /\ buffer = <<>>
    /\ adv' = "announce"
    /\ UNCHANGED <<enabled, settings, age, buffer, wasEnabled, due, heard, unsaid, asking,
        devices, up>>

Announce ==
    /\ adv = "announce"
    /\ IF due THEN SayHere ELSE UNCHANGED <<buffer, heard>>
    /\ due' = FALSE
    /\ adv' = "top"
    /\ UNCHANGED <<enabled, settings, age, wasEnabled, unsaid, asking, devices, up>>
------------------------------------------------------------------------------
(* The Settings toggle, on the UI thread: the flag, the cache, then the file, *)
(* which is read, emptied and written again with all its lines.               *)

TurnOn ==
    /\ ui = "idle"
    /\ ~enabled
    /\ enabled' = TRUE
    /\ ui' = "save"
    /\ UNCHANGED <<saved, text, age, radio, asking, devices, up>>

TurnOff ==
    /\ ui = "idle"
    /\ enabled
    /\ enabled' = FALSE
    /\ ui' = "clear"
    /\ UNCHANGED <<saved, text, age, radio, asking, devices, up>>

\* Mutation: turning the toggle off leaves the cache alone.
KeepPeers ==
    /\ ui = "clear"
    /\ ui' = "save"
    /\ UNCHANGED <<enabled, saved, text, age, radio, asking, devices, up>>

ClearPeers ==
    /\ ui = "clear"
    /\ ui' = "save"
    /\ age' = [p \in {} |-> 0]
    /\ UNCHANGED <<enabled, saved, text, radio, asking, devices, up>>

Saves(line) ==
    /\ text' = line
    /\ saved' = "none"
    /\ ui' = "write"
    /\ UNCHANGED <<enabled, age, radio, asking, devices, up>>

SaveToggle == ui = "save" /\ Saves(IF enabled THEN "on" ELSE "off")

\* Mutation: the other lines are not read before the file is emptied.
SaveOtherAlone == ui = "idle" /\ Saves("none")

\* The theme or the last folder.
SaveOther == ui = "idle" /\ Saves(saved)

WriteSettings ==
    /\ ui = "write"
    /\ ui' = "idle"
    /\ saved' = text
    /\ text' = "none"
    /\ UNCHANGED <<enabled, age, radio, asking, devices, up>>

\* The app ends, anywhere, without a goodbye, and is started again.
Restart ==
    /\ ui' = "idle" /\ text' = "none"
    /\ enabled' = Loaded
    /\ age' = [p \in {} |-> 0]
    /\ buffer' = <<>>
    /\ adv' = "start"
    /\ wasEnabled' = FALSE /\ due' = FALSE
    /\ unsaid' = (heard = "here" /\ ~Loaded)
    /\ asking' = FALSE /\ devices' = {}
    /\ UNCHANGED <<saved, heard, up>>
------------------------------------------------------------------------------
(* The discovery thread: every 3 s, discover_devices and set_devices. *)

\* Mutation: the query is sent whether or not the toggle is on.
DiscoverAlways ==
    /\ ~asking
    /\ asking' = TRUE
    /\ UNCHANGED <<enabled, settings, age, radio, devices, up>>

Discover ==
    /\ ~asking
    /\ asking' = enabled
    /\ devices' = IF enabled THEN devices ELSE {}
    /\ UNCHANGED <<enabled, settings, age, radio, up>>

Snapshot ==
    /\ asking
    /\ asking' = FALSE
    /\ devices' = DOMAIN age
    /\ UNCHANGED <<enabled, settings, age, radio, up>>
------------------------------------------------------------------------------
(* Time and the network. *)

Tick ==
    /\ age' = [p \in DOMAIN age |-> IF age[p] < Ttl THEN age[p] + 1 ELSE Ttl]
    /\ due' = TRUE
    /\ UNCHANGED <<enabled, settings, buffer, adv, wasEnabled, heard, unsaid, asking, devices,
        up>>

Deliver(packet) ==
    /\ Len(buffer) < MaxBuffer
    /\ buffer' = Append(buffer, packet)
    /\ UNCHANGED <<enabled, settings, age, adv, wasEnabled, due, heard, unsaid, asking, devices>>

PeerAnnounces(p) ==
    /\ Deliver([kind |-> "announce", from |-> p])
    /\ up' = up \cup {p}

PeerSaysGoodbye(p) ==
    /\ p \in up
    /\ Deliver([kind |-> "goodbye", from |-> p])
    /\ up' = up \ {p}

\* Without a goodbye, or the goodbye is lost.
PeerVanishes(p) ==
    /\ p \in up
    /\ up' = up \ {p}
    /\ UNCHANGED <<enabled, settings, age, radio, asking, devices>>

\* Anybody's query for this service, this device's own ones included.
Query ==
    /\ Deliver([kind |-> "query", from |-> Self])
    /\ UNCHANGED up
------------------------------------------------------------------------------
Advertise ==
    \/ FirstAnnounce \/ EnterLoop \/ LoopDisabled \/ LoopEnabled
    \/ Receive \/ ReceiveTimeout \/ Announce

Refresh == Discover \/ Snapshot

Network ==
    \/ \E p \in Peers : PeerAnnounces(p) \/ PeerSaysGoodbye(p) \/ PeerVanishes(p)
    \/ Query

UI == ClearPeers \/ SaveToggle \/ WriteSettings

Next ==
    \/ Advertise \/ Refresh \/ Tick \/ Network
    \/ TurnOn \/ TurnOff \/ SaveOther \/ UI
    \/ Restart

Spec == Init /\ [][Next]_vars

\* Threads are scheduled and time passes; of the network and of the user
\* nothing is assumed.
FairSpec ==
    /\ Spec
    /\ WF_vars(Advertise)
    /\ WF_vars(Refresh)
    /\ WF_vars(UI)
    /\ WF_vars(Tick)
------------------------------------------------------------------------------
(* Safety *)

\* Turned off, the cache may still take the one packet whose recording raced
\* with the clearing, and none after it: the backlog of the socket waits until
\* the toggle is on again.  (set_mdns_enabled against the advertiser loop)
LateRecordAtMostOne == ~enabled /\ ui # "clear" => Cardinality(DOMAIN age) <= 1

\* Turned off, the thread still knows at the top of its loop that the LAN has
\* last heard an announcement, so that the goodbye is not forgotten, however
\* fast the toggle moves.  The one exception is a toggle turned off while
\* `advertise` starts, between its first announcement and was_enabled, or in
\* an earlier launch that ended before its goodbye.
GoodbyeOwed == ~enabled /\ adv = "top" /\ heard = "here" => wasEnabled \/ unsaid
\* A restart leaves the toggle as the user chose it, whatever else was saved in
\* between, unless the app ended in the midst of a change or a save: the file
\* is then empty, and discovery is on.  (settings_store::set)
ToggleKept == [][Restart => enabled' = enabled \/ ui # "idle"]_vars
------------------------------------------------------------------------------
(* Liveness *)

\* Left off, the toggle empties the device list of the UI for good, also when
\* a late packet has put a peer back into the cache.
DisabledEmptiesList == <>[]~enabled => <>[](devices = {})

\* A peer that vanished without a goodbye leaves the device list, though peers
\* are pruned only when a packet arrives and no other device need ever send one.
SilentPeerLeaves ==
    \A p \in Peers : <>[](enabled /\ p \notin up) => <>[](p \notin devices)

\* "TTL=0 goodbye, sent when mDNS is turned off so peers drop us from their
\* caches immediately" (mdns.rs:702-703): left off, an announcement is not the
\* last thing the LAN has heard, but for the exception above.
GoodbyeSent == <>[]~enabled => <>[](heard # "here" \/ unsaid)
=============================================================================
