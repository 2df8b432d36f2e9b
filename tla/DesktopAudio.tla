---------------------------- MODULE DesktopAudio ----------------------------
(***************************************************************************)
(* The sound of a screen share on Linux.  capture/linux/desktop_audio.rs    *)
(* follows the registry of PipeWire and links the playback ports of every   *)
(* other program into its own capture node, and none of this program, whose *)
(* voices would come back to the people speaking.                           *)
(*                                                                         *)
(* The server announces objects in the order they come and go; whose client *)
(* it is comes later, in answer to a binding.  Links are asked for and take *)
(* effect when the server gets to them, by ids it may have given to other   *)
(* objects by then.                                                         *)
(***************************************************************************)
EXTENDS Naturals, Sequences, FiniteSets

CONSTANTS ClientIds, NodeIds, PortIds,   \* ids the server gives out and reuses
          NoId,                          \* none
          Inputs,                        \* sides of our capture node's ports
          OutSides,                      \* sides of playback ports
          MaxChanges,                    \* bound: objects that come and go
          MaxBacklog                     \* bound: events on their way

ASSUME DesktopAudioAssumption ==
  /\ NoId \notin ClientIds \cup NodeIds \cup PortIds
  /\ Inputs \subseteq {"left", "right"} /\ OutSides \subseteq {"left", "right", "both", "none"}
  /\ MaxChanges \in Nat /\ MaxBacklog \in Nat

Free == [is |-> "free"]

VARIABLES clients,    \* the server's clients: free, ours or of another program
          nodes,      \* its playback nodes, with the client that made each
          ports,      \* their output ports, with node and side
          real,       \* links the server made, by output port and input
          news,       \* events on their way to us
          binds,      \* clients we asked about
          requests,   \* links asked for and dropped, on their way to the server
          gClients,   \* Graph.clients: of each, whether it is ours, once known
          gNodes,     \* Graph.playback
          gPorts,     \* Graph.ports, the output ports
          gInputs,    \* Graph.ports and own_node, our own inputs
          gLinks,     \* Graph.links
          changes     \* bound: changes so far

registryVars == <<clients, nodes, ports, real, news, binds, requests, gClients, gNodes,
               gPorts, gInputs, gLinks, changes>>
serverVars == <<clients, nodes, ports, real>>
graphVars == <<gClients, gNodes, gPorts, gInputs, gLinks>>

DesktopAudioTypeOK ==
  /\ clients \in [ClientIds -> {"free", "ours", "other"}]
  /\ real \subseteq PortIds \X Inputs
  /\ gClients \in [ClientIds -> {"free", "unknown", "ours", "other"}]
  /\ gNodes \in [NodeIds -> ClientIds \cup {NoId, "free"}]
  /\ gInputs \subseteq Inputs \cup {"node"} /\ gLinks \subseteq PortIds \X Inputs

-----------------------------------------------------------------------------
(* The server *)

Announce(e) == Len(news) < MaxBacklog /\ news' = Append(news, e)
Changes == changes < MaxChanges /\ changes' = changes + 1

ClientComes ==
  /\ Changes
  /\ \E c \in ClientIds, who \in {"ours", "other"}:
       /\ clients[c] = "free"
       /\ clients' = [clients EXCEPT ![c] = who]
       /\ Announce([add |-> "client", id |-> c])
  /\ UNCHANGED <<nodes, ports, real, binds, requests>> /\ UNCHANGED graphVars

\* A playback node, of a client or of the server itself, and its ports.
NodeComes ==
  /\ Changes
  /\ \E n \in NodeIds, c \in {x \in ClientIds: clients[x] # "free"} \cup {NoId}:
       /\ nodes[n] = "free"
       /\ nodes' = [nodes EXCEPT ![n] = c]
       /\ Announce([add |-> "node", id |-> n, client |-> c])
  /\ UNCHANGED <<clients, ports, real, binds, requests>> /\ UNCHANGED graphVars

PortComes ==
  /\ Changes
  /\ \E p \in PortIds, n \in {x \in NodeIds: nodes[x] # "free"}, side \in OutSides:
       /\ ports[p] = Free
       /\ ports' = [ports EXCEPT ![p] = [is |-> "port", node |-> n, side |-> side]]
       /\ Announce([add |-> "port", id |-> p, node |-> n, side |-> side])
  /\ UNCHANGED <<clients, nodes, real, binds, requests>> /\ UNCHANGED graphVars

\* Ports go before their node and nodes before their client.
PortGoes ==
  /\ Changes
  /\ \E p \in PortIds:
       /\ ports[p] # Free
       /\ ports' = [ports EXCEPT ![p] = Free]
       /\ real' = {l \in real: l[1] # p}
       /\ Announce([add |-> "gone", id |-> p])
  /\ UNCHANGED <<clients, nodes, binds, requests>> /\ UNCHANGED graphVars

OwnerGoes ==
  /\ Changes
  /\ \/ \E n \in NodeIds:
          /\ nodes[n] # "free"
          /\ \A p \in PortIds: ports[p] # Free => ports[p].node # n
          /\ nodes' = [nodes EXCEPT ![n] = "free"]
          /\ Announce([add |-> "gone", id |-> n])
          /\ UNCHANGED clients
     \/ \E c \in ClientIds:
          /\ clients[c] # "free"
          /\ \A n \in NodeIds: nodes[n] # c
          /\ clients' = [clients EXCEPT ![c] = "free"]
          /\ Announce([add |-> "gone", id |-> c])
          /\ UNCHANGED nodes
  /\ UNCHANGED <<ports, real, binds, requests>> /\ UNCHANGED graphVars

\* Our own capture node and its ports are announced like any other.
OwnComes ==
  /\ \E x \in (Inputs \cup {"node"}) \ gInputs:
       /\ \A i \in DOMAIN news: news[i].id # x
       /\ x \in Inputs => "node" \in gInputs
       /\ Announce([add |-> "own", id |-> x])
  /\ UNCHANGED <<binds, requests, changes>> /\ UNCHANGED serverVars /\ UNCHANGED graphVars

\* The server answers a binding with the client's info.
ClientInfo ==
  /\ \E c \in binds:
       /\ binds' = binds \ {c}
       /\ IF clients[c] = "free" THEN UNCHANGED news
          ELSE Announce([add |-> "info", id |-> c, whose |-> clients[c]])
  /\ UNCHANGED <<requests, changes>> /\ UNCHANGED serverVars /\ UNCHANGED graphVars

\* It makes the link asked for if the port is of the node named, and drops one with its proxy.
ServerLinks ==
  /\ requests # <<>>
  /\ requests' = Tail(requests)
  /\ LET r == Head(requests)
     IN real' = IF r.do = "drop" THEN real \ {r.link}
                ELSE IF ports[r.link[1]] # Free /\ ports[r.link[1]].node = r.node
                  THEN real \cup {r.link} ELSE real
  /\ UNCHANGED <<clients, nodes, ports, news, binds, changes>> /\ UNCHANGED graphVars

-----------------------------------------------------------------------------
(* The graph we keep *)

\* Side::feeds.
Feeds(side, input) == side = "both" \/ side = input

KnownOther(gc, c) == c \in ClientIds /\ gc[c] = "other"

\* The mutant: a client not known yet counts as another program's.
NotKnownOurs(gc, c) == c \in ClientIds /\ gc[c] \in {"other", "unknown"}

OtherPrograms(gc, c) == KnownOther(gc, c)

\* Graph::is_source: a playback stream of another process.
IsSource(gc, gn, n) == gn[n] = NoId \/ OtherPrograms(gc, gn[n])

\* Graph::relink, after the change: what is missing is asked for.
Relink(gc, gn, gp, gi) ==
  LET missing == {l \in PortIds \X Inputs:
                    /\ l \notin gLinks /\ l[2] \in gi /\ "node" \in gi
                    /\ gp[l[1]] # Free /\ Feeds(gp[l[1]].side, l[2])
                    /\ gn[gp[l[1]].node] # "free" /\ IsSource(gc, gn, gp[l[1]].node)}
      ask == [l \in missing |-> [do |-> "make", link |-> l, node |-> gp[l[1]].node]]
  IN /\ gLinks' = gLinks \cup missing
     /\ \E order \in [1..Cardinality(missing) -> missing]:
          /\ \A i, j \in DOMAIN order: order[i] = order[j] => i = j
          /\ requests' = requests \o [i \in DOMAIN order |-> ask[order[i]]]

\* Graph::remove: links of the port go with their proxies.
Remaining(id) == {l \in gLinks: l[1] # id}

\* The mutant: they are kept.
RemainingAll(id) == gLinks

LinksAfter(id) == Remaining(id)

RemoveObject(id) ==
  /\ gClients' = [c \in ClientIds |-> IF c = id THEN "free" ELSE gClients[c]]
  /\ gNodes' = [n \in NodeIds |-> IF n = id THEN "free" ELSE gNodes[n]]
  /\ gPorts' = [p \in PortIds |-> IF p = id THEN Free ELSE gPorts[p]]
  /\ gLinks' = LinksAfter(id)
  /\ LET gone == gLinks \ LinksAfter(id)
         drops == [l \in gone |-> [do |-> "drop", link |-> l]]
     IN \E order \in [1..Cardinality(gone) -> gone]:
          /\ \A i, j \in DOMAIN order: order[i] = order[j] => i = j
          /\ requests' = requests \o [i \in DOMAIN order |-> drops[order[i]]]
  /\ binds' = binds \ {id}
  /\ news' = SelectSeq(Tail(news), LAMBDA e: ~(e.add = "info" /\ e.id = id))
  /\ UNCHANGED gInputs

\* on_global, each kind with its relink, and global_remove.
OnEvent ==
  /\ news # <<>>
  /\ LET e == Head(news)
     IN \/ e.add = "gone" /\ RemoveObject(e.id)
        \/ /\ e.add = "client"
           /\ gClients' = [gClients EXCEPT ![e.id] = "unknown"]
           /\ binds' = binds \cup {e.id}
           /\ news' = Tail(news)
           /\ UNCHANGED <<gNodes, gPorts, gInputs, gLinks, requests>>
        \/ /\ e.add = "node"
           /\ gNodes' = [gNodes EXCEPT ![e.id] = e.client]
           /\ Relink(gClients, gNodes', gPorts, gInputs)
           /\ news' = Tail(news)
           /\ UNCHANGED <<gClients, gPorts, gInputs, binds>>
        \/ /\ e.add = "port"
           /\ gPorts' = [gPorts EXCEPT ![e.id] = [is |-> "port", node |-> e.node, side |-> e.side]]
           /\ Relink(gClients, gNodes, gPorts', gInputs)
           /\ news' = Tail(news)
           /\ UNCHANGED <<gClients, gNodes, gInputs, binds>>
        \/ /\ e.add = "own"
           /\ gInputs' = gInputs \cup {e.id}
           /\ Relink(gClients, gNodes, gPorts, gInputs')
           /\ news' = Tail(news)
           /\ UNCHANGED <<gClients, gNodes, gPorts, binds>>
  /\ UNCHANGED changes /\ UNCHANGED serverVars

\* The info of a bound client, with its relink.
OnInfo ==
  /\ news # <<>> /\ Head(news).add = "info"
  /\ gClients' = [gClients EXCEPT ![Head(news).id] = Head(news).whose]
  /\ Relink(gClients', gNodes, gPorts, gInputs)
  /\ news' = Tail(news)
  /\ UNCHANGED <<gNodes, gPorts, gInputs, binds, changes>>
  /\ UNCHANGED serverVars

DesktopAudioInit ==
  /\ clients = [c \in ClientIds |-> "free"] /\ nodes = [n \in NodeIds |-> "free"]
  /\ ports = [p \in PortIds |-> Free] /\ real = {} /\ news = <<>> /\ binds = {}
  /\ requests = <<>> /\ gClients = [c \in ClientIds |-> "free"]
  /\ gNodes = [n \in NodeIds |-> "free"] /\ gPorts = [p \in PortIds |-> Free]
  /\ gInputs = {} /\ gLinks = {} /\ changes = 0

DesktopAudioNext ==
  \/ ClientComes \/ NodeComes \/ PortComes \/ PortGoes \/ OwnerGoes \/ OwnComes
  \/ ClientInfo \/ ServerLinks \/ OnEvent \/ OnInfo

DesktopAudioSpec == DesktopAudioInit /\ [][DesktopAudioNext]_registryVars

-----------------------------------------------------------------------------
Quiet == news = <<>> /\ binds = {} /\ requests = <<>>

Whose(p) == LET c == nodes[ports[p].node] IN IF c = NoId THEN "other" ELSE clients[c]

\* No sound of this program is in its own share: once nothing is under way none of its ports
\* is linked, whatever ids were reused in between (desktop_audio.rs is_source, remove).
NoEcho == Quiet => \A l \in real: Whose(l[1]) = "other"

\* Every other program is heard: once nothing is under way each of its ports that feeds one of
\* our inputs is linked, in whatever order the objects were announced (desktop_audio.rs
\* relink, on_global, watch_client).
OthersHeard ==
  Quiet /\ "node" \in gInputs =>
    \A p \in PortIds, input \in gInputs \cap Inputs:
      ports[p] # Free /\ Whose(p) = "other" /\ Feeds(ports[p].side, input)
        => <<p, input>> \in real

\* A share has the sound of all other programs and of no other (desktop_audio.rs).
OthersOnly == NoEcho /\ OthersHeard

=============================================================================
