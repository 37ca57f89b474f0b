------------------------------ MODULE RpConfig ------------------------------
(***************************************************************************)
(* The start of rpbot up to main_loop: rp_init of src/rpbot.c and the       *)
(* loading of the configuration in src/rp_config.c.  The callbacks of       *)
(* rp_config.c keep a single `state'; the nesting of the document is known  *)
(* to yajl only.                                                            *)
(*                                                                         *)
(* yajl is external: it reports the tokens of a well-nested document one by *)
(* one, refuses anything else, and stops when a callback returns 0.  Here   *)
(* `path' and `key' are that nesting, and `said' is what the document means *)
(* when it is read by its nesting.                                          *)
(***************************************************************************)
EXTENDS Integers, Sequences, FiniteSets, SequencesExt

CONSTANTS
  Value,        \* the strings a document contains
  Null,         \* NULL, or a string never set
  MaxDepth,     \* deepest nesting of a document
  MaxStrings,   \* most strings stored
  MaxServers    \* most servers allocated

(***************************************************************************)
(* Keys are compared with strncmp over the key's own length, so that every  *)
(* prefix of a name passes for it; "n" and the empty key stand for those.   *)
(***************************************************************************)
Name == {"config", "identity", "servers", "channels", "nicks", "name", "login", "host", "port"}
Key == Name \cup {"n", "", "other"}
Matches(k, name) ==
  \/ k = name
  \/ k = ""
  \/ k = "n" /\ name \in {"nicks", "name"}

ASSUME ConfigAssumption ==
  /\ Null \notin Value \cup Key \cup Nat
  /\ MaxDepth \in Nat /\ MaxStrings \in Nat /\ MaxServers \in Nat

VARIABLES
  pc,       \* how far rp_init is
  state,    \* ctx.state
  server,   \* ctx.server, an index into heap
  heap,     \* the servers allocated, in order
  cfg,      \* ctx->cfg; servers are indices into heap
  file,     \* is the file open?
  path,     \* the open containers of the document, outermost first
  key,      \* the key read whose value is to come, or Null
  more,     \* may another value follow?
  starved,  \* has the memory of a pool run out?
  said,     \* the configuration the document describes so far
  shaped    \* has the document had the shape of rpbot.json.example so far?

ctx == <<state, server, heap, cfg>>
doc == <<path, key, more>>
vars == <<pc, ctx, file, doc, starved, said, shaped>>

EmptyServer == [host |-> Null, port |-> Null]
EmptyConfig ==
  [nicks |-> <<>>, name |-> Null, login |-> Null, servers |-> <<>>, channels |-> <<>>]

-----------------------------------------------------------------------------
(* The document: containers with the key they are the value of.             *)

Map(k) == [kind |-> "map", key |-> k]
Array(k) == [kind |-> "array", key |-> k]

Root == <<Map(Null)>>
Config == Append(Root, Map("config"))
Identity == Append(Config, Map("identity"))
Nicks == Append(Identity, Array("nicks"))
Servers == Append(Config, Array("servers"))
Server == Append(Servers, Map(Null))
Channels == Append(Config, Array("channels"))

Inside(kind) == path # <<>> /\ Last(path).kind = kind

\* Where JSON allows a value, and where a key.
ValueNext == more /\ (path = <<>> \/ Inside("array") \/ key # Null)
KeyNext == Inside("map") /\ key = Null

AfterValue ==
  /\ key' = Null
  /\ more' = (path # <<>>)
  /\ UNCHANGED path

Open(container) ==
  /\ ValueNext
  /\ Len(path) < MaxDepth
  /\ path' = Append(path, container)
  /\ key' = Null
  /\ UNCHANGED more

Close ==
  /\ path' = Front(path)
  /\ key' = Null
  /\ more' = (Len(path) > 1)

\* The keys the example has in each map.
KnownKeys(p) ==
  CASE p = Root -> {"config"}
    [] p = Config -> {"identity", "servers", "channels"}
    [] p = Identity -> {"nicks", "name", "login"}
    [] p = Server -> {"host", "port"}
    [] OTHER -> {}

\* May a string stand here?
StringPlace ==
  \/ path \in {Nicks, Channels}
  \/ path = Identity /\ key \in {"name", "login"}
  \/ path = Server /\ key # Null

\* The meaning of a string, by its place in the document.
Say(v) ==
  CASE path = Nicks -> [said EXCEPT !.nicks = Append(@, v)]
    [] path = Channels -> [said EXCEPT !.channels = Append(@, v)]
    [] path = Identity -> [said EXCEPT ![key] = v]
    [] path = Server -> [said EXCEPT !.servers[Len(said.servers)][key] = v]

\* From the first surprise on the document is no longer followed.
Expect(expected, meaning) ==
  /\ shaped' = (shaped /\ expected)
  /\ said' = IF shaped /\ expected THEN meaning ELSE EmptyConfig

-----------------------------------------------------------------------------
(* The callbacks.  One that returns 0 makes yajl_parse fail: rp_config_load *)
(* returns -1 with the file open, and rp_init gives up.                     *)

Cancel == pc' = "refused" /\ UNCHANGED <<ctx, file, doc, starved>>
Accept == pc' = pc /\ UNCHANGED <<file, starved>>

\* A write through ctx.server while it is NULL.
WriteToNull ==
  /\ server = Null
  /\ pc' = "undefined"
  /\ UNCHANGED <<ctx, file, doc, starved>>

\* How many strings there are in cfg and heap.
Stored ==
  Len(cfg.nicks) + Len(cfg.channels)
  + Cardinality({f \in {"name", "login"} : cfg[f] # Null})
  + Cardinality({h \in (DOMAIN heap) \X {"host", "port"} : heap[h[1]][h[2]] # Null})

StringStates ==
  {"NICKS_ITEMS", "NAME", "LOGIN", "HOST", "PORT", "CHANNELS_ITEMS"}

StoreString(v) ==
  /\ state \in {"HOST", "PORT"} => server # Null
  /\ CASE state = "NICKS_ITEMS" -> cfg' = [cfg EXCEPT !.nicks = Append(@, v)]
       [] state = "CHANNELS_ITEMS" -> cfg' = [cfg EXCEPT !.channels = Append(@, v)]
       [] state = "NAME" -> cfg' = [cfg EXCEPT !.name = v]
       [] state = "LOGIN" -> cfg' = [cfg EXCEPT !.login = v]
       [] OTHER -> UNCHANGED cfg
  /\ CASE state = "HOST" -> heap' = [heap EXCEPT ![server].host = v]
       [] state = "PORT" -> heap' = [heap EXCEPT ![server].port = v]
       [] OTHER -> UNCHANGED heap
  /\ state' = CASE state \in {"NAME", "LOGIN"} -> "IDENTITY"
                [] state \in {"HOST", "PORT"} -> "SERVERS_ITEMS"
                [] OTHER -> state
  /\ UNCHANGED server

\* Mutant: one string passes for a list of nicks.
ReadStringOrList(v) ==
  /\ ValueNext
  /\ Stored < MaxStrings
  /\ Expect(StringPlace, Say(v))
  /\ IF state = "NICKS"
       THEN cfg' = [cfg EXCEPT !.nicks = Append(@, v)] /\ UNCHANGED <<state, server, heap>>
                                                       /\ AfterValue /\ Accept
       ELSE \/ state \in StringStates /\ StoreString(v) /\ AfterValue /\ Accept
            \/ state \in {"HOST", "PORT"} /\ WriteToNull
            \/ state \notin StringStates /\ Cancel

\* rpcfg_string.
ReadString(v) ==
  /\ ValueNext
  /\ Stored < MaxStrings
  /\ Expect(StringPlace, Say(v))
  /\ \/ state \in StringStates /\ StoreString(v) /\ AfterValue /\ Accept
     \/ state \in {"HOST", "PORT"} /\ WriteToNull
     \/ state \notin StringStates /\ Cancel

\* null, true, false and numbers: there is no callback.
ReadScalar ==
  /\ ValueNext
  /\ AfterValue
  /\ Accept
  /\ Expect(FALSE, said)
  /\ UNCHANGED ctx

\* Mutant: ctx.server goes to the next slot although there was no memory for it.
NewServerFails ==
  /\ server' = Len(heap) + 1
  /\ \/ heap' = Append(heap, EmptyServer) /\ UNCHANGED starved
     \/ UNCHANGED heap /\ starved' = TRUE

\* Mutant: one server serves for all.
NewServerOnce ==
  /\ heap' = IF heap = <<>> THEN <<EmptyServer>> ELSE heap
  /\ server' = 1
  /\ UNCHANGED starved

\* A cleared server in ctx.server, or NULL.  Nothing looks at the result.
NewServer ==
  \/ /\ heap' = Append(heap, EmptyServer)
     /\ server' = Len(heap) + 1
     /\ UNCHANGED starved
  \/ /\ server' = Null
     /\ starved' = TRUE
     /\ UNCHANGED heap

\* rpcfg_start_map.
StartMap ==
  /\ ValueNext
  /\ Len(path) < MaxDepth
  /\ state = "SERVERS_ITEMS" => Len(heap) < MaxServers
  /\ LET opened == Append(path, Map(key)) IN
     Expect(opened \in {Root, Config, Identity, Server},
            IF opened = Server THEN [said EXCEPT !.servers = Append(@, EmptyServer)] ELSE said)
  /\ \/ /\ state = "START"
        /\ state' = "ROOT"
        /\ Open(Map(key)) /\ Accept /\ UNCHANGED <<server, heap, cfg>>
     \/ /\ state \in {"CONFIG", "IDENTITY"}
        /\ Open(Map(key)) /\ Accept /\ UNCHANGED ctx
     \/ /\ state = "SERVERS_ITEMS"
        /\ NewServer
        /\ Open(Map(key)) /\ UNCHANGED <<pc, file, state, cfg>>
     \/ /\ state \notin {"START", "CONFIG", "IDENTITY", "SERVERS_ITEMS"}
        /\ Cancel

\* Mutant: the identity ends the configuration too.
AfterMapToRoot == [CONFIG |-> "ROOT", IDENTITY |-> "ROOT", ROOT |-> "START"]

\* What the end of a map leads back to.
AfterMap == [CONFIG |-> "ROOT", IDENTITY |-> "CONFIG", ROOT |-> "START"]

\* rpcfg_end_map.
EndMap ==
  /\ KeyNext
  /\ Expect(TRUE, said)
  /\ \/ /\ state \in DOMAIN AfterMap
        /\ state' = AfterMap[state]
        /\ Close /\ Accept /\ UNCHANGED <<server, heap, cfg>>
     \/ /\ state = "SERVERS_ITEMS" /\ server # Null
        /\ cfg' = [cfg EXCEPT !.servers = Append(@, server)]
        /\ Close /\ Accept /\ UNCHANGED <<state, server, heap>>
     \/ /\ state = "SERVERS_ITEMS"
        /\ WriteToNull
     \/ /\ state \notin DOMAIN AfterMap \cup {"SERVERS_ITEMS"}
        /\ Cancel

\* Mutant: the channels are not known.
TriedWithoutChannels ==
  [ROOT |-> <<<<"config", "CONFIG">>>>,
   CONFIG |-> <<<<"identity", "IDENTITY">>, <<"servers", "SERVERS">>>>,
   IDENTITY |-> <<<<"nicks", "NICKS">>, <<"name", "NAME">>, <<"login", "LOGIN">>>>,
   SERVERS_ITEMS |-> <<<<"host", "HOST">>, <<"port", "PORT">>>>]

\* What each state compares a key with, in this order, and the state it leads to.
Tried ==
  [ROOT |-> <<<<"config", "CONFIG">>>>,
   CONFIG |-> <<<<"identity", "IDENTITY">>, <<"servers", "SERVERS">>, <<"channels", "CHANNELS">>>>,
   IDENTITY |-> <<<<"nicks", "NICKS">>, <<"name", "NAME">>, <<"login", "LOGIN">>>>,
   SERVERS_ITEMS |-> <<<<"host", "HOST">>, <<"port", "PORT">>>>]

\* rpcfg_map_key; an unknown key is an error everywhere but in the identity.
MapKey(k) ==
  /\ KeyNext
  /\ Expect(k \in KnownKeys(path), said)
  /\ IF state \in DOMAIN Tried
       THEN LET i == SelectInSeq(Tried[state], LAMBDA t : Matches(k, t[1])) IN
            IF i = 0 /\ state # "IDENTITY"
              THEN Cancel
              ELSE /\ state' = IF i = 0 THEN state ELSE Tried[state][i][2]
                   /\ key' = k
                   /\ Accept
                   /\ UNCHANGED <<server, heap, cfg, path, more>>
       ELSE Cancel

ItemsOf == [NICKS |-> "NICKS_ITEMS", SERVERS |-> "SERVERS_ITEMS", CHANNELS |-> "CHANNELS_ITEMS"]

\* rpcfg_start_array.
StartArray ==
  /\ ValueNext
  /\ Len(path) < MaxDepth
  /\ Expect(Append(path, Array(key)) \in {Nicks, Servers, Channels}, said)
  /\ IF state \in DOMAIN ItemsOf
       THEN /\ state' = ItemsOf[state]
            /\ Open(Array(key)) /\ Accept /\ UNCHANGED <<server, heap, cfg>>
       ELSE Cancel

\* rpcfg_end_array.
EndArray ==
  /\ Inside("array")
  /\ Expect(TRUE, said)
  /\ IF state \in {"NICKS_ITEMS", "SERVERS_ITEMS", "CHANNELS_ITEMS"}
       THEN /\ state' = IF state = "NICKS_ITEMS" THEN "IDENTITY" ELSE "CONFIG"
            /\ Close /\ Accept /\ UNCHANGED <<server, heap, cfg>>
       ELSE Cancel

Token ==
  /\ pc = "loading"
  /\ \/ \E v \in Value : ReadString(v)
     \/ ReadScalar
     \/ StartMap \/ EndMap
     \/ \E k \in Key : MapKey(k)
     \/ StartArray \/ EndArray

-----------------------------------------------------------------------------
(* rp_config_load and rp_init.                                              *)

Stay == UNCHANGED <<ctx, doc, starved, said, shaped>>

\* No argument, no memory for the pool, or no such file.
GiveUpEarly ==
  /\ pc = "start"
  /\ pc' = "exited"
  /\ UNCHANGED file /\ Stay

OpenFile ==
  /\ pc = "start"
  /\ pc' = "loading"
  /\ file' = TRUE
  /\ Stay

\* No memory for the temporary pool, yajl, the read buffer, a string or an item
\* of a list: all are used as they come.
OutOfMemory ==
  /\ pc \in {"start", "loading"}
  /\ pc' = "undefined"
  /\ starved' = TRUE
  /\ UNCHANGED <<ctx, file, doc, said, shaped>>

\* Not JSON: yajl refuses it.
SyntaxError ==
  /\ pc = "loading"
  /\ pc' = "exited"
  /\ UNCHANGED file /\ Stay

\* fread returns 0, at the end or for an error; nothing asks yajl whether the
\* document is complete.
EndOfFile ==
  /\ pc = "loading"
  /\ pc' = "loaded"
  /\ file' = FALSE
  /\ Stay

\* The two rings are allocated, and main_loop runs; or there is no memory.
Start ==
  /\ pc = "loaded"
  /\ pc' \in {"running", "exited"}
  /\ UNCHANGED file /\ Stay

Settled ==
  /\ pc \in {"running", "exited", "refused", "undefined"}
  /\ UNCHANGED vars

Init ==
  /\ pc = "start"
  /\ state = "START" /\ server = Null /\ heap = <<>> /\ cfg = EmptyConfig
  /\ file = FALSE
  /\ path = <<>> /\ key = Null /\ more = TRUE
  /\ starved = FALSE
  /\ said = EmptyConfig /\ shaped = TRUE

Next ==
  \/ GiveUpEarly \/ OpenFile
  \/ Token
  \/ OutOfMemory \/ SyntaxError \/ EndOfFile \/ Start
  \/ Settled

Spec == Init /\ [][Next]_vars

-----------------------------------------------------------------------------

State ==
  {"START", "ROOT", "CONFIG", "IDENTITY", "NICKS", "NICKS_ITEMS", "NAME", "LOGIN", "SERVERS",
   "SERVERS_ITEMS", "HOST", "PORT", "CHANNELS", "CHANNELS_ITEMS"}

Text == Value \cup {Null}

TypeOK ==
  /\ pc \in {"start", "loading", "loaded", "running", "exited", "refused", "undefined"}
  /\ state \in State
  /\ heap \in Seq([host : Text, port : Text])
  /\ server \in DOMAIN heap \cup {Null}
  /\ cfg.nicks \in Seq(Value) /\ cfg.channels \in Seq(Value)
  /\ cfg.name \in Text /\ cfg.login \in Text
  /\ cfg.servers \in Seq(DOMAIN heap)
  /\ path \in Seq([kind : {"map", "array"}, key : Key \cup {Null}])
  /\ key \in Key \cup {Null}
  /\ file \in BOOLEAN /\ more \in BOOLEAN
  /\ starved \in BOOLEAN /\ shaped \in BOOLEAN

\* Where the callbacks should be when the nesting of the document is p and k.
StateAt(p, k) ==
  CASE p = <<>> -> "START"
    [] p = Root -> IF k = "config" THEN "CONFIG" ELSE "ROOT"
    [] p = Config ->
         (CASE k = "identity" -> "IDENTITY" [] k = "servers" -> "SERVERS"
            [] k = "channels" -> "CHANNELS" [] OTHER -> "CONFIG")
    [] p = Identity ->
         (CASE k = "nicks" -> "NICKS" [] k = "name" -> "NAME"
            [] k = "login" -> "LOGIN" [] OTHER -> "IDENTITY")
    [] p = Nicks -> "NICKS_ITEMS"
    [] p = Servers -> "SERVERS_ITEMS"
    [] p = Server ->
         (CASE k = "host" -> "HOST" [] k = "port" -> "PORT" [] OTHER -> "SERVERS_ITEMS")
    [] p = Channels -> "CHANNELS_ITEMS"

\* The servers of the list, and the one being read.
Listed == [i \in DOMAIN cfg.servers |-> heap[cfg.servers[i]]]
Reading == IF path = Server THEN <<heap[server]>> ELSE <<>>

(***************************************************************************)
(* As long as the document has the shape of rpbot.json.example, in any      *)
(* order and with any item repeated, the single state of the callbacks      *)
(* stands for the whole nesting, and what is loaded is what the document    *)
(* says unless memory has run out.                                          *)
(***************************************************************************)
FollowsDocument ==
  shaped /\ pc # "refused" =>
    /\ state = StateAt(path, key)
    /\ ~starved => said = [nicks |-> cfg.nicks, name |-> cfg.name, login |-> cfg.login,
                           channels |-> cfg.channels, servers |-> Listed \o Reading]

\* No callback refuses a document of that shape.
ShapedNeverRefused == pc = "refused" => ~shaped

(***************************************************************************)
(* In any document, even one whose null, number or unknown key makes state  *)
(* and nesting disagree: what is stored is the value of a key of that name, *)
(* an item of a list of that name, or inside an item of `servers'.          *)
(***************************************************************************)
ItemOf(p, name) == p # <<>> /\ Last(p).kind = "array" /\ Matches(Last(p).key, name)
StoredUnderOwnKey ==
  [][/\ cfg'.name # cfg.name => Matches(key, "name")
     /\ cfg'.login # cfg.login => Matches(key, "login")
     /\ cfg'.nicks # cfg.nicks => ItemOf(path, "nicks")
     /\ cfg'.channels # cfg.channels => ItemOf(path, "channels")
     /\ \A i \in DOMAIN heap, name \in {"host", "port"} :
          heap'[i][name] # heap[i][name] =>
            Matches(key, name) /\ ItemOf(Front(path), "servers")]_vars

(***************************************************************************)
(* In any document: nothing is stored through a NULL server, nor one        *)
(* appended, unless memory has run out; a server that is filled is not in   *)
(* the list yet, and none is appended twice (LL_APPEND would close the list *)
(* into a ring).                                                            *)
(***************************************************************************)
ServersSound ==
  /\ pc = "undefined" => starved
  /\ state \in {"HOST", "PORT"} => ~Contains(cfg.servers, server)
  /\ \A i, j \in DOMAIN cfg.servers : i # j => cfg.servers[i] # cfg.servers[j]
=============================================================================
