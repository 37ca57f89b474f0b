--------------------------- MODULE RpConfig_proofs ---------------------------
(***************************************************************************)
(* Proofs about RpConfig, for any strings and for documents of any depth    *)
(* and length.  The callbacks know no nesting; the invariant says what the  *)
(* single state still tells about it, in documents of any shape (Nesting)   *)
(* and in those of the example's shape (Shaped).                            *)
(***************************************************************************)
EXTENDS RpConfig, SequenceTheorems, TLAPS

\* An open container of the document, and a server in memory.
Container == [kind : {"map", "array"}, key : Key \cup {Null}]
ServerRecord == [host : Text, port : Text]

\* The types of the variables, cfg as a record included.
Types ==
  /\ pc \in {"start", "loading", "loaded", "running", "exited", "refused", "undefined"}
  /\ state \in State
  /\ heap \in Seq(ServerRecord)
  /\ server \in DOMAIN heap \cup {Null}
  /\ cfg \in [nicks : Seq(Value), name : Text, login : Text,
              servers : Seq(DOMAIN heap), channels : Seq(Value)]
  /\ path \in Seq(Container)
  /\ key \in Key \cup {Null}
  /\ file \in BOOLEAN /\ more \in BOOLEAN
  /\ starved \in BOOLEAN /\ shaped \in BOOLEAN

\* The n outermost containers are maps.
AllMaps(n) == \A i \in 1 .. n : path[i].kind = "map"

\* Inside a list whose key passes for name, with maps only around it.
InList(name) ==
  /\ path # <<>>
  /\ path[Len(path)].kind = "array" /\ Matches(path[Len(path)].key, name)
  /\ AllMaps(Len(path) - 1)
  /\ key = Null

\* Inside an item of a list of servers.
InItem ==
  /\ Len(path) > 1
  /\ path[Len(path)].kind = "map"
  /\ path[Len(path) - 1].kind = "array" /\ Matches(path[Len(path) - 1].key, "servers")
  /\ AllMaps(Len(path) - 2)

\* The server being read is there unless memory has run out, and not in the list yet.
Fresh ==
  /\ server # Null \/ starved
  /\ \A i \in DOMAIN cfg.servers : cfg.servers[i] # server

\* The value to come is that of a key that passes for name.
Named(name) == key # Null => Matches(key, name)

\* What the state of the callbacks tells about the nesting of any document.
Nesting ==
  /\ more /\ path = <<>> => state = "START"
  /\ state = "NICKS_ITEMS" => InList("nicks")
  /\ state = "CHANNELS_ITEMS" => InList("channels")
  /\ state = "SERVERS_ITEMS" => InList("servers") \/ (InItem /\ key = Null /\ Fresh)
  /\ state = "HOST" => InItem /\ Fresh /\ Named("host")
  /\ state = "PORT" => InItem /\ Fresh /\ Named("port")
  /\ state \notin {"NICKS_ITEMS", "CHANNELS_ITEMS", "SERVERS_ITEMS", "HOST", "PORT"} =>
       AllMaps(Len(path))
  /\ state = "NAME" => Named("name")
  /\ state = "LOGIN" => Named("login")
  /\ state = "NICKS" => Named("nicks")
  /\ state = "SERVERS" => Named("servers")
  /\ state = "CHANNELS" => Named("channels")

\* Nothing is written through NULL unless memory has run out.
Blamed == pc = "undefined" => starved

\* No server is in the list twice.
Distinct == \A i, j \in DOMAIN cfg.servers : i # j => cfg.servers[i] # cfg.servers[j]

\* The places of a document that has the example's shape.
Shape == {<<>>, Root, Config, Identity, Nicks, Servers, Server, Channels}

\* What has been loaded.
Loaded ==
  [nicks |-> cfg.nicks, name |-> cfg.name, login |-> cfg.login,
   channels |-> cfg.channels, servers |-> Listed \o Reading]

\* Everything about a document that has the example's shape so far.
Shaped ==
  shaped =>
    /\ pc # "refused"
    /\ path \in Shape
    /\ key \in KnownKeys(path) \cup {Null}
    /\ state = StateAt(path, key)
    /\ ~starved => said = Loaded

\* The types imply the type invariant of the runs.
LEMMA TypesGiveTypeOK == Types => TypeOK
BY DEF Types, TypeOK, Container, ServerRecord

-----------------------------------------------------------------------------
\* What Append does to a sequence.
LEMMA AppendFacts ==
  ASSUME NEW S, NEW s \in Seq(S), NEW e \in S
  PROVE  /\ Append(s, e) \in Seq(S)
         /\ Append(s, e) # <<>>
         /\ Len(Append(s, e)) = Len(s) + 1
         /\ \A i \in 1 .. Len(s) : Append(s, e)[i] = s[i]
         /\ Append(s, e)[Len(s) + 1] = e
OBVIOUS

\* What Front does to a sequence that is not empty.
LEMMA FrontFacts ==
  ASSUME NEW S, NEW s \in Seq(S), s # <<>>
  PROVE  /\ Front(s) \in Seq(S)
         /\ Len(s) \in Nat /\ Len(s) > 0
         /\ Len(Front(s)) = Len(s) - 1
         /\ \A i \in 1 .. Len(s) - 1 : Front(s)[i] = s[i]
<1>1. /\ Len(s) \in Nat \ {0}
      /\ \A i \in 1 .. Len(s) - 1 : s[i] \in S
  BY EmptySeq, ElementOfSeq, SMT
<1> DEFINE n == Len(s) - 1
<1>2. n \in Int /\ \A i \in 1 .. n : s[i] \in S
  BY <1>1
<1> HIDE DEF n
<1>3. /\ SubSeq(s, 1, n) \in Seq(S)
      /\ Len(SubSeq(s, 1, n)) = IF 1 <= n THEN n - 1 + 1 ELSE 0
      /\ \A i \in 1 .. n - 1 + 1 : SubSeq(s, 1, n)[i] = s[1 + i - 1]
  BY <1>2, SubSeqProperties
<1>4. n \in Nat
  BY <1>1 DEF n
<1>5. /\ Len(SubSeq(s, 1, n)) = n
      /\ \A i \in 1 .. n : SubSeq(s, 1, n)[i] = s[i]
  BY <1>3, <1>4
<1> QED
  BY <1>1, <1>3, <1>5 DEF Front, n

\* The types of doc.
DocumentTypes == path \in Seq(Container) /\ key \in Key \cup {Null} /\ more \in BOOLEAN

\* A value leaves the types of the document as they are.
LEMMA AfterValueTypes == DocumentTypes /\ AfterValue => DocumentTypes'
BY DEF DocumentTypes, AfterValue

\* So does the start of a container.
LEMMA OpenTypes ==
  ASSUME NEW c \in Container, DocumentTypes, Open(c)
  PROVE  DocumentTypes'
BY AppendFacts DEF DocumentTypes, Open

\* So does its end.
LEMMA CloseTypes ==
  ASSUME DocumentTypes, path # <<>>, Close
  PROVE  DocumentTypes'
BY FrontFacts DEF DocumentTypes, Close

\* Map and Array make containers.
LEMMA Containers ==
  ASSUME NEW k \in Key \cup {Null}
  PROVE  Map(k) \in Container /\ Array(k) \in Container
BY DEF Map, Array, Container

\* Min of a nonempty subset of 1 .. 3.
LEMMA LeastOfThree ==
  ASSUME NEW I \in SUBSET (1 .. 3), I # {}
  PROVE  Min(I) \in I /\ \A j \in I : Min(I) <= j
<1>1. \A y \in I : y \in {1, 2, 3}
  OBVIOUS
<1>2. PICK x \in I : \A y \in I : x <= y
  <2>1. CASE 1 \in I
    BY <1>1, <2>1
  <2>2. CASE 1 \notin I /\ 2 \in I
    BY <1>1, <2>2
  <2>3. CASE I = {3}
    BY <2>3
  <2> QED
    BY <1>1, <2>1, <2>2, <2>3
<1> QED
  BY <1>2 DEF Min

\* The place of the first name that k passes for, or 0.
Found(s, k) == SelectInSeq(Tried[s], LAMBDA t : Matches(k, t[1]))

\* The comparisons of rpcfg_map_key stop at the first name that passes.
LEMMA FirstMatch ==
  ASSUME NEW s \in DOMAIN Tried, NEW k \in Key
  PROVE  \/ /\ Found(s, k) = 0
            /\ \A j \in 1 .. Len(Tried[s]) : ~Matches(k, Tried[s][j][1])
         \/ /\ Found(s, k) \in 1 .. Len(Tried[s])
            /\ Matches(k, Tried[s][Found(s, k)][1])
            /\ \A j \in 1 .. Found(s, k) - 1 : ~Matches(k, Tried[s][j][1])
<1> DEFINE I == {j \in 1 .. Len(Tried[s]) : Matches(k, Tried[s][j][1])}
<1>1. Len(Tried[s]) \in 1 .. 3
  BY SMT DEF Tried
<1>2. Found(s, k) = IF I # {} THEN Min(I) ELSE 0
  BY SMT DEF Found, SelectInSeq
<1>3. I \in SUBSET (1 .. 3)
  BY <1>1
<1>4. ASSUME I # {} PROVE Min(I) \in I /\ \A j \in I : Min(I) <= j
  BY <1>3, <1>4, LeastOfThree
<1>5. CASE I = {}
  BY <1>2, <1>5
<1>6. CASE I # {}
  <2>1. Found(s, k) \in I /\ \A j \in I : Found(s, k) <= j
    BY <1>2, <1>4, <1>6
  <2>2. \A j \in 1 .. Found(s, k) - 1 : j \in 1 .. Len(Tried[s]) /\ j \notin I
    <3>1. Len(Tried[s]) \in Nat /\ Found(s, k) \in 1 .. Len(Tried[s])
      BY <1>1, <2>1
    <3> HIDE DEF I
    <3> QED
      BY <2>1, <3>1
  <2> QED
    BY <2>1, <2>2
<1> QED
  BY <1>5, <1>6

\* Every way rpcfg_map_key can go: the state a key leads to, by its names.
LEMMA KeyLeads ==
  ASSUME NEW k \in Key, MapKey(k)
  PROVE  \/ /\ Cancel
            /\ state \in DOMAIN Tried =>
                 \A j \in 1 .. Len(Tried[state]) : ~Matches(k, Tried[state][j][1])
         \/ /\ key' = k /\ pc' = pc /\ UNCHANGED <<file, starved, server, heap, cfg, path, more>>
            /\ \/ state = "ROOT" /\ state' = "CONFIG" /\ Matches(k, "config")
               \/ state = "CONFIG" /\ state' = "IDENTITY" /\ Matches(k, "identity")
               \/ state = "CONFIG" /\ state' = "SERVERS" /\ Matches(k, "servers")
               \/ state = "CONFIG" /\ state' = "CHANNELS" /\ Matches(k, "channels")
               \/ state = "IDENTITY" /\ state' = "NICKS" /\ Matches(k, "nicks")
               \/ state = "IDENTITY" /\ state' = "NAME" /\ Matches(k, "name")
               \/ state = "IDENTITY" /\ state' = "LOGIN" /\ Matches(k, "login")
               \/ /\ state = "IDENTITY" /\ state' = "IDENTITY"
                  /\ \A name \in {"nicks", "name", "login"} : ~Matches(k, name)
               \/ state = "SERVERS_ITEMS" /\ state' = "HOST" /\ Matches(k, "host")
               \/ state = "SERVERS_ITEMS" /\ state' = "PORT" /\ Matches(k, "port")
<1>1. CASE state \notin DOMAIN Tried
  BY <1>1 DEF MapKey
<1>2. CASE state \in DOMAIN Tried /\ Found(state, k) = 0
  <2>1. \A j \in 1 .. Len(Tried[state]) : ~Matches(k, Tried[state][j][1])
    BY <1>2, FirstMatch
  <2>2. CASE state # "IDENTITY"
    <3>1. Cancel
      BY <1>2, <2>2, SMT DEF MapKey, Found
    <3> QED
      BY <2>1, <3>1
  <2>3. CASE state = "IDENTITY"
    <3>1. /\ state' = state
          /\ key' = k /\ pc' = pc /\ UNCHANGED <<file, starved, server, heap, cfg, path, more>>
      BY <1>2, <2>3, SMT DEF MapKey, Found, Accept
    <3>2. \A name \in {"nicks", "name", "login"} : ~Matches(k, name)
      BY <2>1, <2>3, SMT DEF Tried
    <3> QED
      BY <2>3, <3>1, <3>2
  <2> QED
    BY <2>2, <2>3
<1>3. CASE state \in DOMAIN Tried /\ Found(state, k) # 0
  <2>1. /\ state' = Tried[state][Found(state, k)][2]
        /\ key' = k /\ pc' = pc /\ UNCHANGED <<file, starved, server, heap, cfg, path, more>>
    BY <1>3, SMT DEF MapKey, Found, Accept
  <2>2. /\ Found(state, k) \in 1 .. Len(Tried[state])
        /\ Matches(k, Tried[state][Found(state, k)][1])
        /\ \A j \in 1 .. Found(state, k) - 1 : ~Matches(k, Tried[state][j][1])
    BY <1>3, FirstMatch
  <2> DEFINE i == Found(state, k)
  <2>3. CASE state = "ROOT"
    <3>1. i = 1
      BY <2>2, <2>3 DEF Tried
    <3> QED
      BY <2>1, <2>2, <2>3, <3>1 DEF Tried
  <2>4. CASE state = "CONFIG"
    <3>1. i = 1 \/ i = 2 \/ i = 3
      BY <2>2, <2>4 DEF Tried
    <3> QED
      BY <2>1, <2>2, <2>4, <3>1 DEF Tried
  <2>5. CASE state = "IDENTITY"
    <3>1. i = 1 \/ i = 2 \/ i = 3
      BY <2>2, <2>5 DEF Tried
    <3>2. i # 1 => ~Matches(k, "nicks")
      BY <2>2, <2>5, <3>1 DEF Tried
    <3> QED
      BY <2>1, <2>2, <2>5, <3>1, <3>2 DEF Tried
  <2>6. CASE state = "SERVERS_ITEMS"
    <3>1. i = 1 \/ i = 2
      BY <2>2, <2>6 DEF Tried
    <3> QED
      BY <2>1, <2>2, <2>6, <3>1 DEF Tried
  <2> QED
    BY <1>3, <2>3, <2>4, <2>5, <2>6 DEF Tried
<1> QED
  BY <1>1, <1>2, <1>3

-----------------------------------------------------------------------------
\* A refused token changes no type.
LEMMA RefusedTypes ==
  ASSUME Types, Cancel, shaped' \in BOOLEAN
  PROVE  Types'
BY DEF Types, Cancel, ctx, doc

\* Neither does a write through NULL.
LEMMA NullTypes ==
  ASSUME Types, WriteToNull, shaped' \in BOOLEAN
  PROVE  Types'
BY DEF Types, WriteToNull, ctx, doc

\* A string is stored in a server only where there is one, so that types hold.
LEMMA StringTypes ==
  ASSUME Types, Nesting, NEW v \in Value, ReadString(v)
  PROVE  Types'
<1>1. shaped' \in BOOLEAN
  BY DEF ReadString, Expect, Types
<1>2. CASE Cancel \/ WriteToNull
  BY <1>1, <1>2, RefusedTypes, NullTypes
<1>3. CASE state \in StringStates /\ StoreString(v) /\ AfterValue /\ Accept
  <2>1. DocumentTypes'
    BY <1>3, AfterValueTypes DEF Types, DocumentTypes
  <2>2. state' \in State /\ server' = server
    BY <1>3 DEF StoreString, State, StringStates
  <2>3. /\ heap' \in Seq(ServerRecord)
        /\ DOMAIN heap' = DOMAIN heap
    <3>1. CASE state \in {"HOST", "PORT"}
      <4>1. server \in 1 .. Len(heap) /\ heap[server] \in ServerRecord
        BY <1>3, <3>1, ElementOfSeq, LenProperties DEF Types, StoreString
      <4> DEFINE r == IF state = "HOST" THEN [heap[server] EXCEPT !.host = v]
                                        ELSE [heap[server] EXCEPT !.port = v]
      <4>2. r \in ServerRecord
        BY <4>1 DEF ServerRecord, Text
      <4>3. heap' = [heap EXCEPT ![server] = r]
        BY <1>3, <3>1 DEF StoreString
      <4> HIDE DEF r
      <4> QED
        BY <4>1, <4>2, <4>3, ExceptSeq, LenProperties DEF Types
    <3>2. CASE state \notin {"HOST", "PORT"}
      BY <1>3, <3>2 DEF StoreString, Types
    <3> QED
      BY <3>1, <3>2
  <2>4. cfg' \in [nicks : Seq(Value), name : Text, login : Text,
                  servers : Seq(DOMAIN heap), channels : Seq(Value)]
    <3>1. \A s \in Seq(Value) : Append(s, v) \in Seq(Value)
      OBVIOUS
    <3> QED
      BY <1>3, <3>1 DEF StoreString, Types, Text
  <2> QED
    BY <1>1, <1>3, <2>1, <2>2, <2>3, <2>4 DEF Types, DocumentTypes, Accept
<1> QED
  BY <1>2, <1>3 DEF ReadString

\* A scalar without a callback keeps the types.
LEMMA ScalarTypes ==
  ASSUME Types, ReadScalar
  PROVE  Types'
<1>0. shaped' \in BOOLEAN
  BY DEF ReadScalar, Expect, Types
<1>1. shaped' \in BOOLEAN /\ DocumentTypes'
  BY <1>0, AfterValueTypes DEF ReadScalar, Types, DocumentTypes
<1> QED
  BY <1>1 DEF Types, DocumentTypes, ReadScalar, Accept, ctx

\* The start of a map keeps the types; so does the server it allocates.
LEMMA StartMapTypes ==
  ASSUME Types, StartMap
  PROVE  Types'
<1>1. shaped' \in BOOLEAN
  BY DEF StartMap, Expect, Types
<1>2. CASE Cancel
  BY <1>1, <1>2, RefusedTypes
<1>3. CASE Open(Map(key)) /\ Accept /\ UNCHANGED <<server, heap, cfg>> /\ state' \in State
  BY <1>1, <1>3, OpenTypes, Containers DEF Types, DocumentTypes, Accept
<1>4. CASE Open(Map(key)) /\ UNCHANGED <<pc, file, state, cfg>> /\ NewServer
  <2>1. DocumentTypes'
    BY <1>4, OpenTypes, Containers DEF Types, DocumentTypes
  <2>2. EmptyServer \in ServerRecord
    BY DEF EmptyServer, ServerRecord, Text
  <2>3. CASE heap' = heap /\ server' = Null /\ starved' = TRUE
    BY <1>1, <1>4, <2>1, <2>3 DEF Types, DocumentTypes
  <2>4. CASE heap' = Append(heap, EmptyServer) /\ server' = Len(heap) + 1 /\ UNCHANGED starved
    <3>1. /\ heap' \in Seq(ServerRecord)
          /\ Len(heap') = Len(heap) + 1 /\ Len(heap) \in Nat
      BY <2>2, <2>4, AppendFacts, LenProperties DEF Types
    <3>2. DOMAIN heap = 1 .. Len(heap) /\ DOMAIN heap' = 1 .. Len(heap) + 1
      BY <3>1, LenProperties DEF Types
    <3>3. cfg.servers \in Seq(DOMAIN heap')
      BY <3>1, <3>2, SeqMonotonic DEF Types
    <3> QED
      BY <1>1, <1>4, <2>1, <2>4, <3>1, <3>2, <3>3 DEF Types, DocumentTypes
  <2> QED
    BY <1>4, <2>3, <2>4 DEF NewServer
<1> QED
  BY <1>2, <1>3, <1>4 DEF StartMap, State, Types, ctx

\* The end of a map keeps the types.
LEMMA EndMapTypes ==
  ASSUME Types, Nesting, EndMap
  PROVE  Types'
<1>0. shaped' \in BOOLEAN
  BY DEF EndMap, Expect, Types
<1>1. shaped' \in BOOLEAN /\ path # <<>>
  BY <1>0 DEF EndMap, KeyNext, Inside
<1>2. CASE Cancel \/ WriteToNull
  BY <1>1, <1>2, RefusedTypes, NullTypes
<1>3. CASE /\ state' \in State
           /\ Close /\ Accept /\ UNCHANGED <<server, heap, cfg>>
  BY <1>1, <1>3, CloseTypes DEF Types, DocumentTypes, Accept
<1>4. CASE /\ state = "SERVERS_ITEMS" /\ server # Null
           /\ cfg' = [cfg EXCEPT !.servers = Append(@, server)]
           /\ Close /\ Accept /\ UNCHANGED <<state, server, heap>>
  <2>1. DocumentTypes'
    BY <1>1, <1>4, CloseTypes DEF Types, DocumentTypes
  <2>3. Append(cfg.servers, server) \in Seq(DOMAIN heap)
    BY <1>4, AppendFacts DEF Types
  <2> QED
    BY <1>1, <1>4, <2>1, <2>3 DEF Types, DocumentTypes, Accept
<1> QED
  BY <1>2, <1>3, <1>4 DEF EndMap, AfterMap, State

\* A key keeps the types.
LEMMA MapKeyTypes ==
  ASSUME Types, NEW k \in Key, MapKey(k)
  PROVE  Types'
<1>1. shaped' \in BOOLEAN
  BY DEF MapKey, Expect, Types
<1>2. CASE Cancel
  BY <1>1, <1>2, RefusedTypes
<1>3. CASE /\ key' = k /\ pc' = pc /\ UNCHANGED <<file, starved, server, heap, cfg, path, more>>
           /\ state' \in State
  BY <1>1, <1>3 DEF Types
<1> QED
  BY <1>2, <1>3, KeyLeads DEF State

\* The start of an array keeps the types.
LEMMA StartArrayTypes ==
  ASSUME Types, StartArray
  PROVE  Types'
<1>1. shaped' \in BOOLEAN
  BY DEF StartArray, Expect, Types
<1>2. CASE Cancel
  BY <1>1, <1>2, RefusedTypes
<1>3. CASE /\ state' \in State
           /\ Open(Array(key)) /\ Accept /\ UNCHANGED <<server, heap, cfg>>
  BY <1>1, <1>3, OpenTypes, Containers DEF Types, DocumentTypes, Accept
<1> QED
  BY <1>2, <1>3 DEF StartArray, ItemsOf, State

\* The end of an array keeps the types.
LEMMA EndArrayTypes ==
  ASSUME Types, EndArray
  PROVE  Types'
<1>0. shaped' \in BOOLEAN
  BY DEF EndArray, Expect, Types
<1>1. shaped' \in BOOLEAN /\ path # <<>>
  BY <1>0 DEF EndArray, Inside
<1>2. CASE Cancel
  BY <1>1, <1>2, RefusedTypes
<1>3. CASE /\ state' \in State
           /\ Close /\ Accept /\ UNCHANGED <<server, heap, cfg>>
  BY <1>1, <1>3, CloseTypes DEF Types, DocumentTypes, Accept
<1> QED
  BY <1>2, <1>3 DEF EndArray, State

\* The steps that read no token.
Outside == GiveUpEarly \/ OpenFile \/ OutOfMemory \/ SyntaxError \/ EndOfFile \/ Start \/ Settled

\* The steps that read no token keep everything but pc, file and the memory.
LEMMA OutsideKeeps ==
  ASSUME Outside
  PROVE  /\ UNCHANGED <<state, server, heap, cfg, path, key, more, said, shaped>>
         /\ starved' = starved \/ starved' = TRUE
BY DEF Outside, GiveUpEarly, OpenFile, OutOfMemory, SyntaxError, EndOfFile, Start, Settled, Stay, vars, ctx, doc

\* The steps that read no token keep the types.
LEMMA OutsideTypes ==
  ASSUME Types, Outside
  PROVE  Types'
<1>1. /\ pc' \in {"start", "loading", "loaded", "running", "exited", "refused", "undefined"}
      /\ file' \in BOOLEAN
  BY DEF Types, Outside, GiveUpEarly, OpenFile, OutOfMemory, Stay, ctx, SyntaxError, EndOfFile, Start, Settled, vars
<1> QED
  BY <1>1, OutsideKeeps DEF Types

-----------------------------------------------------------------------------
\* The nesting after the start of a container.
LEMMA OpenedPath ==
  ASSUME NEW c \in Container, DocumentTypes, Open(c)
  PROVE  /\ path' # <<>> /\ key' = Null
         /\ Len(path) \in Nat /\ Len(path') = Len(path) + 1
         /\ path'[Len(path')] = c
         /\ \A i \in 1 .. Len(path) : path'[i] = path[i]
BY AppendFacts DEF DocumentTypes, Open

\* The nesting after the end of a container.
LEMMA ClosedPath ==
  ASSUME DocumentTypes, path # <<>>, Close
  PROVE  /\ key' = Null /\ (more' <=> Len(path) > 1)
         /\ Len(path) \in Nat \ {0} /\ Len(path') = Len(path) - 1
         /\ \A i \in 1 .. Len(path') : path'[i] = path[i]
         /\ more' => path' # <<>>
<1>1. /\ Front(path) \in Seq(Container)
      /\ Len(path) \in Nat /\ Len(path) > 0
      /\ Len(Front(path)) = Len(path) - 1
      /\ \A i \in 1 .. Len(path) - 1 : Front(path)[i] = path[i]
  BY FrontFacts DEF DocumentTypes
<1>2. path' = Front(path) /\ key' = Null /\ (more' <=> Len(path) > 1)
  BY DEF Close
<1>3. Len(path) > 1 => Front(path) # <<>>
  BY <1>1, EmptySeq
<1> QED
  BY <1>1, <1>2, <1>3

\* A refused token leaves state and nesting alone.
LEMMA RefusedNesting ==
  ASSUME Nesting, Cancel
  PROVE  Nesting'
BY DEF Cancel, ctx, doc, Nesting, InList, InItem, Fresh, Named, AllMaps

\* So does a write through NULL.
LEMMA NullNesting ==
  ASSUME Nesting, WriteToNull
  PROVE  Nesting'
BY DEF WriteToNull, ctx, doc, Nesting, InList, InItem, Fresh, Named, AllMaps

\* Where a value may stand in a map, its key is known.
LEMMA ValueHasKey ==
  ASSUME Types, Nesting, ValueNext, AllMaps(Len(path)), state # "START"
  PROVE  key # Null
<1>1. path # <<>>
  BY DEF Nesting, ValueNext
<1>2. Len(path) \in Nat \ {0}
  BY <1>1, EmptySeq DEF Types
<1>3. ~Inside("array")
  BY <1>2 DEF Inside, Last, AllMaps
<1> QED
  BY <1>1, <1>3 DEF ValueNext

\* A string keeps Nesting: a stored value uses up its key.
LEMMA StringNesting ==
  ASSUME Types, Nesting, NEW v \in Value, ReadString(v)
  PROVE  Nesting'
<1>1. CASE Cancel \/ WriteToNull
  BY <1>1, RefusedNesting, NullNesting
<1>2. CASE state \in StringStates /\ StoreString(v) /\ AfterValue /\ Accept
  <2>1. UNCHANGED <<path, server, starved>> /\ key' = Null /\ (more' <=> path # <<>>)
    BY <1>2 DEF AfterValue, StoreString, Accept
  <2>2. cfg'.servers = cfg.servers
    BY <1>2 DEF StoreString, Types
  <2>3. \A n \in Int : AllMaps(n) => AllMaps(n)'
    BY <2>1 DEF AllMaps
  <2>4. /\ InItem => InItem'
        /\ Fresh => Fresh'
        /\ \A name : InList(name) => InList(name)'
    BY <2>1, <2>2 DEF InItem, InList, Fresh, AllMaps
  <2>5. AllMaps(Len(path)) => AllMaps(Len(path))'
    BY <2>1 DEF AllMaps
  <2>6. state' = CASE state \in {"NAME", "LOGIN"} -> "IDENTITY"
                   [] state \in {"HOST", "PORT"} -> "SERVERS_ITEMS"
                   [] OTHER -> state
    BY <1>2 DEF StoreString
  <2>7. \A name : Named(name)'
    BY <2>1 DEF Named
  <2> QED
    BY <1>2, <2>1, <2>4, <2>5, <2>6, <2>7 DEF Nesting, StringStates
<1> QED
  BY <1>1, <1>2 DEF ReadString

\* A scalar keeps Nesting although state does not move: its key is used up.
LEMMA ScalarNesting ==
  ASSUME Types, Nesting, ReadScalar
  PROVE  Nesting'
<1>1. UNCHANGED <<path, server, state, cfg, starved>> /\ key' = Null /\ (more' <=> path # <<>>)
  BY DEF AfterValue, ReadScalar, Accept, ctx
<1> QED
  BY <1>1 DEF Nesting, InList, InItem, Fresh, Named, AllMaps

\* A map keeps Nesting; one in the list of servers starts a new server.
LEMMA StartMapNesting ==
  ASSUME Types, Nesting, StartMap
  PROVE  Nesting'
<1>1. CASE Cancel
  BY <1>1, RefusedNesting
<1> SUFFICES ASSUME Open(Map(key))
             PROVE  Nesting'
  BY <1>1 DEF StartMap
<1>2. /\ path' # <<>> /\ key' = Null
      /\ Len(path) \in Nat /\ Len(path') = Len(path) + 1
      /\ path'[Len(path')] = Map(key)
      /\ \A i \in 1 .. Len(path) : path'[i] = path[i]
  BY OpenedPath, Containers DEF Types, DocumentTypes
<1>3. CASE state \in {"START", "CONFIG", "IDENTITY"} /\ state' \in {"ROOT", "CONFIG", "IDENTITY"}
  <2>1. AllMaps(Len(path))
    BY <1>3 DEF Nesting
  <2>2. AllMaps(Len(path))'
    <3>1. \A i \in 1 .. Len(path') : i \in 1 .. Len(path) \/ i = Len(path')
      BY <1>2
    <3> QED
      BY <1>2, <2>1, <3>1 DEF AllMaps, Map
  <2> QED
    BY <1>2, <1>3, <2>2 DEF Nesting
<1>4. CASE state = "SERVERS_ITEMS" /\ NewServer /\ UNCHANGED <<state, cfg>>
  <2>1. InList("servers")
    <3>1. CASE InItem /\ key = Null
      <4>1. ~Inside("array") /\ path # <<>>
        BY <3>1, <1>2 DEF InItem, Inside, Last
      <4> QED
        BY <3>1, <4>1 DEF StartMap, ValueNext
    <3> QED
      BY <1>4, <3>1 DEF Nesting
  <2>2. InItem'
    <3>1. Len(path) \in 1 .. Len(path)
      BY <2>1, <1>2, EmptySeq DEF InList, Types
    <3>2. \A i \in 1 .. Len(path') - 2 : i \in 1 .. Len(path) - 1 /\ i \in 1 .. Len(path)
      BY <1>2
    <3>3. AllMaps(Len(path) - 2)'
      BY <1>2, <2>1, <3>2 DEF AllMaps, InList
    <3>4. Len(path') > 1 /\ Len(path') - 1 = Len(path)
      BY <1>2, <3>1
    <3> QED
      BY <1>2, <2>1, <3>1, <3>3, <3>4 DEF InItem, InList, Map
  <2>3. Fresh'
    <3>1. \/ server' = Len(heap) + 1 /\ Len(heap) \in Nat /\ server' # Null
          \/ server' = Null /\ starved' = TRUE
      BY <1>4, LenProperties, ConfigAssumption DEF NewServer, Types
    <3>2. \A i \in DOMAIN cfg.servers : cfg.servers[i] \in 1 .. Len(heap)
      BY LenProperties, ElementOfSeq DEF Types
    <3>3. \A i \in 1 .. Len(heap) : i # Null
      BY LenProperties, ConfigAssumption DEF Types
    <3>4. \A i \in DOMAIN cfg.servers : cfg.servers[i] # server'
      BY <3>1, <3>2, <3>3
    <3> QED
      BY <1>4, <3>1, <3>4 DEF Fresh
  <2> QED
    BY <1>2, <1>4, <2>2, <2>3 DEF Nesting
<1> QED
  BY <1>1, <1>3, <1>4 DEF StartMap, ctx

\* The end of a map keeps Nesting; that of a server leads back into the list.
LEMMA EndMapNesting ==
  ASSUME Types, Nesting, EndMap
  PROVE  Nesting'
<1>1. CASE Cancel \/ WriteToNull
  BY <1>1, RefusedNesting, NullNesting
<1> SUFFICES ASSUME Close
             PROVE  Nesting'
  BY <1>1 DEF EndMap
<1>2. path # <<>> /\ path[Len(path)].kind = "map"
  BY DEF EndMap, KeyNext, Inside, Last
<1>3. /\ key' = Null
      /\ Len(path) \in Nat \ {0} /\ Len(path') = Len(path) - 1
      /\ \A i \in 1 .. Len(path') : path'[i] = path[i]
      /\ more' => path' # <<>>
  BY <1>2, ClosedPath DEF Types, DocumentTypes
<1>4. CASE state \in DOMAIN AfterMap /\ state' = AfterMap[state]
  <2>1. AllMaps(Len(path))
    BY <1>4 DEF Nesting, AfterMap
  <2>2. AllMaps(Len(path))'
    BY <1>3, <2>1 DEF AllMaps
  <2> QED
    BY <1>3, <1>4, <2>2 DEF Nesting, AfterMap
<1>5. CASE state = "SERVERS_ITEMS" /\ state' = state
  <2>1. InItem
    BY <1>2, <1>5 DEF Nesting, InList
  <2>2. /\ Len(path') = Len(path) - 1 /\ Len(path') - 1 = Len(path) - 2
        /\ Len(path') \in 1 .. Len(path')
    BY <1>3, <2>1 DEF InItem
  <2>3. path'[Len(path')] = path[Len(path) - 1]
    BY <1>3, <2>2
  <2>4. AllMaps(Len(path) - 1)'
    BY <1>3, <2>1, <2>2 DEF AllMaps, InItem
  <2>5. path' # <<>>
    BY <2>2, EmptySeq
  <2>6. InList("servers")'
    BY <1>3, <2>1, <2>3, <2>4, <2>5 DEF InItem, InList
  <2> QED
    BY <1>3, <1>5, <2>6 DEF Nesting
<1> QED
  BY <1>1, <1>4, <1>5 DEF EndMap

\* A key keeps Nesting: it passes for the name its state stands for.
LEMMA MapKeyNesting ==
  ASSUME Types, Nesting, NEW k \in Key, MapKey(k)
  PROVE  Nesting'
<1>1. CASE Cancel
  BY <1>1, RefusedNesting
<1>2. CASE /\ key' = k /\ UNCHANGED <<starved, server, heap, cfg, path, more>>
           /\ ~Cancel
  <2>1. path # <<>> /\ path[Len(path)].kind = "map"
    BY DEF MapKey, KeyNext, Inside, Last
  <2>2. /\ AllMaps(Len(path)) => AllMaps(Len(path))'
        /\ InItem => InItem'
        /\ Fresh => Fresh'
    BY <1>2 DEF AllMaps, InItem, Fresh
  <2>3. CASE state \in {"ROOT", "CONFIG", "IDENTITY"}
    <3>1. AllMaps(Len(path))'
      BY <2>2, <2>3 DEF Nesting
    <3> QED
      BY <1>2, <2>1, <2>3, <3>1, KeyLeads DEF Nesting, Named
  <2>4. CASE state = "SERVERS_ITEMS"
    <3>1. InItem' /\ Fresh'
      BY <2>1, <2>2, <2>4 DEF Nesting, InList
    <3>2. (state' = "HOST" /\ Matches(k, "host")) \/ (state' = "PORT" /\ Matches(k, "port"))
      BY <1>2, <2>4, KeyLeads
    <3> QED
      BY <1>2, <2>1, <3>1, <3>2 DEF Nesting, Named
  <2> QED
    BY <1>2, <2>3, <2>4, KeyLeads
<1> QED
  BY <1>1, <1>2, KeyLeads

\* An array keeps Nesting: a list starts under a key that passes for its name.
LEMMA StartArrayNesting ==
  ASSUME Types, Nesting, StartArray
  PROVE  Nesting'
<1>1. CASE Cancel
  BY <1>1, RefusedNesting
<1> SUFFICES ASSUME Open(Array(key)), state \in DOMAIN ItemsOf, state' = ItemsOf[state],
                    UNCHANGED <<server, heap, cfg>>
             PROVE  Nesting'
  BY <1>1 DEF StartArray
<1>2. /\ path' # <<>> /\ key' = Null
      /\ Len(path) \in Nat /\ Len(path') = Len(path) + 1
      /\ path'[Len(path')] = Array(key)
      /\ \A i \in 1 .. Len(path) : path'[i] = path[i]
  BY OpenedPath, Containers DEF Types, DocumentTypes
<1>3. AllMaps(Len(path)) /\ state # "START"
  BY DEF Nesting, ItemsOf
<1>4. key # Null
  BY <1>3, ValueHasKey DEF StartArray
<1>5. AllMaps(Len(path) - 1)'
  <2>1. Len(path') - 1 = Len(path)
    BY <1>2
  <2> QED
    BY <1>2, <1>3, <2>1 DEF AllMaps
<1>6. \A name : Matches(key, name) => InList(name)'
  BY <1>2, <1>5 DEF InList, Array
<1> QED
  BY <1>2, <1>4, <1>6 DEF Nesting, Named, ItemsOf

\* The end of an array keeps Nesting.
LEMMA EndArrayNesting ==
  ASSUME Types, Nesting, EndArray
  PROVE  Nesting'
<1>1. CASE Cancel
  BY <1>1, RefusedNesting
<1> SUFFICES ASSUME Close, state \in {"NICKS_ITEMS", "SERVERS_ITEMS", "CHANNELS_ITEMS"},
                    state' \in {"IDENTITY", "CONFIG"}
             PROVE  Nesting'
  BY <1>1 DEF EndArray
<1>2. path # <<>> /\ path[Len(path)].kind = "array"
  BY DEF EndArray, Inside, Last
<1>3. /\ key' = Null
      /\ Len(path) \in Nat \ {0} /\ Len(path') = Len(path) - 1
      /\ \A i \in 1 .. Len(path') : path'[i] = path[i]
      /\ more' => path' # <<>>
  BY <1>2, ClosedPath DEF Types, DocumentTypes
<1>4. AllMaps(Len(path) - 1)
  BY <1>2 DEF Nesting, InList, InItem
<1>5. AllMaps(Len(path))'
  BY <1>3, <1>4 DEF AllMaps
<1> QED
  BY <1>3, <1>5 DEF Nesting

\* The steps that read no token keep Nesting.
LEMMA OutsideNesting ==
  ASSUME Nesting, Outside
  PROVE  Nesting'
<1>1. Fresh => Fresh'
  BY OutsideKeeps DEF Fresh
<1>2. /\ InItem => InItem'
      /\ \A name : (InList(name) => InList(name)') /\ (Named(name) => Named(name)')
      /\ AllMaps(Len(path)) => AllMaps(Len(path))'
  BY OutsideKeeps DEF InList, InItem, Named, AllMaps
<1> QED
  BY <1>1, <1>2, OutsideKeeps DEF Nesting

\* No token writes through NULL unless memory has run out.
LEMMA TokenBlamed ==
  ASSUME Types, Nesting, Blamed, Token
  PROVE  Blamed'
<1>1. pc = "loading"
  BY DEF Token
<1>2. ASSUME WriteToNull, state \in {"HOST", "PORT"} \/ (state = "SERVERS_ITEMS" /\ EndMap)
      PROVE  starved'
  <2>1. Fresh
    BY <1>2 DEF EndMap, KeyNext, Inside, Last, Nesting, InList
  <2> QED
    BY <1>2, <2>1 DEF WriteToNull, Fresh
<1>3. ASSUME NEW v \in Value, ReadString(v) PROVE pc' # "undefined" \/ starved'
  BY <1>1, <1>2, <1>3 DEF ReadString, Accept, Cancel
<1>4. ASSUME EndMap PROVE pc' # "undefined" \/ starved'
  BY <1>1, <1>2, <1>4 DEF EndMap, Accept, Cancel
<1>5. ASSUME NEW k \in Key, MapKey(k) PROVE pc' # "undefined"
  BY <1>1, <1>5, KeyLeads DEF Cancel
<1>6. ReadScalar \/ StartMap \/ StartArray \/ EndArray => pc' # "undefined"
  BY <1>1 DEF ReadScalar, StartMap, StartArray, EndArray, Accept, Cancel
<1> QED
  BY <1>3, <1>4, <1>5, <1>6 DEF Token, Blamed

\* Neither does a step that reads none.
LEMMA OutsideBlamed ==
  ASSUME Types, Blamed, Outside
  PROVE  Blamed'
BY DEF Blamed, Outside, GiveUpEarly, OpenFile, OutOfMemory, SyntaxError, EndOfFile, Start, Settled,
       Stay, vars

\* A new element keeps the elements of a sequence distinct.
LEMMA AppendDistinct ==
  ASSUME NEW S, NEW s \in Seq(S), NEW e \in S,
         \A i, j \in DOMAIN s : i # j => s[i] # s[j],
         \A i \in DOMAIN s : s[i] # e
  PROVE  \A i, j \in DOMAIN Append(s, e) : i # j => Append(s, e)[i] # Append(s, e)[j]
<1>1. /\ Len(s) \in Nat /\ DOMAIN s = 1 .. Len(s)
      /\ DOMAIN Append(s, e) = 1 .. Len(s) + 1
      /\ \A i \in 1 .. Len(s) : Append(s, e)[i] = s[i]
      /\ Append(s, e)[Len(s) + 1] = e
  BY AppendFacts, LenProperties
<1> QED
  BY <1>1

\* No token puts a server into the list twice: only a fresh one is appended.
LEMMA TokenDistinct ==
  ASSUME Types, Nesting, Distinct, Token
  PROVE  Distinct'
<1>1. CASE cfg'.servers = cfg.servers
  BY <1>1 DEF Distinct
<1>2. CASE /\ EndMap /\ state = "SERVERS_ITEMS" /\ server # Null
           /\ cfg' = [cfg EXCEPT !.servers = Append(@, server)]
  <2>1. Fresh
    BY <1>2 DEF EndMap, KeyNext, Inside, Last, Nesting, InList
  <2>2. /\ server \in DOMAIN heap /\ cfg.servers \in Seq(DOMAIN heap)
        /\ cfg'.servers = Append(cfg.servers, server)
    BY <1>2, <2>1 DEF Fresh, Types
  <2> QED
    BY <2>1, <2>2, AppendDistinct DEF Distinct, Fresh
<1>3. ASSUME NEW v \in Value, ReadString(v) PROVE cfg'.servers = cfg.servers
  BY <1>3 DEF ReadString, StoreString, StringStates, Cancel, WriteToNull, ctx, Types
<1>4. ASSUME NEW k \in Key, MapKey(k) PROVE cfg'.servers = cfg.servers
  BY <1>4, KeyLeads DEF Cancel, ctx
<1>5. ReadScalar \/ StartMap \/ StartArray \/ EndArray => cfg'.servers = cfg.servers
  BY DEF ReadScalar, StartMap, StartArray, EndArray, Cancel, ctx
<1>6. EndMap /\ state # "SERVERS_ITEMS" => cfg'.servers = cfg.servers
  BY DEF EndMap, Cancel, ctx
<1>7. EndMap /\ state = "SERVERS_ITEMS" =>
        \/ server # Null /\ cfg' = [cfg EXCEPT !.servers = Append(@, server)]
        \/ cfg'.servers = cfg.servers
  BY DEF EndMap, AfterMap, WriteToNull, ctx
<1> QED
  BY <1>1, <1>2, <1>3, <1>4, <1>5, <1>6, <1>7 DEF Token

\* The invariant implies ServersSound.
LEMMA SoundServers == Types /\ Nesting /\ Blamed /\ Distinct => ServersSound
<1> SUFFICES ASSUME Types, Nesting, Distinct, state \in {"HOST", "PORT"}
             PROVE  ~Contains(cfg.servers, server)
  BY DEF ServersSound, Blamed, Distinct
<1>1. Fresh
  BY DEF Nesting
<1>2. DOMAIN cfg.servers = 1 .. Len(cfg.servers)
  BY LenProperties DEF Types
<1> QED
  BY <1>1, <1>2 DEF Fresh, Contains

\* The action of StoredUnderOwnKey.
StoredRight ==
  /\ cfg'.name # cfg.name => Matches(key, "name")
  /\ cfg'.login # cfg.login => Matches(key, "login")
  /\ cfg'.nicks # cfg.nicks => ItemOf(path, "nicks")
  /\ cfg'.channels # cfg.channels => ItemOf(path, "channels")
  /\ \A i \in DOMAIN heap, name \in {"host", "port"} :
       heap'[i][name] # heap[i][name] =>
         Matches(key, name) /\ ItemOf(Front(path), "servers")

\* A string is stored under its own key, in any document.
LEMMA StringStoredRight ==
  ASSUME Types, Nesting, NEW v \in Value, ReadString(v)
  PROVE  StoredRight
<1>1. CASE Cancel \/ WriteToNull
  BY <1>1 DEF Cancel, WriteToNull, ctx, StoredRight
<1> SUFFICES ASSUME state \in StringStates, StoreString(v)
             PROVE  StoredRight
  BY <1>1 DEF ReadString
<1>2. CASE state \in {"NICKS_ITEMS", "CHANNELS_ITEMS"}
  <2>1. state = "NICKS_ITEMS" => ItemOf(path, "nicks")
    BY DEF Nesting, InList, ItemOf, Last
  <2>2. state = "CHANNELS_ITEMS" => ItemOf(path, "channels")
    BY DEF Nesting, InList, ItemOf, Last
  <2> QED
    BY <1>2, <2>1, <2>2 DEF StoreString, StoredRight, Types
<1>3. CASE state \in {"NAME", "LOGIN"}
  <2>1. key # Null
    BY <1>3, ValueHasKey DEF ReadString, Nesting
  <2> QED
    BY <1>3, <2>1 DEF StoreString, StoredRight, Types, Nesting, Named
<1>4. CASE state \in {"HOST", "PORT"}
  <2>1. InItem /\ Fresh
    BY <1>4 DEF Nesting
  <2>2. key # Null
    BY <2>1 DEF ReadString, ValueNext, InItem, Inside, Last
  <2>3. ItemOf(Front(path), "servers")
    <3>1. path # <<>> /\ Len(path) \in Nat
      BY <2>1, EmptySeq DEF InItem, Types
    <3>2. /\ Front(path) \in Seq(Container)
          /\ Len(Front(path)) = Len(path) - 1
          /\ \A i \in 1 .. Len(path) - 1 : Front(path)[i] = path[i]
      BY <3>1, FrontFacts DEF Types
    <3>3. Len(path) - 1 \in 1 .. Len(path) - 1
      BY <2>1, <3>1 DEF InItem
    <3>4. Front(path) # <<>>
      BY <3>2, <3>3, EmptySeq
    <3> QED
      BY <2>1, <3>2, <3>3, <3>4 DEF ItemOf, Last, InItem
  <2>4. server \in DOMAIN heap /\ \A i \in DOMAIN heap : heap[i] \in ServerRecord
    BY <1>4, ElementOfSeq, LenProperties DEF StoreString, Types
  <2>5. CASE state = "HOST"
    <3>1. Matches(key, "host")
      BY <2>2, <2>5 DEF Nesting, Named
    <3>2. \A i \in DOMAIN heap : heap'[i].port = heap[i].port
      BY <2>4, <2>5 DEF StoreString, ServerRecord
    <3> QED
      BY <2>3, <2>5, <3>1, <3>2 DEF StoredRight, StoreString
  <2>6. CASE state = "PORT"
    <3>1. Matches(key, "port")
      BY <2>2, <2>6 DEF Nesting, Named
    <3>2. \A i \in DOMAIN heap : heap'[i].host = heap[i].host
      BY <2>4, <2>6 DEF StoreString, ServerRecord
    <3> QED
      BY <2>3, <2>6, <3>1, <3>2 DEF StoredRight, StoreString
  <2> QED
    BY <1>4, <2>5, <2>6
<1> QED
  BY <1>2, <1>3, <1>4 DEF StringStates

\* No step stores anything elsewhere.
LEMMA StepStoredRight ==
  ASSUME Types, Nesting, [Next]_vars
  PROVE  StoredRight
<1>1. ASSUME UNCHANGED <<cfg, heap>> PROVE StoredRight
  BY <1>1 DEF StoredRight
<1>2. ASSUME NEW v \in Value, ReadString(v) PROVE StoredRight
  BY <1>2, StringStoredRight
<1>3. ASSUME NEW k \in Key, MapKey(k) PROVE StoredRight
  BY <1>1, <1>3, KeyLeads DEF Cancel, ctx
<1>4. ReadScalar \/ StartArray \/ EndArray => UNCHANGED <<cfg, heap>>
  BY DEF ReadScalar, StartArray, EndArray, Cancel, ctx
<1>5. ASSUME StartMap PROVE StoredRight
  <2>1. cfg' = cfg /\ (heap' = heap \/ heap' = Append(heap, EmptyServer))
    BY <1>5 DEF StartMap, NewServer, Cancel, ctx
  <2>2. \A i \in DOMAIN heap : Append(heap, EmptyServer)[i] = heap[i]
    <3>1. EmptyServer \in ServerRecord
      BY DEF EmptyServer, ServerRecord, Text
    <3> QED
      BY <3>1, AppendFacts, LenProperties DEF Types
  <2> QED
    BY <2>1, <2>2 DEF StoredRight
<1>6. ASSUME EndMap PROVE StoredRight
  <2>1. heap' = heap /\ (cfg' = cfg \/ cfg' = [cfg EXCEPT !.servers = Append(@, server)])
    BY <1>6 DEF EndMap, Cancel, WriteToNull, ctx
  <2> QED
    BY <2>1 DEF StoredRight, Types
<1>7. Outside \/ UNCHANGED vars => UNCHANGED <<cfg, heap>>
  BY OutsideKeeps DEF vars, ctx
<1> QED
  BY <1>1, <1>2, <1>3, <1>4, <1>5, <1>6, <1>7 DEF Next, Token, Outside

-----------------------------------------------------------------------------
\* Front and Last take apart what Append put together.
LEMMA FrontLastOfAppend ==
  ASSUME NEW S, NEW s \in Seq(S), NEW e \in S
  PROVE  Front(Append(s, e)) = s /\ Last(Append(s, e)) = e
<1>1. /\ Append(s, e) \in Seq(S) /\ Append(s, e) # <<>>
      /\ Len(s) \in Nat /\ Len(Append(s, e)) = Len(s) + 1
      /\ \A i \in 1 .. Len(s) : Append(s, e)[i] = s[i]
      /\ Append(s, e)[Len(s) + 1] = e
  BY AppendFacts, LenProperties
<1>2. /\ Front(Append(s, e)) \in Seq(S)
      /\ Len(Front(Append(s, e))) = Len(s)
      /\ \A i \in 1 .. Len(s) : Front(Append(s, e))[i] = s[i]
  <2>1. /\ Front(Append(s, e)) \in Seq(S)
        /\ Len(Front(Append(s, e))) = Len(Append(s, e)) - 1
        /\ \A i \in 1 .. Len(Append(s, e)) - 1 : Front(Append(s, e))[i] = Append(s, e)[i]
    BY <1>1, FrontFacts
  <2>2. Len(Append(s, e)) - 1 = Len(s)
    BY <1>1
  <2> QED
    BY <1>1, <2>1, <2>2
<1> QED
  BY <1>1, <1>2, SeqEqual DEF Last

\* The places of the example: how deep they are, what they are and where they lie.
LEMMA Places ==
  /\ Shape \subseteq Seq(Container)
  /\ Len(<<>>) = 0 /\ Len(Root) = 1 /\ Len(Config) = 2 /\ Len(Identity) = 3
  /\ Len(Servers) = 3 /\ Len(Channels) = 3 /\ Len(Nicks) = 4 /\ Len(Server) = 4
  /\ Last(Root) = Map(Null) /\ Last(Config) = Map("config")
  /\ Last(Identity) = Map("identity") /\ Last(Servers) = Array("servers")
  /\ Last(Channels) = Array("channels") /\ Last(Nicks) = Array("nicks")
  /\ Last(Server) = Map(Null)
  /\ Front(Root) = <<>> /\ Front(Config) = Root
  /\ Front(Identity) = Config /\ Front(Servers) = Config /\ Front(Channels) = Config
  /\ Front(Nicks) = Identity /\ Front(Server) = Servers
<1> DEFINE Holds(s, t, e) == /\ s \in Seq(Container) /\ Len(s) = Len(t) + 1
                             /\ Last(s) = e /\ Front(s) = t
<1>1. ASSUME NEW t \in Seq(Container), NEW e \in Container
      PROVE  Holds(Append(t, e), t, e)
  BY AppendFacts, FrontLastOfAppend
<1>2. Null \in Key \cup {Null} /\ Name \subseteq Key \cup {Null}
  BY DEF Key
<1>3. Root = Append(<<>>, Map(Null))
  BY DEF Root
<1>4. <<>> \in Seq(Container) /\ Len(<<>>) = 0
  BY EmptySeq
<1> HIDE DEF Holds
<1>5. Holds(Root, <<>>, Map(Null))
  BY <1>1, <1>2, <1>3, <1>4, Containers
<1>6. Holds(Config, Root, Map("config"))
  BY <1>1, <1>2, <1>5, Containers DEF Config, Holds, Name
<1>7. Holds(Identity, Config, Map("identity"))
  BY <1>1, <1>2, <1>6, Containers DEF Identity, Holds, Name
<1>8. Holds(Servers, Config, Array("servers"))
  BY <1>1, <1>2, <1>6, Containers DEF Servers, Holds, Name
<1>9. Holds(Channels, Config, Array("channels"))
  BY <1>1, <1>2, <1>6, Containers DEF Channels, Holds, Name
<1>10. Holds(Nicks, Identity, Array("nicks"))
  BY <1>1, <1>2, <1>7, Containers DEF Nicks, Holds, Name
<1>11. Holds(Server, Servers, Map(Null))
  BY <1>1, <1>2, <1>8, Containers DEF Server, Holds
<1> QED
  BY <1>4, <1>5, <1>6, <1>7, <1>8, <1>9, <1>10, <1>11 DEF Holds, Shape

\* No two of these places are the same.
LEMMA PlacesDiffer ==
  /\ <<>> \notin {Root, Config, Identity, Nicks, Servers, Server, Channels}
  /\ Root \notin {<<>>, Config, Identity, Nicks, Servers, Server, Channels}
  /\ Config \notin {<<>>, Root, Identity, Nicks, Servers, Server, Channels}
  /\ Identity \notin {<<>>, Root, Config, Nicks, Servers, Server, Channels}
  /\ Nicks \notin {<<>>, Root, Config, Identity, Servers, Server, Channels}
  /\ Servers \notin {<<>>, Root, Config, Identity, Nicks, Server, Channels}
  /\ Server \notin {<<>>, Root, Config, Identity, Nicks, Servers, Channels}
  /\ Channels \notin {<<>>, Root, Config, Identity, Nicks, Servers, Server}
<1>1. /\ Map("identity") # Array("servers") /\ Map("identity") # Array("channels")
      /\ Array("servers") # Array("channels") /\ Map(Null) # Array("nicks")
  BY DEF Map, Array
<1>2. /\ Identity # Servers /\ Identity # Channels /\ Servers # Channels /\ Nicks # Server
  BY <1>1, Places
<1>3. /\ <<>> \notin {Root, Config, Identity, Nicks, Servers, Server, Channels}
      /\ Root \notin {<<>>, Config, Identity, Nicks, Servers, Server, Channels}
  BY Places
<1>4. /\ Config \notin {<<>>, Root, Identity, Nicks, Servers, Server, Channels}
      /\ Identity \notin {<<>>, Root, Config, Nicks, Servers, Server, Channels}
  BY <1>2, Places
<1>5. /\ Nicks \notin {<<>>, Root, Config, Identity, Servers, Server, Channels}
      /\ Servers \notin {<<>>, Root, Config, Identity, Nicks, Server, Channels}
  BY <1>2, Places
<1>6. /\ Server \notin {<<>>, Root, Config, Identity, Nicks, Servers, Channels}
      /\ Channels \notin {<<>>, Root, Config, Identity, Nicks, Servers, Server}
  BY <1>2, Places
<1> QED
  BY <1>3, <1>4, <1>5, <1>6

\* StateAt, place by place.
LEMMA StateAtPlaces ==
  ASSUME NEW k
  PROVE  /\ StateAt(<<>>, k) = "START"
         /\ StateAt(Root, k) = IF k = "config" THEN "CONFIG" ELSE "ROOT"
         /\ StateAt(Config, k) = IF k = "identity" THEN "IDENTITY"
                                ELSE IF k = "servers" THEN "SERVERS"
                                ELSE IF k = "channels" THEN "CHANNELS" ELSE "CONFIG"
         /\ StateAt(Identity, k) = IF k = "nicks" THEN "NICKS"
                                  ELSE IF k = "name" THEN "NAME"
                                  ELSE IF k = "login" THEN "LOGIN" ELSE "IDENTITY"
         /\ StateAt(Nicks, k) = "NICKS_ITEMS"
         /\ StateAt(Servers, k) = "SERVERS_ITEMS"
         /\ StateAt(Server, k) = IF k = "host" THEN "HOST"
                                ELSE IF k = "port" THEN "PORT" ELSE "SERVERS_ITEMS"
         /\ StateAt(Channels, k) = "CHANNELS_ITEMS"
BY PlacesDiffer DEF StateAt

\* KnownKeys, place by place.
LEMMA KeysOfPlaces ==
  /\ KnownKeys(<<>>) = {} 
  /\ KnownKeys(Root) = {"config"}
  /\ KnownKeys(Config) = {"identity", "servers", "channels"}
  /\ KnownKeys(Identity) = {"nicks", "name", "login"}
  /\ KnownKeys(Nicks) = {} /\ KnownKeys(Servers) = {} /\ KnownKeys(Channels) = {}
  /\ KnownKeys(Server) = {"host", "port"}
BY PlacesDiffer, Zenon DEF KnownKeys

\* Listed is the sequence of the servers in the list.
LEMMA ListedTypes ==
  ASSUME Types
  PROVE  /\ Listed \in Seq(ServerRecord) /\ Len(Listed) = Len(cfg.servers)
         /\ \A i \in 1 .. Len(Listed) : Listed[i] = heap[cfg.servers[i]]
<1>1. /\ Len(cfg.servers) \in Nat /\ DOMAIN cfg.servers = 1 .. Len(cfg.servers)
      /\ \A i \in 1 .. Len(cfg.servers) : cfg.servers[i] \in 1 .. Len(heap)
      /\ DOMAIN heap = 1 .. Len(heap)
  BY LenProperties, ElementOfSeq DEF Types
<1>2. \A i \in 1 .. Len(cfg.servers) : heap[cfg.servers[i]] \in ServerRecord
  BY <1>1, ElementOfSeq DEF Types
<1>3. Listed = [i \in 1 .. Len(cfg.servers) |-> heap[cfg.servers[i]]]
  BY <1>1 DEF Listed
<1> HIDE DEF ServerRecord
<1> QED
  BY <1>1, <1>2, <1>3

\* The servers loaded change with the list, the memory and the place only.
LEMMA SameServers ==
  ASSUME cfg'.servers = cfg.servers, UNCHANGED <<heap, server>>, path' = Server <=> path = Server
  PROVE  Listed' = Listed /\ Reading' = Reading
BY DEF Listed, Reading

\* A document of another shape may be refused.
LEMMA RefusedShaped ==
  ASSUME Cancel, ~shaped'
  PROVE  Shaped'
BY DEF Shaped

\* After a write through NULL the place is the same, and what is loaded is lost.
LEMMA NullShaped ==
  ASSUME Shaped, WriteToNull, starved, shaped' => shaped
  PROVE  Shaped'
BY DEF Shaped, WriteToNull, ctx, doc

\* Where no key has been read yet.
LEMMA StateAtNoKey ==
  /\ StateAt(Root, Null) = "ROOT" /\ StateAt(Config, Null) = "CONFIG"
  /\ StateAt(Identity, Null) = "IDENTITY" /\ StateAt(Server, Null) = "SERVERS_ITEMS"
<1>1. Null \notin Name
  BY ConfigAssumption DEF Key
<1>2. \A name \in Name : Null # name
  BY <1>1
<1>3. /\ Null # "config" /\ Null # "identity" /\ Null # "servers" /\ Null # "channels"
      /\ Null # "nicks" /\ Null # "name" /\ Null # "login" /\ Null # "host" /\ Null # "port"
  BY <1>2 DEF Name
<1> QED
  BY <1>3, StateAtPlaces

\* Nothing but a server is filled: the list and the server read last.
LEMMA FilledServer ==
  ASSUME Types, NEW v \in Value, NEW f \in {"host", "port"}, server \in DOMAIN heap, path = Server,
         \A i \in DOMAIN cfg.servers : cfg.servers[i] # server,
         heap' = [heap EXCEPT ![server] = [@ EXCEPT ![f] = v]],
         UNCHANGED <<cfg, server, path>>
  PROVE  LET s == Listed \o Reading IN
         (Listed \o Reading)' = [s EXCEPT ![Len(s)][f] = v]
<1> DEFINE h == heap[server]
           g == [h EXCEPT ![f] = v]
           s == Listed \o <<h>>
<1>1. h \in ServerRecord /\ g \in ServerRecord
  <2>1. h \in ServerRecord
    BY LenProperties, ElementOfSeq DEF Types
  <2> QED
    BY <2>1 DEF ServerRecord, Text
<1>2. heap'[server] = g /\ \A i \in DOMAIN heap : i # server => heap'[i] = heap[i]
  OBVIOUS
<1>3. Listed' = Listed
  <2>1. \A i \in DOMAIN cfg.servers : cfg.servers[i] \in DOMAIN heap
    BY LenProperties, ElementOfSeq DEF Types
  <2> QED
    BY <1>2, <2>1 DEF Listed
<1>4. Reading = <<h>> /\ Reading' = <<g>>
  BY <1>2 DEF Reading
<1> HIDE DEF h, g
<1>5. /\ s \in Seq(ServerRecord) /\ Len(s) = Len(Listed) + 1 /\ Len(Listed) \in Nat
      /\ s[Len(s)] = h
      /\ \A i \in 1 .. Len(Listed) : s[i] = Listed[i]
  BY <1>1, ListedTypes, ConcatProperties
<1>6. /\ Listed \o <<g>> \in Seq(ServerRecord) /\ Len(Listed \o <<g>>) = Len(Listed) + 1
      /\ (Listed \o <<g>>)[Len(s)] = g
      /\ \A i \in 1 .. Len(Listed) : (Listed \o <<g>>)[i] = Listed[i]
  BY <1>1, <1>5, ListedTypes, ConcatProperties
<1> DEFINE r == [s EXCEPT ![Len(s)] = g]
<1>7. /\ r \in Seq(ServerRecord) /\ Len(r) = Len(s)
      /\ \A i \in 1 .. Len(s) : r[i] = IF i = Len(s) THEN g ELSE s[i]
  <2>1. s \in Seq(ServerRecord) /\ Len(s) \in 1 .. Len(s)
    BY <1>5
  <2> HIDE DEF s
  <2> QED
    BY <1>1, <2>1, ExceptSeq
<1>8. Listed \o <<g>> = r
  <2>1. \A i \in 1 .. Len(s) : i = Len(s) \/ i \in 1 .. Len(Listed)
    BY <1>5
  <2>2. \A i \in 1 .. Len(s) : (Listed \o <<g>>)[i] = r[i]
    BY <1>5, <1>6, <1>7, <2>1
  <2> HIDE DEF s, r
  <2> QED
    BY <1>5, <1>6, <1>7, <2>2, SeqEqual
<1>9. r = [s EXCEPT ![Len(s)][f] = v]
  BY <1>5 DEF g
<1> QED
  BY <1>3, <1>4, <1>8, <1>9

\* A string of such a document is stored where the document puts it.
LEMMA StringShaped ==
  ASSUME Types, Nesting, Shaped, NEW v \in Value, ReadString(v)
  PROVE  Shaped'
<1> SUFFICES ASSUME shaped'
             PROVE  Shaped'
  BY DEF Shaped
<1>1. shaped /\ StringPlace /\ said' = Say(v)
  BY DEF ReadString, Expect
<1>2. state = StateAt(path, key) /\ (~starved => said = Loaded) /\ pc # "refused"
  BY <1>1 DEF Shaped
<1>3. path \in Shape /\ path \in {Nicks, Channels, Identity, Server}
  BY <1>1 DEF StringPlace, Shape
<1>4. path = Server => key \in {"host", "port"}
  BY <1>1, <1>3, PlacesDiffer, KeysOfPlaces DEF StringPlace, Shaped
<1>5. path = Identity => key \in {"name", "login"}
  BY <1>1, PlacesDiffer DEF StringPlace
<1>6. state = CASE path = Nicks -> "NICKS_ITEMS"
                [] path = Channels -> "CHANNELS_ITEMS"
                [] path = Identity -> (IF key = "name" THEN "NAME" ELSE "LOGIN")
                [] path = Server -> (IF key = "host" THEN "HOST" ELSE "PORT")
  BY <1>2, <1>3, <1>4, <1>5, StateAtPlaces, PlacesDiffer
<1>0. CASE state \in {"HOST", "PORT"} /\ WriteToNull
  <2>1. starved
    BY <1>0 DEF Nesting, Fresh, WriteToNull
  <2> QED
    BY <1>0, <1>1, <2>1, NullShaped
<1> SUFFICES ASSUME StoreString(v), AfterValue, Accept
             PROVE  Shaped'
  BY <1>0, <1>3, <1>6 DEF ReadString, StringStates
<1>7. state \in StringStates /\ StoreString(v) /\ AfterValue /\ Accept
  BY <1>3, <1>6 DEF StringStates
<1>8. UNCHANGED <<path, server, pc, starved>> /\ key' = Null
  BY <1>7 DEF AfterValue, Accept, StoreString
<1>9. path' \in Shape /\ key' \in KnownKeys(path') \cup {Null} /\ pc' # "refused"
  BY <1>2, <1>3, <1>8
<1>10. state' = StateAt(path', key')
  <2>1. StateAt(path, Null) = CASE path = Nicks -> "NICKS_ITEMS"
                                [] path = Channels -> "CHANNELS_ITEMS"
                                [] path = Identity -> "IDENTITY"
                                [] path = Server -> "SERVERS_ITEMS"
    BY <1>3, StateAtPlaces, PlacesDiffer, StateAtNoKey
  <2> QED
    BY <1>3, <1>6, <1>7, <1>8, <2>1, PlacesDiffer DEF StoreString
<1>11. ASSUME ~starved' PROVE said' = Loaded'
  <2>0. said = Loaded
    BY <1>2, <1>8, <1>11
  <2>1. CASE path # Server
    <3>1. heap' = heap /\ cfg'.servers = cfg.servers
      BY <1>3, <1>6, <1>7, <2>1 DEF StoreString, Types
    <3>2. Listed' = Listed /\ Reading' = Reading
      BY <1>8, <3>1, SameServers
    <3>3. CASE path = Nicks
      BY <1>1, <2>0, <1>6, <1>7, <3>2, <3>3, PlacesDiffer DEF StoreString, Types, Say, Loaded
    <3>4. CASE path = Channels
      BY <1>1, <2>0, <1>6, <1>7, <3>2, <3>4, PlacesDiffer DEF StoreString, Types, Say, Loaded
    <3>5. CASE path = Identity
      BY <1>1, <2>0, <1>5, <1>6, <1>7, <3>2, <3>5, PlacesDiffer DEF StoreString, Types, Say, Loaded
    <3> QED
      BY <1>3, <2>1, <3>3, <3>4, <3>5
  <2>2. CASE path = Server
    <3>1. state = IF key = "host" THEN "HOST" ELSE "PORT"
      BY <1>6, <2>2, PlacesDiffer
    <3>2. Fresh /\ server \in DOMAIN heap
      BY <1>7, <3>1 DEF Nesting, StoreString, Types
    <3>3. heap' = [heap EXCEPT ![server] = [@ EXCEPT ![key] = v]] /\ UNCHANGED cfg
      BY <1>4, <1>7, <2>2, <3>1 DEF StoreString
    <3>4. (Listed \o Reading)' = [Listed \o Reading EXCEPT ![Len(Listed \o Reading)][key] = v]
      BY <1>4, <1>8, <2>2, <3>2, <3>3, FilledServer DEF Fresh, Types
    <3>5. said' = [said EXCEPT !.servers[Len(said.servers)][key] = v]
      BY <1>1, <2>2, PlacesDiffer DEF Say
    <3> QED
      BY <2>0, <3>3, <3>4, <3>5 DEF Loaded
  <2> QED
    BY <2>1, <2>2
<1> QED
  BY <1>9, <1>10, <1>11 DEF Shaped

\* A scalar is a surprise.
LEMMA ScalarShaped ==
  ASSUME ReadScalar
  PROVE  Shaped'
BY DEF ReadScalar, Expect, Shaped

\* A map of such a document opens where its state expects it.
LEMMA StartMapShaped ==
  ASSUME Types, Nesting, Shaped, StartMap
  PROVE  Shaped'
<1> SUFFICES ASSUME shaped'
             PROVE  Shaped'
  BY DEF Shaped
<1> DEFINE opened == Append(path, Map(key))
<1>1. /\ shaped /\ opened \in {Root, Config, Identity, Server}
      /\ said' = IF opened = Server THEN [said EXCEPT !.servers = Append(@, EmptyServer)] ELSE said
  BY DEF StartMap, Expect
<1>2. state = StateAt(path, key) /\ (~starved => said = Loaded) /\ pc # "refused"
  BY <1>1 DEF Shaped
<1>3. path = Front(opened) /\ Map(key) = Last(opened)
  BY FrontLastOfAppend, Containers DEF Types
<1>4. key = Last(opened).key
  BY <1>3 DEF Map
<1> HIDE DEF opened
<1>5. \/ opened = Root /\ path = <<>> /\ key = Null
      \/ opened = Config /\ path = Root /\ key = "config"
      \/ opened = Identity /\ path = Config /\ key = "identity"
      \/ opened = Server /\ path = Servers /\ key = Null
  BY <1>1, <1>3, <1>4, Places DEF Map
<1>6. state = IF opened = Root THEN "START" ELSE IF opened = Config THEN "CONFIG"
              ELSE IF opened = Identity THEN "IDENTITY" ELSE "SERVERS_ITEMS"
  BY <1>2, <1>5, StateAtPlaces, PlacesDiffer
<1>7. Open(Map(key)) /\ pc' = pc /\ (starved' = starved \/ starved' = TRUE)
  BY <1>6 DEF StartMap, Accept, NewServer
<1>8. path' = opened /\ key' = Null /\ pc' # "refused"
  BY <1>2, <1>7 DEF Open, opened
<1>9. path' \in Shape
  BY <1>5, <1>8 DEF Shape
<1>10. state' = StateAt(path', key')
  BY <1>5, <1>6, <1>8, StateAtPlaces, PlacesDiffer, StateAtNoKey DEF StartMap, ctx
<1>11. ASSUME ~starved' PROVE said' = Loaded'
  <2>0. said = Loaded
    BY <1>2, <1>7, <1>11
  <2>1. CASE opened # Server
    <3>1. UNCHANGED <<server, heap, cfg>>
      BY <1>5, <1>6, <2>1 DEF StartMap, ctx
    <3>2. path # Server
      BY <1>5, <2>1, PlacesDiffer
    <3> QED
      BY <1>1, <2>0, <1>8, <2>1, <3>1, <3>2, SameServers DEF Loaded
  <2>2. CASE opened = Server
    <3>1. heap' = Append(heap, EmptyServer) /\ server' = Len(heap) + 1 /\ UNCHANGED cfg
      BY <1>5, <1>6, <1>11, <2>2, PlacesDiffer DEF StartMap, NewServer
    <3>2. path # Server
      BY <1>5, <2>2, PlacesDiffer
    <3>3. EmptyServer \in ServerRecord
      BY DEF EmptyServer, ServerRecord, Text
    <3>4. /\ Len(heap) \in Nat /\ DOMAIN heap = 1 .. Len(heap)
          /\ \A i \in 1 .. Len(heap) : heap'[i] = heap[i]
          /\ heap'[server'] = EmptyServer
      BY <3>1, <3>3, AppendFacts, LenProperties DEF Types
    <3>5. \A i \in DOMAIN cfg.servers : cfg.servers[i] \in 1 .. Len(heap)
      BY <3>4, LenProperties, ElementOfSeq DEF Types
    <3>6. Listed' = Listed
      BY <3>1, <3>4, <3>5 DEF Listed
    <3>7. Reading = <<>> /\ Reading' = <<EmptyServer>>
      BY <1>8, <2>2, <3>2, <3>4 DEF Reading
    <3>8. Append(Listed \o <<>>, EmptyServer) = Listed \o <<EmptyServer>>
      BY <3>3, ListedTypes, ConcatEmptySeq
    <3> QED
      BY <1>1, <2>0, <2>2, <3>1, <3>6, <3>7, <3>8 DEF Loaded
  <2> QED
    BY <2>1, <2>2
<1> QED
  BY <1>8, <1>9, <1>10, <1>11 DEF Shaped

\* The end of a map leads back to the state of the place around it.
LEMMA EndMapShaped ==
  ASSUME Types, Nesting, Shaped, EndMap
  PROVE  Shaped'
<1> SUFFICES ASSUME shaped'
             PROVE  Shaped'
  BY DEF Shaped
<1>1. shaped /\ said' = said
  BY DEF EndMap, Expect
<1>2. /\ state = StateAt(path, key) /\ (~starved => said = Loaded) /\ pc # "refused"
      /\ path \in Shape
  BY <1>1 DEF Shaped
<1>3. path # <<>> /\ Last(path).kind = "map" /\ key = Null
  BY DEF EndMap, KeyNext, Inside
<1>4. path \in {Root, Config, Identity, Server}
  BY <1>2, <1>3, Places DEF Shape, Array
<1>5. state = IF path = Root THEN "ROOT" ELSE IF path = Config THEN "CONFIG"
              ELSE IF path = Identity THEN "IDENTITY" ELSE "SERVERS_ITEMS"
  BY <1>2, <1>3, <1>4, StateAtPlaces, PlacesDiffer, StateAtNoKey
<1>0. CASE state = "SERVERS_ITEMS" /\ WriteToNull
  <2>1. path[Len(path)].kind = "map"
    BY <1>3 DEF Last
  <2>2. starved
    BY <1>0, <2>1 DEF Nesting, InList, Fresh, WriteToNull
  <2> QED
    BY <1>0, <1>1, <2>2, NullShaped
<1> SUFFICES ASSUME ~(state = "SERVERS_ITEMS" /\ WriteToNull)
             PROVE  Shaped'
  BY <1>0
<1>6. Close /\ Accept
  BY <1>4, <1>5 DEF EndMap, AfterMap
<1>7. path' = Front(path) /\ key' = Null /\ pc' # "refused" /\ starved' = starved
  BY <1>2, <1>6 DEF Close, Accept
<1>8. path' = IF path = Root THEN <<>> ELSE IF path = Config THEN Root
              ELSE IF path = Identity THEN Config ELSE Servers
  BY <1>4, <1>7, Places
<1>9. path' \in Shape
  BY <1>8 DEF Shape
<1>10. state' = StateAt(path', key')
  BY <1>4, <1>5, <1>7, <1>8, StateAtPlaces, PlacesDiffer, StateAtNoKey DEF EndMap, AfterMap
<1>11. ASSUME ~starved' PROVE said' = Loaded'
  <2>0. said = Loaded
    BY <1>2, <1>7, <1>11
  <2>1. CASE path # Server
    <3>1. UNCHANGED <<server, heap, cfg>>
      BY <1>4, <1>5, <2>1 DEF EndMap, AfterMap, Cancel, ctx
    <3>2. path' # Server
      BY <1>4, <1>8, <2>1, PlacesDiffer
    <3> QED
      BY <1>1, <2>0, <2>1, <3>1, <3>2, SameServers DEF Loaded
  <2>2. CASE path = Server
    <3>1. cfg' = [cfg EXCEPT !.servers = Append(@, server)] /\ UNCHANGED <<server, heap>>
      BY <1>5, <2>2, PlacesDiffer DEF EndMap, AfterMap
    <3>2. server \in DOMAIN heap /\ cfg.servers \in Seq(DOMAIN heap)
      <4>1. state = "SERVERS_ITEMS" /\ path[Len(path)].kind = "map"
        BY <1>3, <1>5, <2>2, PlacesDiffer DEF Last
      <4>2. server # Null
        BY <4>1 DEF EndMap, AfterMap
      <4> QED
        BY <4>2 DEF Types
    <3>3. /\ cfg'.servers = Append(cfg.servers, server)
          /\ Len(cfg.servers) \in Nat /\ DOMAIN cfg.servers = 1 .. Len(cfg.servers)
          /\ DOMAIN cfg'.servers = 1 .. Len(cfg.servers) + 1
          /\ \A i \in 1 .. Len(cfg.servers) : cfg'.servers[i] = cfg.servers[i]
          /\ cfg'.servers[Len(cfg.servers) + 1] = server
      <4>1. cfg'.servers = Append(cfg.servers, server)
        BY <3>1 DEF Types
      <4> QED
        BY <3>2, <4>1, AppendFacts, LenProperties
    <3>4. Reading = <<heap[server]>> /\ Reading' = <<>>
      BY <1>8, <2>2, PlacesDiffer DEF Reading
    <3>5. heap[server] \in ServerRecord
      BY <3>2, LenProperties, ElementOfSeq DEF Types
    <3>6. /\ Listed' = [i \in 1 .. Len(cfg.servers) + 1 |-> heap[cfg'.servers[i]]]
          /\ Listed = [i \in 1 .. Len(cfg.servers) |-> heap[cfg.servers[i]]]
      BY <3>1, <3>3 DEF Listed
    <3>7. /\ Listed \in Seq(ServerRecord) /\ Len(Listed) = Len(cfg.servers)
          /\ Listed \o <<heap[server]>> \in Seq(ServerRecord)
          /\ Len(Listed \o <<heap[server]>>) = Len(cfg.servers) + 1
          /\ \A i \in 1 .. Len(cfg.servers) : (Listed \o <<heap[server]>>)[i] = Listed[i]
          /\ (Listed \o <<heap[server]>>)[Len(cfg.servers) + 1] = heap[server]
      BY <3>3, <3>5, ListedTypes, ConcatProperties
    <3>8. \A i \in 1 .. Len(cfg.servers) + 1 :
            i \in 1 .. Len(cfg.servers) \/ i = Len(cfg.servers) + 1
      BY <3>3
    <3>9. \A i \in 1 .. Len(cfg.servers) + 1 : Listed'[i] = (Listed \o <<heap[server]>>)[i]
      BY <3>3, <3>6, <3>7, <3>8
    <3>10. Listed' \in Seq(ServerRecord) /\ Len(Listed') = Len(cfg.servers) + 1
      <4>1. \A i \in 1 .. Len(cfg.servers) + 1 : (Listed \o <<heap[server]>>)[i] \in ServerRecord
        BY <3>7, ElementOfSeq
      <4> HIDE DEF ServerRecord
      <4> QED
        BY <3>3, <3>6, <3>9, <4>1
    <3>11. Listed' = Listed \o <<heap[server]>>
      BY <3>7, <3>9, <3>10, SeqEqual
    <3>12. Listed' \o <<>> = Listed'
      BY <3>10, ConcatEmptySeq
    <3> QED
      BY <1>1, <2>0, <3>1, <3>4, <3>11, <3>12 DEF Loaded, Types
  <2> QED
    BY <2>1, <2>2
<1> QED
  BY <1>7, <1>9, <1>10, <1>11 DEF Shaped

\* A key of such a document is the first it passes for.
LEMMA MapKeyShaped ==
  ASSUME Types, Shaped, NEW k \in Key, MapKey(k)
  PROVE  Shaped'
<1> SUFFICES ASSUME shaped'
             PROVE  Shaped'
  BY DEF Shaped
<1>1. shaped /\ said' = said /\ k \in KnownKeys(path)
  BY DEF MapKey, Expect
<1>2. /\ state = StateAt(path, key) /\ (~starved => said = Loaded) /\ pc # "refused"
      /\ path \in Shape
  BY <1>1 DEF Shaped
<1>3. key = Null
  BY DEF MapKey, KeyNext
<1>4. \/ path = Root /\ k = "config"
      \/ path = Config /\ k \in {"identity", "servers", "channels"}
      \/ path = Identity /\ k \in {"nicks", "name", "login"}
      \/ path = Server /\ k \in {"host", "port"}
  BY <1>1, <1>2, KeysOfPlaces DEF Shape
<1>5. state = IF path = Root THEN "ROOT" ELSE IF path = Config THEN "CONFIG"
              ELSE IF path = Identity THEN "IDENTITY" ELSE "SERVERS_ITEMS"
  BY <1>2, <1>3, <1>4, StateAtPlaces, PlacesDiffer, StateAtNoKey
<1>6. \A name : Matches(k, name) <=> k = name
  BY <1>4 DEF Matches
<1>7. state \in DOMAIN Tried /\ \E j \in 1 .. Len(Tried[state]) : Matches(k, Tried[state][j][1])
  <2>1. CASE path = Root
    <3>1. Len(Tried["ROOT"]) = 1 /\ Tried["ROOT"][1][1] = "config"
      BY DEF Tried
    <3> QED
      BY <1>4, <1>5, <1>6, <2>1, <3>1, PlacesDiffer DEF Tried
  <2>2. CASE path = Config
    <3>1. /\ Len(Tried["CONFIG"]) = 3 /\ Tried["CONFIG"][1][1] = "identity"
          /\ Tried["CONFIG"][2][1] = "servers" /\ Tried["CONFIG"][3][1] = "channels"
      BY DEF Tried
    <3> QED
      BY <1>4, <1>5, <1>6, <2>2, <3>1, PlacesDiffer DEF Tried
  <2>3. CASE path = Identity
    <3>1. /\ Len(Tried["IDENTITY"]) = 3 /\ Tried["IDENTITY"][1][1] = "nicks"
          /\ Tried["IDENTITY"][2][1] = "name" /\ Tried["IDENTITY"][3][1] = "login"
      BY DEF Tried
    <3> QED
      BY <1>4, <1>5, <1>6, <2>3, <3>1, PlacesDiffer DEF Tried
  <2>4. CASE path = Server
    <3>1. /\ Len(Tried["SERVERS_ITEMS"]) = 2 /\ Tried["SERVERS_ITEMS"][1][1] = "host"
          /\ Tried["SERVERS_ITEMS"][2][1] = "port"
      BY DEF Tried
    <3>2. state = "SERVERS_ITEMS" /\ k \in {"host", "port"}
      BY <1>4, <1>5, <2>4, PlacesDiffer
    <3>3. Matches(k, Tried[state][1][1]) \/ Matches(k, Tried[state][2][1])
      BY <1>6, <3>1, <3>2
    <3> QED
      BY <3>1, <3>2, <3>3 DEF Tried
  <2> QED
    BY <1>4, <2>1, <2>2, <2>3, <2>4
<1>8. /\ key' = k /\ pc' = pc /\ UNCHANGED <<starved, server, heap, cfg, path>>
      /\ state' = StateAt(path, k)
  BY <1>4, <1>5, <1>6, <1>7, KeyLeads, StateAtPlaces, PlacesDiffer
<1>9. ASSUME ~starved' PROVE said' = Loaded'
  BY <1>1, <1>2, <1>8, <1>9, SameServers DEF Loaded
<1> QED
  BY <1>1, <1>2, <1>8, <1>9 DEF Shaped

\* A list of such a document opens where its state expects it.
LEMMA StartArrayShaped ==
  ASSUME Types, Shaped, StartArray
  PROVE  Shaped'
<1> SUFFICES ASSUME shaped'
             PROVE  Shaped'
  BY DEF Shaped
<1> DEFINE opened == Append(path, Array(key))
<1>1. shaped /\ opened \in {Nicks, Servers, Channels} /\ said' = said
  BY DEF StartArray, Expect
<1>2. state = StateAt(path, key) /\ (~starved => said = Loaded) /\ pc # "refused"
  BY <1>1 DEF Shaped
<1>3. path = Front(opened) /\ Array(key) = Last(opened)
  BY FrontLastOfAppend, Containers DEF Types
<1>4. key = Last(opened).key
  BY <1>3 DEF Array
<1> HIDE DEF opened
<1>5. \/ opened = Nicks /\ path = Identity /\ key = "nicks"
      \/ opened = Servers /\ path = Config /\ key = "servers"
      \/ opened = Channels /\ path = Config /\ key = "channels"
  BY <1>1, <1>3, <1>4, Places DEF Array
<1>6. state = IF opened = Nicks THEN "NICKS" ELSE IF opened = Servers THEN "SERVERS" ELSE "CHANNELS"
  BY <1>2, <1>5, StateAtPlaces, PlacesDiffer
<1>7. Open(Array(key)) /\ Accept /\ UNCHANGED <<server, heap, cfg>> /\ state' = ItemsOf[state]
  BY <1>6 DEF StartArray, ItemsOf
<1>8. path' = opened /\ key' = Null /\ pc' # "refused" /\ starved' = starved
  BY <1>2, <1>7 DEF Open, Accept, opened
<1>9. path' \in Shape
  BY <1>5, <1>8 DEF Shape
<1>10. state' = StateAt(path', key')
  BY <1>5, <1>6, <1>7, <1>8, StateAtPlaces, PlacesDiffer DEF ItemsOf
<1>11. ASSUME ~starved' PROVE said' = Loaded'
  BY <1>11, <1>1, <1>2, <1>5, <1>7, <1>8, SameServers, PlacesDiffer DEF Loaded
<1> QED
  BY <1>8, <1>9, <1>10, <1>11 DEF Shaped

\* The end of a list leads back to the state of the place around it.
LEMMA EndArrayShaped ==
  ASSUME Types, Shaped, EndArray
  PROVE  Shaped'
<1> SUFFICES ASSUME shaped'
             PROVE  Shaped'
  BY DEF Shaped
<1>1. shaped /\ said' = said
  BY DEF EndArray, Expect
<1>2. /\ state = StateAt(path, key) /\ (~starved => said = Loaded) /\ pc # "refused"
      /\ path \in Shape
  BY <1>1 DEF Shaped
<1>3. path # <<>> /\ Last(path).kind = "array"
  BY DEF EndArray, Inside
<1>4. path \in {Nicks, Servers, Channels}
  BY <1>2, <1>3, Places DEF Shape, Map
<1>5. state = IF path = Nicks THEN "NICKS_ITEMS" ELSE IF path = Servers THEN "SERVERS_ITEMS"
              ELSE "CHANNELS_ITEMS"
  BY <1>2, <1>4, StateAtPlaces, PlacesDiffer
<1>6. /\ Close /\ Accept /\ UNCHANGED <<server, heap, cfg>>
      /\ state' = IF path = Nicks THEN "IDENTITY" ELSE "CONFIG"
  BY <1>4, <1>5, PlacesDiffer DEF EndArray
<1>7. path' = Front(path) /\ key' = Null /\ pc' # "refused" /\ starved' = starved
  BY <1>2, <1>6 DEF Close, Accept
<1>8. path' = IF path = Nicks THEN Identity ELSE Config
  BY <1>4, <1>7, Places, PlacesDiffer
<1>9. path' \in Shape
  BY <1>8 DEF Shape
<1>10. state' = StateAt(path', key')
  BY <1>6, <1>7, <1>8, StateAtPlaces, StateAtNoKey
<1>11. ASSUME ~starved' PROVE said' = Loaded'
  BY <1>11, <1>1, <1>2, <1>4, <1>6, <1>7, <1>8, SameServers, PlacesDiffer DEF Loaded
<1> QED
  BY <1>7, <1>9, <1>10, <1>11 DEF Shaped

\* The steps that read no token change nothing that was loaded.
LEMMA OutsideShaped ==
  ASSUME Shaped, Outside
  PROVE  Shaped'
<1>1. /\ UNCHANGED <<state, server, heap, cfg, path, key, said, shaped>>
      /\ starved' = starved \/ starved' = TRUE
  BY OutsideKeeps
<1>2. pc' = "refused" => pc = "refused"
  BY DEF Outside, GiveUpEarly, OpenFile, OutOfMemory, SyntaxError, EndOfFile, Start, Settled, vars
<1>3. Loaded' = Loaded
  BY <1>1 DEF Loaded, Listed, Reading
<1> QED
  BY <1>1, <1>2, <1>3 DEF Shaped

-----------------------------------------------------------------------------
\* The inductive invariant.
ConfigInv == Types /\ Nesting /\ Blamed /\ Distinct /\ Shaped

\* The invariant holds when rp_init begins,
LEMMA ConfigInit == Init => ConfigInv
<1> SUFFICES ASSUME Init
             PROVE  ConfigInv
  OBVIOUS
<1> USE DEF Init
<1>1. Types
  BY EmptySeq DEF Types, State, EmptyConfig, Text
<1>2. AllMaps(Len(path))
  BY EmptySeq DEF AllMaps
<1>3. Nesting
  BY <1>2 DEF Nesting
<1>4. Distinct /\ Blamed
  BY EmptySeq DEF Distinct, Blamed, EmptyConfig
<1>5. Listed \o Reading = <<>>
  BY PlacesDiffer, ListedTypes, <1>1 DEF Listed, Reading, EmptyConfig
<1>6. Shaped
  BY <1>5, StateAtPlaces DEF Shaped, Shape, Loaded, EmptyConfig
<1> QED
  BY <1>1, <1>3, <1>4, <1>6 DEF ConfigInv

\* every step keeps it,
LEMMA ConfigNext == ConfigInv /\ [Next]_vars => ConfigInv'
<1> SUFFICES ASSUME ConfigInv, [Next]_vars
             PROVE  ConfigInv'
  OBVIOUS
<1> USE DEF ConfigInv
<1>1. ASSUME NEW v \in Value, ReadString(v) PROVE (Types /\ Nesting /\ Shaped)'
  BY <1>1, StringTypes, StringNesting, StringShaped
<1>2. ASSUME ReadScalar PROVE (Types /\ Nesting /\ Shaped)'
  BY <1>2, ScalarTypes, ScalarNesting, ScalarShaped
<1>3. ASSUME StartMap PROVE (Types /\ Nesting /\ Shaped)'
  BY <1>3, StartMapTypes, StartMapNesting, StartMapShaped
<1>4. ASSUME EndMap PROVE (Types /\ Nesting /\ Shaped)'
  BY <1>4, EndMapTypes, EndMapNesting, EndMapShaped
<1>5. ASSUME NEW k \in Key, MapKey(k) PROVE (Types /\ Nesting /\ Shaped)'
  BY <1>5, MapKeyTypes, MapKeyNesting, MapKeyShaped
<1>6. ASSUME StartArray PROVE (Types /\ Nesting /\ Shaped)'
  BY <1>6, StartArrayTypes, StartArrayNesting, StartArrayShaped
<1>7. ASSUME EndArray PROVE (Types /\ Nesting /\ Shaped)'
  BY <1>7, EndArrayTypes, EndArrayNesting, EndArrayShaped
<1>8. CASE Token
  BY <1>1, <1>2, <1>3, <1>4, <1>5, <1>6, <1>7, <1>8, TokenDistinct, TokenBlamed DEF Token
<1>9. CASE Outside
  <2>1. cfg' = cfg
    BY <1>9, OutsideKeeps
  <2> QED
    BY <1>9, <2>1, OutsideTypes, OutsideNesting, OutsideBlamed, OutsideShaped DEF Distinct
<1>10. CASE UNCHANGED vars
  <2>1. pc' = pc /\ UNCHANGED vars
    BY <1>10 DEF vars
  <2>2. Types' /\ Nesting' /\ Blamed' /\ Distinct'
    BY <1>10 DEF vars, ctx, doc, Types, Nesting, InList, InItem, Fresh, Named, AllMaps, Blamed, Distinct
  <2>3. Shaped'
    BY <1>10 DEF vars, ctx, doc, Shaped, Loaded, Listed, Reading
  <2> QED
    BY <2>2, <2>3
<1> QED
  BY <1>8, <1>9, <1>10 DEF Next, Outside

\* and so it always holds.
LEMMA ConfigAlways == Spec => []ConfigInv
BY ConfigInit, ConfigNext, PTL DEF Spec

\* rp_init and the callbacks of rp_config.c keep TypeOK.
THEOREM ConfigTypeCorrect == Spec => []TypeOK
<1>1. ConfigInv => TypeOK
  BY TypesGiveTypeOK DEF ConfigInv
<1> QED
  BY <1>1, ConfigAlways, PTL

\* In any document: nothing is stored through a NULL server, nor is one appended,
\* unless memory has run out; no server of the list is filled, and LL_APPEND
\* never appends one twice.
THEOREM ConfigServersSound == Spec => []ServersSound
<1>1. ConfigInv => ServersSound
  BY SoundServers DEF ConfigInv
<1> QED
  BY <1>1, ConfigAlways, PTL

\* In any document: no callback of rp_config.c stores a value under a key, or in
\* a list, of another name.
THEOREM ConfigStoredUnderOwnKey == Spec => StoredUnderOwnKey
<1>1. ConfigInv /\ [Next]_vars => [StoredRight]_vars
  BY StepStoredRight DEF ConfigInv
<1> QED
  BY <1>1, ConfigAlways, PTL DEF Spec, StoredUnderOwnKey, StoredRight

\* For documents of the example's shape: the state of the callbacks is the one
\* of the nesting, and what is loaded is what the document says unless memory has
\* run out.
THEOREM ConfigFollowsDocument == Spec => []FollowsDocument
<1>1. ConfigInv => FollowsDocument
  BY DEF ConfigInv, Shaped, Loaded, FollowsDocument
<1> QED
  BY <1>1, ConfigAlways, PTL

\* No callback refuses a document of the example's shape.
THEOREM ConfigShapedNeverRefused == Spec => []ShapedNeverRefused
<1>1. ConfigInv => ShapedNeverRefused
  BY DEF ConfigInv, Shaped, ShapedNeverRefused
<1> QED
  BY <1>1, ConfigAlways, PTL
=============================================================================
