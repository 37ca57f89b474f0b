---------------------------- MODULE RpIrcsm_proofs -----------------------------
(***************************************************************************)
(* Of the parser: its slices never leave the prefix they point into, it     *)
(* accepts the grammar RpIrcGrammar states, and what it records of a        *)
(* message is what the message means.                                       *)
(*                                                                         *)
(* The slices: the edges of the grammar fall into kinds; the kinds tell     *)
(* what actions a byte performs at each stage of a prefix; and what has     *)
(* been recorded of the prefix at each stage is kept by these actions,      *)
(* whatever number of paths through the grammar the bytes leave open.       *)
(*                                                                         *)
(* The grammar: for every part of a message an operator says to which       *)
(* positions a text that begins one leads (HostLeads, Ip4Leads, ...,        *)
(* InnerLeads).  A byte more leads over the edges from there and nowhere    *)
(* else (InnerMore), and the texts that lead to an end are those the        *)
(* grammar allows (InnerAtEnd).                                             *)
(***************************************************************************)
EXTENDS RpIrcsm, RpIrcGrammar, Recursion_proofs, SequenceTheorems

\* The areas of the grammar: those of an address, and those after the prefix.
HostAreas == {"host", "ip4", "ip6", "mapped"}
RestAreas == {"code", "params"}

\* A position after the prefix and its space.
Rest(p) == p[1] \in RestAreas \/ p = Cr

\* The sets of actions an edge can have.
Begins == {"msg_start"}
ServerStart == {"prefix_start", "prefix", "servername_start", "servername"}
ServerMore == {"prefix", "servername"}
NickStart == {"prefix_start", "prefix", "hostmask_start", "nick_start", "nick"}
NickMore == {"prefix", "nick"}
UserStart == {"prefix", "user_start", "user"}
UserMore == {"prefix", "user"}
HostStart == {"prefix", "host_start", "host"}
HostMore == {"prefix", "host"}
PrefixOnly == {"prefix"}
ServerFinish == {"servername_finish"}
MaskFinish == {"hostmask_finish"}
CodeFirst == {"msg_start", "code_start", "code"}
CodeNext == {"code_start", "code"}

\* Bytes an edge is for: none that ends a part of the prefix, or only one byte.
Quiet(on) == " " \notin on /\ "!" \notin on /\ "@" \notin on
OnlyOn(on, byte) == \A b \in on : b = byte

\* The kinds of edges, by where they come from, where they lead and what they do.
ToPrefix(e) == e.from = Start /\ e.to = Colon /\ e.does = Begins /\ OnlyOn(e.on, ":")
ToServer(e) == e.from = Colon /\ e.to[1] = "server" /\ e.does = ServerStart
ToNick(e) == e.from = Colon /\ e.to[1] = "nick" /\ e.does = NickStart
InServer(e) == e.from[1] = "server" /\ e.to[1] = "server" /\ e.does = ServerMore /\ Quiet(e.on)
InNick(e) == e.from[1] = "nick" /\ e.to[1] = "nick" /\ e.does = NickMore /\ Quiet(e.on)
NickToUser(e) == e.from[1] = "nick" /\ e.to = Bang /\ e.does = PrefixOnly /\ OnlyOn(e.on, "!")
NickToHost(e) == e.from[1] = "nick" /\ e.to = At /\ e.does = PrefixOnly /\ OnlyOn(e.on, "@")
ToUser(e) == e.from = Bang /\ e.to = User /\ e.does = UserStart
InUser(e) == e.from = User /\ e.to = User /\ e.does = UserMore /\ "@" \notin e.on
UserToHost(e) == e.from = User /\ e.to = At /\ e.does = PrefixOnly /\ OnlyOn(e.on, "@")
ToHost(e) == e.from = At /\ e.to[1] \in HostAreas /\ e.does = HostStart
InHost(e) ==
  /\ e.from[1] \in HostAreas /\ e.to[1] \in HostAreas /\ e.does = HostMore
  /\ " " \notin e.on
ServerEnds(e) ==
  e.from[1] = "server" /\ e.to = Space /\ e.does = ServerFinish /\ OnlyOn(e.on, " ")
MaskEnds(e) ==
  /\ e.from[1] = "nick" \/ e.from[1] \in HostAreas
  /\ e.to = Space /\ e.does = MaskFinish /\ OnlyOn(e.on, " ")
StartToCode(e) == e.from = Start /\ e.to[1] = "code" /\ e.does = CodeFirst /\ ":" \notin e.on
SpaceToCode(e) == e.from = Space /\ e.to[1] = "code" /\ e.does = CodeNext
InRest(e) ==
  /\ Rest(e.from) /\ (Rest(e.to) \/ e.to = Done)
  /\ e.does \subseteq {"code", "params_start", "params"}

\* An edge is of one of these kinds.
Kind(e) ==
  \/ ToPrefix(e) \/ ToServer(e) \/ ToNick(e) \/ InServer(e) \/ InNick(e)
  \/ NickToUser(e) \/ NickToHost(e) \/ ToUser(e) \/ InUser(e) \/ UserToHost(e)
  \/ ToHost(e) \/ InHost(e) \/ ServerEnds(e) \/ MaskEnds(e)
  \/ StartToCode(e) \/ SpaceToCode(e) \/ InRest(e)

\* The fields of an edge.
LEMMA EdgeFields ==
  \A from, on, to, does :
    /\ Edge(from, on, to, does).from = from
    /\ Edge(from, on, to, does).on = on
    /\ Edge(from, on, to, does).to = to
    /\ Edge(from, on, to, does).does = does
BY DEF Edge

\* The area a position is in is the first part of its name.
LEMMA Areas ==
  \A k : /\ Nick(k)[1] = "nick" /\ Number(k)[1] = "code" /\ Blank(k)[1] = "params"
         /\ Middle(k)[1] = "params" /\ Word[1] = "code" /\ Trailing[1] = "params"
BY DEF Nick, Number, Blank, Middle, Word, Trailing

\* Letters, digits and specials end no part of a prefix.
LEMMA ByteClasses ==
  /\ \A b \in Alnum \cup Special : b # " " /\ b # "!" /\ b # "@"
  /\ HexLetter \subseteq Alnum /\ Digit \subseteq Alnum
BY IrcsmAssumption DEF Alnum, Marks

\* Which sets of bytes end no part of a prefix.
LEMMA QuietSets ==
  /\ Quiet(Alnum) /\ Quiet(Alnum \cup {"-"}) /\ Quiet({".", "/"}) /\ Quiet({"*"})
  /\ Quiet(Alnum \cup Special \cup {"-"})
  /\ Quiet(Digit) /\ Quiet(Digit \cup HexLetter) /\ Quiet({"0"}) /\ Quiet({"."}) /\ Quiet({":"})
  /\ Quiet({"f", "F"})
BY ByteClasses DEF Quiet

\* An edge for one byte is for no other.
LEMMA OnlyOnSets == \A byte : OnlyOn({byte}, byte)
BY DEF OnlyOn

\* What an edge of a hostname is: it enters it or stays in it.
HostnameEdge(e, begin, where, first, rest) ==
  /\ e.to[1] = where
  /\ \/ e.from = begin /\ e.does = first
     \/ e.from[1] = where /\ e.does = rest
  /\ Quiet(e.on)

\* Every edge of Hostname is one.
LEMMA HostnameEdges ==
  ASSUME NEW begin, NEW where, NEW first, NEW rest,
         NEW e, e \in Hostname(begin, where, first, rest)
  PROVE  HostnameEdge(e, begin, where, first, rest)
<1> DEFINE label(n) == <<where, "label", n>>
           star(n) == <<where, "star", n>>
           dot(n) == <<where, "dot", n>>
<1>1. \A n : label(n)[1] = where /\ star(n)[1] = where /\ dot(n)[1] = where
  OBVIOUS
<1>2. \/ e = Edge(begin, Alnum, label(1), first)
      \/ e = Edge(begin, {"*"}, star(1), first)
      \/ \E n \in 1 .. 2 : \/ e = Edge(label(n), Alnum \cup {"-"}, label(n), rest)
                           \/ e = Edge(label(n), {".", "/"}, dot(n), rest)
                           \/ e = Edge(star(n), {".", "/"}, dot(n), rest)
                           \/ e = Edge(dot(n), Alnum, label(2), rest)
                           \/ e = Edge(dot(n), {"*"}, star(2), rest)
  BY DEF Hostname
<1> HIDE DEF label, star, dot
<1>3. Quiet(e.on)
  BY <1>2, QuietSets, EdgeFields
<1>4. e.to[1] = where
  BY <1>2, <1>1, EdgeFields
<1>5. \/ e.from = begin /\ e.does = first
      \/ e.from[1] = where /\ e.does = rest
  BY <1>2, <1>1, EdgeFields
<1> QED
  BY <1>3, <1>4, <1>5 DEF HostnameEdge

\* What an edge of an address is: it enters it or stays in it.
AddressEdge(e, begin, first, rest) ==
  /\ e.to[1] \in HostAreas
  /\ \/ e.from = begin /\ e.does = first
     \/ e.from[1] \in HostAreas /\ e.does = rest
  /\ Quiet(e.on)

\* Every edge of Address is one.
LEMMA AddressEdges ==
  ASSUME NEW begin, NEW first, NEW rest, NEW e, e \in Address(begin, first, rest)
  PROVE  AddressEdge(e, begin, first, rest)
<1> DEFINE part(k) == <<"ip4", "digit", k>>
           dot(p) == <<"ip4", "dot", p>>
           group(g) == <<"ip6", "group", g>>
           colon(g) == <<"ip6", "colon", g>>
           zero(g) == <<"mapped", "zero", g>>
           f(k) == <<"mapped", "f", k>>
           after(g) == <<"mapped", "colon", g>>
           Hex == Digit \cup HexLetter
           Inside(p) == p[1] \in HostAreas
<1>1. \A k : /\ Inside(part(k)) /\ Inside(dot(k)) /\ Inside(group(k)) /\ Inside(colon(k))
             /\ Inside(zero(k)) /\ Inside(f(k)) /\ Inside(after(k))
  BY DEF HostAreas
<1>2. \/ e \in {Edge(begin, Digit, part(1), first), Edge(begin, Hex, group(1), first),
                Edge(begin, {"0"}, zero(1), first)}
      \/ \E k \in {j \in 1 .. PartDigits * AddressParts : j % PartDigits # 0} :
           e = Edge(part(k), Digit, part(k + 1), rest)
      \/ \E p \in 1 .. AddressParts - 1, d \in 1 .. PartDigits :
           e = Edge(part(PartDigits * (p - 1) + d), {"."}, dot(p), rest)
      \/ \E p \in 1 .. AddressParts - 1 : e = Edge(dot(p), Digit, part(PartDigits * p + 1), rest)
      \/ \E g \in 1 .. Groups : e = Edge(group(g), Hex, group(g), rest)
      \/ \E g \in 1 .. Groups - 1 : e = Edge(group(g), {":"}, colon(g), rest)
      \/ \E g \in 1 .. Groups - 1 : e = Edge(colon(g), Hex, group(g + 1), rest)
      \/ \E g \in 1 .. Zeros + 1 : e = Edge(zero(g), {":"}, after(g), rest)
      \/ \E g \in 1 .. Zeros : e = Edge(after(g), {"0"}, zero(g + 1), rest)
      \/ e \in {Edge(after(Zeros), {"f", "F"}, f(1), rest), Edge(f(4), {":"}, after(Zeros + 1), rest)}
      \/ \E k \in 1 .. 3 : e = Edge(f(k), {"f", "F"}, f(k + 1), rest)
      \/ e = Edge(after(Zeros + 1), Digit, part(1), rest)
  <2> DEFINE Firsts == {Edge(begin, Digit, part(1), first), Edge(begin, Hex, group(1), first),
                        Edge(begin, {"0"}, zero(1), first)}
             Digits == {Edge(part(k), Digit, part(k + 1), rest) :
                          k \in {j \in 1 .. PartDigits * AddressParts : j % PartDigits # 0}}
             Dots == {Edge(part(PartDigits * (p - 1) + d), {"."}, dot(p), rest) :
                        p \in 1 .. AddressParts - 1, d \in 1 .. PartDigits}
             NextParts == {Edge(dot(p), Digit, part(PartDigits * p + 1), rest) : p \in 1 .. AddressParts - 1}
             Hexes == {Edge(group(g), Hex, group(g), rest) : g \in 1 .. Groups}
             Colons == {Edge(group(g), {":"}, colon(g), rest) : g \in 1 .. Groups - 1}
             NextGroups == {Edge(colon(g), Hex, group(g + 1), rest) : g \in 1 .. Groups - 1}
             ZeroColons == {Edge(zero(g), {":"}, after(g), rest) : g \in 1 .. Zeros + 1}
             NextZeros == {Edge(after(g), {"0"}, zero(g + 1), rest) : g \in 1 .. Zeros}
             Fs == {Edge(after(Zeros), {"f", "F"}, f(1), rest),
                    Edge(f(4), {":"}, after(Zeros + 1), rest)}
             NextFs == {Edge(f(k), {"f", "F"}, f(k + 1), rest) : k \in 1 .. 3}
             Mapped == {Edge(after(Zeros + 1), Digit, part(1), rest)}
  <2>1. Address(begin, first, rest) =
          Firsts \cup Digits \cup Dots \cup NextParts \cup Hexes \cup Colons \cup NextGroups
          \cup ZeroColons \cup NextZeros \cup Fs \cup NextFs \cup Mapped
    BY DEF Address
  <2> HIDE DEF Firsts, Digits, Dots, NextParts, Hexes, Colons, NextGroups, ZeroColons, NextZeros, Fs,
               NextFs, Mapped
  <2>2. \/ e \in Firsts \/ e \in Digits \/ e \in Dots \/ e \in NextParts \/ e \in Hexes
        \/ e \in Colons \/ e \in NextGroups \/ e \in ZeroColons \/ e \in NextZeros
        \/ e \in Fs \/ e \in NextFs \/ e \in Mapped
    BY <2>1
  <2> HIDE DEF part, dot, group, colon, zero, f, after, Hex
  <2> USE DEF Firsts, Digits, Dots, NextParts, Hexes, Colons, NextGroups, ZeroColons, NextZeros, Fs,
               NextFs, Mapped
  <2> QED
    BY <2>2
<1>q. Quiet(Hex)
  BY QuietSets
<1> HIDE DEF part, dot, group, colon, zero, f, after, Inside, Hex
<1>3. Quiet(e.on)
  BY <1>2, <1>q, QuietSets, EdgeFields
<1>4. Inside(e.to)
  BY <1>2, <1>1, EdgeFields
<1>5. \/ e.from = begin /\ e.does = first
      \/ Inside(e.from) /\ e.does = rest
  BY <1>2, <1>1, EdgeFields
<1> QED
  BY <1>3, <1>4, <1>5 DEF AddressEdge, Inside

\* A hostname ends where it is.
LEMMA HostnameEndAreas == ASSUME NEW where, NEW p \in HostnameEnds(where) PROVE p[1] = where
BY DEF HostnameEnds

\* A hostmask ends in its nickname or in its host.
LEMMA HostmaskEndAreas == ASSUME NEW p \in HostmaskEnds PROVE p[1] = "nick" \/ p[1] \in HostAreas
<1>1. CASE p \in HostnameEnds("host")
  BY <1>1, HostnameEndAreas DEF HostAreas
<1>2. CASE \E k : p = Nick(k)
  BY <1>2, Areas
<1>3. CASE p \in AddressEnds
  BY <1>3 DEF AddressEnds, HostAreas
<1> QED
  BY <1>1, <1>2, <1>3 DEF HostmaskEnds

\* The edges of the prefix are of the kinds listed.
LEMMA PrefixKinds ==
  ASSUME NEW e \in PrefixEdges
  PROVE  Kind(e)
<1>1. CASE e \in Hostname(Colon, "server", ServerStart, ServerMore)
  <2>1. HostnameEdge(e, Colon, "server", ServerStart, ServerMore)
    BY <1>1, HostnameEdges
  <2>2. ToServer(e) \/ InServer(e)
    BY <2>1 DEF ToServer, InServer, HostnameEdge
  <2> QED
    BY <2>2 DEF Kind
<1>2. CASE e \in Hostname(At, "host", HostStart, HostMore)
  <2>1. HostnameEdge(e, At, "host", HostStart, HostMore)
    BY <1>2, HostnameEdges
  <2>2. ToHost(e) \/ InHost(e)
    BY <2>1 DEF ToHost, InHost, HostnameEdge, HostAreas, Quiet
  <2> QED
    BY <2>2 DEF Kind
<1>3. CASE e \in Address(At, HostStart, HostMore)
  <2>1. AddressEdge(e, At, HostStart, HostMore)
    BY <1>3, AddressEdges
  <2>2. ToHost(e) \/ InHost(e)
    BY <2>1 DEF ToHost, InHost, AddressEdge, Quiet
  <2> QED
    BY <2>2 DEF Kind
<1>4. CASE e = Edge(Colon, Letter \cup Special, Nick(1), NickStart)
  <2>1. ToNick(e)
    BY <1>4, EdgeFields, Areas DEF ToNick
  <2> QED
    BY <2>1 DEF Kind
<1>5. CASE \E k \in 1 .. NickBytes - 1 :
             e = Edge(Nick(k), Alnum \cup Special \cup {"-"}, Nick(k + 1), NickMore)
  <2>1. InNick(e)
    BY <1>5, EdgeFields, Areas, QuietSets DEF InNick
  <2> QED
    BY <2>1 DEF Kind
<1>6. CASE \E k \in 1 .. NickBytes : e = Edge(Nick(k), {"!"}, Bang, PrefixOnly)
  <2>1. NickToUser(e)
    BY <1>6, EdgeFields, Areas, OnlyOnSets DEF NickToUser
  <2> QED
    BY <2>1 DEF Kind
<1>7. CASE \E k \in 1 .. NickBytes : e = Edge(Nick(k), {"@"}, At, PrefixOnly)
  <2>1. NickToHost(e)
    BY <1>7, EdgeFields, Areas, OnlyOnSets DEF NickToHost
  <2> QED
    BY <2>1 DEF Kind
<1>8. CASE e = Edge(Bang, UserByte, User, UserStart)
  <2>1. ToUser(e)
    BY <1>8, EdgeFields DEF ToUser
  <2> QED
    BY <2>1 DEF Kind
<1>9. CASE e = Edge(User, UserByte, User, UserMore)
  <2>1. "@" \notin UserByte
    BY DEF UserByte
  <2>2. InUser(e)
    BY <1>9, <2>1, EdgeFields DEF InUser
  <2> QED
    BY <2>2 DEF Kind
<1>10. CASE e = Edge(User, {"@"}, At, PrefixOnly)
  <2>1. UserToHost(e)
    BY <1>10, EdgeFields, OnlyOnSets DEF UserToHost
  <2> QED
    BY <2>1 DEF Kind
<1>11. CASE \E p \in HostnameEnds("server") : e = Edge(p, {" "}, Space, ServerFinish)
  <2>1. PICK p \in HostnameEnds("server") : e = Edge(p, {" "}, Space, ServerFinish)
    BY <1>11
  <2>2. p[1] = "server"
    BY HostnameEndAreas
  <2>3. e.from = p /\ e.to = Space /\ e.does = ServerFinish /\ OnlyOn(e.on, " ")
    BY <2>1, EdgeFields, OnlyOnSets
  <2>4. ServerEnds(e)
    BY <2>2, <2>3 DEF ServerEnds
  <2> QED
    BY <2>4 DEF Kind
<1>12. CASE \E p \in HostmaskEnds : e = Edge(p, {" "}, Space, MaskFinish)
  <2>1. MaskEnds(e)
    BY <1>12, HostmaskEndAreas, EdgeFields, OnlyOnSets DEF MaskEnds
  <2> QED
    BY <2>1 DEF Kind
<1>13. /\ ServerStart = {"prefix_start", "prefix"} \cup {"servername_start", "servername"}
       /\ NickStart = {"prefix_start", "prefix"} \cup {"hostmask_start", "nick_start", "nick"}
  BY DEF ServerStart, NickStart
<1> HIDE DEF Edge, Kind
<1>14. \/ e \in Hostname(Colon, "server", ServerStart, ServerMore)
       \/ e \in Hostname(At, "host", HostStart, HostMore) \cup Address(At, HostStart, HostMore)
       \/ e \in {Edge(Colon, Letter \cup Special, Nick(1), NickStart)}
       \/ e \in {Edge(Nick(k), Alnum \cup Special \cup {"-"}, Nick(k + 1), NickMore) :
                   k \in 1 .. NickBytes - 1}
       \/ e \in {Edge(Nick(k), {"!"}, Bang, PrefixOnly) : k \in 1 .. NickBytes}
       \/ e \in {Edge(Nick(k), {"@"}, At, PrefixOnly) : k \in 1 .. NickBytes}
       \/ e \in {Edge(Bang, UserByte, User, UserStart), Edge(User, UserByte, User, UserMore),
                 Edge(User, {"@"}, At, PrefixOnly)}
       \/ e \in {Edge(p, {" "}, Space, ServerFinish) : p \in HostnameEnds("server")}
       \/ e \in {Edge(p, {" "}, Space, MaskFinish) : p \in HostmaskEnds}
  <2> DEFINE PS == {"prefix_start", "prefix"}
  <2>1. e \in Hostname(Colon, "server", PS \cup {"servername_start", "servername"}, ServerMore)
              \cup {Edge(Colon, Letter \cup Special, Nick(1),
                         PS \cup {"hostmask_start", "nick_start", "nick"})}
              \cup {Edge(Nick(k), Alnum \cup Special \cup {"-"}, Nick(k + 1), NickMore) :
                      k \in 1 .. NickBytes - 1}
              \cup {Edge(Nick(k), {"!"}, Bang, PrefixOnly) : k \in 1 .. NickBytes}
              \cup {Edge(Nick(k), {"@"}, At, PrefixOnly) : k \in 1 .. NickBytes}
              \cup {Edge(Bang, UserByte, User, UserStart), Edge(User, UserByte, User, UserMore),
                    Edge(User, {"@"}, At, PrefixOnly)}
              \cup Hostname(At, "host", HostStart, HostMore)
              \cup Address(At, HostStart, HostMore)
              \cup {Edge(p, {" "}, Space, ServerFinish) : p \in HostnameEnds("server")}
              \cup {Edge(p, {" "}, Space, MaskFinish) : p \in HostmaskEnds}
    BY Zenon DEF PrefixEdges, ServerMore, NickMore, UserStart, UserMore, HostStart, HostMore,
       ServerFinish, MaskFinish, PrefixOnly
  <2> QED
    BY <2>1, <1>13
<1> QED
  BY <1>14, <1>1, <1>2, <1>3, <1>4, <1>5, <1>6, <1>7, <1>8, <1>9, <1>10, <1>11, <1>12

\* Every edge of the grammar is of one of the kinds listed.
LEMMA EdgeKinds ==
  ASSUME NEW e \in Edges
  PROVE  Kind(e)
<1>1. CASE e \in PrefixEdges
  BY <1>1, PrefixKinds
<1>r. ASSUME NEW p, NEW on, NEW q, NEW does,
             e = Edge(p, on, q, does), Rest(p), Rest(q) \/ q = Done,
             does \subseteq {"code", "params_start", "params"}
      PROVE  Kind(e)
  <2>1. e.from = p /\ e.to = q /\ e.does = does
    BY <1>r, EdgeFields
  <2>2. InRest(e)
    BY <1>r, <2>1 DEF InRest
  <2> QED
    BY <2>2 DEF Kind
<1>a. /\ \A k : Rest(Number(k)) /\ Rest(Blank(k)) /\ Rest(Middle(k))
      /\ Rest(Word) /\ Rest(Trailing) /\ Rest(Cr)
  BY Areas DEF Rest, RestAreas
<1>2. CASE e \in CodeEdges
  <2>1. CASE e \in {Edge(Start, Letter, Word, CodeFirst), Edge(Start, Digit, Number(1), CodeFirst)}
    <3>1. ":" \notin Letter /\ ":" \notin Digit
      BY IrcsmAssumption DEF Alnum, Marks
    <3>2. StartToCode(e)
      BY <2>1, <3>1, EdgeFields, Areas DEF StartToCode
    <3> QED
      BY <3>2 DEF Kind
  <2>2. CASE e \in {Edge(Space, Letter, Word, CodeNext), Edge(Space, Digit, Number(1), CodeNext)}
    <3>1. SpaceToCode(e)
      BY <2>2, EdgeFields, Areas DEF SpaceToCode
    <3> QED
      BY <3>1 DEF Kind
  <2>3. CASE e = Edge(Word, Letter, Word, {"code"})
    BY <2>3, <1>r, <1>a
  <2>4. CASE \E k : e = Edge(Number(k), Digit, Number(k + 1), {"code"})
    BY <2>4, <1>r, <1>a
  <2> QED
    BY <1>2, <2>1, <2>2, <2>3, <2>4 DEF CodeEdges, CodeFirst, CodeNext
<1>3. CASE e \in ParamsEdges
  <2>1. CASE \E p \in CodeEnds : e = Edge(p, {" "}, Blank(1), {"params_start", "params"})
    <3>1. \A p \in CodeEnds : Rest(p)
      BY <1>a DEF CodeEnds
    <3> QED
      BY <2>1, <3>1, <1>r, <1>a
  <2>2. CASE \E k : e = Edge(Blank(k), Plain, Middle(k), {"params"})
    BY <2>2, <1>r, <1>a
  <2>3. CASE \E k : e = Edge(Middle(k), Plain \cup {":"}, Middle(k), {"params"})
    BY <2>3, <1>r, <1>a
  <2>4. CASE \E k : e = Edge(Middle(k), {" "}, Blank(k + 1), {"params"})
    BY <2>4, <1>r, <1>a
  <2>5. CASE \E k : e = Edge(Blank(k), {":"}, Trailing, {"params"})
    BY <2>5, <1>r, <1>a
  <2>6. CASE e = Edge(Blank(Middles + 1), Plain \cup {" "}, Trailing, {"params"})
    BY <2>6, <1>r, <1>a
  <2>7. CASE e = Edge(Trailing, Plain \cup {":", " "}, Trailing, {"params"})
    BY <2>7, <1>r, <1>a
  <2> QED
    BY <1>3, <2>1, <2>2, <2>3, <2>4, <2>5, <2>6, <2>7 DEF ParamsEdges, ParamsBegin
<1>4. CASE e = Edge(Start, {":"}, Colon, Begins)
  <2>1. ToPrefix(e)
    BY <1>4, EdgeFields, OnlyOnSets DEF ToPrefix
  <2> QED
    BY <2>1 DEF Kind
<1>5. CASE \E p \in MessageEnds : e = Edge(p, {"\r"}, Cr, {})
  <2>1. \A p \in MessageEnds : Rest(p)
    BY <1>a DEF MessageEnds, CodeEnds
  <2> QED
    BY <1>5, <2>1, <1>r, <1>a
<1>6. CASE e = Edge(Cr, {"\n"}, Done, {})
  BY <1>6, <1>r, <1>a
<1> QED
  BY <1>1, <1>2, <1>3, <1>4, <1>5, <1>6 DEF Edges, Begins

-----------------------------------------------------------------------------
(* The stages of a message, and the actions.                                *)

\* What a message is made of.
Slices == [at : Nat, len : Nat]
Msg ==
  [prefix : Seq(Byte), servername : Slices, nick : Slices, user : Slices, host : Slices,
   code : Seq(Byte), params : Seq(Byte), is_hostmask : BOOLEAN, is_servername : BOOLEAN]

\* A part of the hostmask lies within the prefix, when it is not empty or in any case.
Tight(m, part) == m[part].at + m[part].len <= Len(m.prefix)
Within(m, part) == m[part].len > 0 => Tight(m, part)
MaskWithin(m) == Within(m, "nick") /\ Within(m, "user") /\ Within(m, "host")
\* Nothing of the prefix is offered to a handler yet.
NoFlags(m) == ~m.is_hostmask /\ ~m.is_servername
\* A servername is its whole prefix.
WholePrefix(m) == m.servername.at = 0 /\ m.servername.len = Len(m.prefix)

\* Where the parser can be, and what the message it is in then looks like.
AtStart(m, cs) == cs \subseteq {Start} /\ SlicesInPrefix(m)
AtColon(m, cs) == cs \subseteq {Colon} /\ NoFlags(m)
InName(m, cs) ==
  /\ \A p \in cs : p[1] = "server" \/ p[1] = "nick"
  /\ NoFlags(m)
  /\ (\E p \in cs : p[1] = "server") => WholePrefix(m)
  /\ (\E p \in cs : p[1] = "nick") => MaskWithin(m) /\ Tight(m, "nick")
AtBang(m, cs) == cs \subseteq {Bang} /\ NoFlags(m) /\ MaskWithin(m)
AtUser(m, cs) == cs \subseteq {User} /\ NoFlags(m) /\ MaskWithin(m) /\ Tight(m, "user")
AtAt(m, cs) == cs \subseteq {At} /\ NoFlags(m) /\ MaskWithin(m)
AtHost(m, cs) ==
  (\A p \in cs : p[1] \in HostAreas) /\ NoFlags(m) /\ MaskWithin(m) /\ Tight(m, "host")
AfterPrefix(m, cs) ==
  (\A p \in cs : p = Space \/ p = Done \/ Rest(p)) /\ SlicesInPrefix(m)

\* The parser is at one of these places.
Staged(m, cs) ==
  \/ AtStart(m, cs) \/ AtColon(m, cs) \/ InName(m, cs) \/ AtBang(m, cs)
  \/ AtUser(m, cs) \/ AtAt(m, cs) \/ AtHost(m, cs) \/ AfterPrefix(m, cs)

\* What Perform makes of the prefix.
LEMMA PerformFields ==
  \A m, byte, acts :
    Perform(m, byte, acts).prefix =
      LET prefix == IF "prefix_start" \in acts THEN <<>> ELSE m.prefix IN
      IF "prefix" \in acts THEN Append(prefix, byte) ELSE prefix
BY DEF Perform

\* The flags are set by the end of the prefix and cleared by a new message.
LEMMA PerformFlags ==
  ASSUME NEW m, NEW byte, NEW acts
  PROVE  LET out == Perform(m, byte, acts) IN
         /\ out.is_hostmask <=>
              ((m.is_hostmask /\ "msg_start" \notin acts) \/ "hostmask_finish" \in acts)
         /\ out.is_servername <=>
              ((m.is_servername /\ "msg_start" \notin acts) \/ "servername_finish" \in acts)
         /\ out.is_hostmask \in BOOLEAN /\ out.is_servername \in BOOLEAN
BY DEF Perform

\* What the actions of an edge do to the prefix.
LEMMA PerformPrefix ==
  ASSUME NEW m \in Msg, NEW byte \in Byte, NEW acts
  PROVE  LET out == Perform(m, byte, acts) IN
         /\ "prefix" \in acts /\ "prefix_start" \in acts => out.prefix = <<byte>>
         /\ "prefix" \in acts /\ "prefix_start" \notin acts => out.prefix = Append(m.prefix, byte)
         /\ "prefix" \notin acts /\ "prefix_start" \notin acts => out.prefix = m.prefix
<1>1. Append(<<>>, byte) = <<byte>>
  OBVIOUS
<1> DEFINE out == Perform(m, byte, acts)
<1>2. out.prefix = IF "prefix" \in acts
                     THEN Append(IF "prefix_start" \in acts THEN <<>> ELSE m.prefix, byte)
                     ELSE IF "prefix_start" \in acts THEN <<>> ELSE m.prefix
  BY PerformFields
<1> HIDE DEF out
<1>3. /\ "prefix" \in acts /\ "prefix_start" \in acts => out.prefix = <<byte>>
      /\ "prefix" \in acts /\ "prefix_start" \notin acts => out.prefix = Append(m.prefix, byte)
      /\ "prefix" \notin acts /\ "prefix_start" \notin acts => out.prefix = m.prefix
  BY <1>1, <1>2
<1> QED
  BY <1>3 DEF out

\* A slice starts at the byte, grows by it, or stays.
LEMMA PerformServername ==
  ASSUME NEW m \in Msg, NEW byte \in Byte, NEW acts
  PROVE  LET out == Perform(m, byte, acts) IN
         /\ "servername_start" \in acts /\ "servername" \in acts /\ "prefix_start" \in acts =>
              out.servername = Slice(0, 1)
         /\ "servername_start" \notin acts /\ "servername" \in acts =>
              out.servername = Slice(m.servername.at, m.servername.len + 1)
         /\ "servername_start" \notin acts /\ "servername" \notin acts =>
              out.servername = m.servername
BY DEF Perform, Slice, Msg, Slices

\* The same of the nickname,
LEMMA PerformNick ==
  ASSUME NEW m \in Msg, NEW byte \in Byte, NEW acts
  PROVE  LET out == Perform(m, byte, acts) IN
         /\ "nick_start" \in acts /\ "nick" \in acts /\ "prefix_start" \in acts =>
              out.nick = Slice(0, 1)
         /\ "nick_start" \notin acts /\ "nick" \in acts =>
              out.nick = Slice(m.nick.at, m.nick.len + 1)
         /\ "nick_start" \notin acts /\ "nick" \notin acts => out.nick = m.nick
BY DEF Perform, Slice, Msg, Slices

\* of the user, which a new hostmask empties,
LEMMA PerformUser ==
  ASSUME NEW m \in Msg, NEW byte \in Byte, NEW acts
  PROVE  LET out == Perform(m, byte, acts) IN
         /\ "user_start" \in acts /\ "user" \in acts /\ "prefix_start" \notin acts =>
              out.user = Slice(Len(m.prefix), 1)
         /\ "user_start" \notin acts /\ "user" \in acts /\ "hostmask_start" \notin acts =>
              out.user = Slice(m.user.at, m.user.len + 1)
         /\ "user_start" \notin acts /\ "user" \notin acts /\ "hostmask_start" \notin acts =>
              out.user = m.user
         /\ "user_start" \notin acts /\ "user" \notin acts /\ "hostmask_start" \in acts =>
              out.user.len = 0
BY DEF Perform, Slice, Msg, Slices

\* and of the host, which it empties too.
LEMMA PerformHost ==
  ASSUME NEW m \in Msg, NEW byte \in Byte, NEW acts
  PROVE  LET out == Perform(m, byte, acts) IN
         /\ "host_start" \in acts /\ "host" \in acts /\ "prefix_start" \notin acts =>
              out.host = Slice(Len(m.prefix), 1)
         /\ "host_start" \notin acts /\ "host" \in acts /\ "hostmask_start" \notin acts =>
              out.host = Slice(m.host.at, m.host.len + 1)
         /\ "host_start" \notin acts /\ "host" \notin acts /\ "hostmask_start" \notin acts =>
              out.host = m.host
         /\ "host_start" \notin acts /\ "host" \notin acts /\ "hostmask_start" \in acts =>
              out.host.len = 0
BY DEF Perform, Slice, Msg, Slices

\* Where the rooms of a message are.
LEMMA Rooms ==
  /\ PrefixRoom \in Nat /\ CodeRoom \in Nat /\ ParamsRoom \in Nat
  /\ CodeAt \in Nat /\ ParamsAt \in Nat /\ MsgBytes \in Nat
<1>1. PrefixRoom \in Nat /\ CodeRoom \in Nat /\ ParamsRoom \in Nat
  BY IrcsmAssumption
<1> QED
  BY <1>1 DEF CodeAt, ParamsAt, MsgBytes

\* What is put over a text leaves a text of its length.
LEMMA OverType ==
  ASSUME NEW z \in Seq(Byte), NEW s \in Seq(Byte), NEW a \in Nat, NEW h \in Nat
  PROVE  Over(z, a, s, h) \in Seq(Byte) /\ Len(Over(z, a, s, h)) = Len(z)
<1> DEFINE w == Over(z, a, s, h)
<1>1. /\ DOMAIN z = 1 .. Len(z) /\ Len(z) \in Nat /\ DOMAIN s = 1 .. Len(s)
      /\ \A i \in 1 .. Len(z) : z[i] \in Byte
      /\ \A i \in 1 .. Len(s) : s[i] \in Byte
  OBVIOUS
<1>2. w = [i \in 1 .. Len(z) |-> IF a + i - h \in 1 .. Len(s) THEN s[a + i - h] ELSE z[i]]
  BY <1>1 DEF Over
<1> HIDE DEF w
<1>3. \A i \in 1 .. Len(z) :
        w[i] = (IF a + i - h \in 1 .. Len(s) THEN s[a + i - h] ELSE z[i]) /\ w[i] \in Byte
  BY <1>1, <1>2
<1>4. w \in [1 .. Len(z) -> Byte]
  BY <1>2, <1>3
<1>5. w \in Seq(Byte) /\ Len(w) = Len(z)
  BY <1>1, <1>2, <1>4
<1> QED
  BY <1>3, <1>5 DEF w

\* Its bytes: what was put over the text,
LEMMA OverHit ==
  ASSUME NEW z, NEW s, NEW a, NEW h, NEW i \in DOMAIN z, NEW j \in DOMAIN s, a + i - h = j
  PROVE  Over(z, a, s, h)[i] = s[j]
BY DEF Over

\* and the others of the text itself.
LEMMA OverMiss ==
  ASSUME NEW z, NEW s, NEW a, NEW h, NEW i \in DOMAIN z, NEW j, a + i - h = j, j \notin DOMAIN s
  PROVE  Over(z, a, s, h)[i] = z[i]
BY DEF Over

\* Nothing put over a text leaves it as it is.
LEMMA OverNothing ==
  ASSUME NEW z \in Seq(Byte), NEW a, NEW h
  PROVE  Over(z, a, <<>>, h) = z
<1>1. DOMAIN <<>> = {}
  OBVIOUS
<1>2. z = [i \in DOMAIN z |-> z[i]]
  OBVIOUS
<1> QED
  BY <1>1, <1>2 DEF Over

\* A byte put behind what was put over a text is one more byte put over it.
LEMMA OverAppend ==
  ASSUME NEW z \in Seq(Byte), NEW s \in Seq(Byte), NEW b \in Byte, NEW a \in Nat, NEW h \in Nat
  PROVE  Over(Over(z, a, s, h), a, <<b>>, h + Len(s)) = Over(z, a, Append(s, b), h)
<1> DEFINE n == Len(s)
           y == Over(z, a, s, h)
           o == <<b>>
           t == Append(s, b)
           k == h + n
           w == Over(y, a, o, k)
           v == Over(z, a, t, h)
<1>1. /\ n \in Nat /\ Len(z) \in Nat
      /\ t \in Seq(Byte) /\ Len(t) = n + 1
      /\ \A i \in 1 .. n : t[i] = s[i]
      /\ t[n + 1] = b
      /\ o \in Seq(Byte) /\ Len(o) = 1 /\ o[1] = b
  OBVIOUS
<1>2. y \in Seq(Byte) /\ Len(y) = Len(z)
  BY OverType
<1> HIDE DEF y, n, o, t
<1>3. k \in Nat
  BY <1>1
<1>4. v \in Seq(Byte) /\ Len(v) = Len(z)
  BY <1>1, OverType
<1> HIDE DEF k
<1>5. w \in Seq(Byte) /\ Len(w) = Len(z)
  BY <1>1, <1>2, <1>3, OverType
<1> HIDE DEF w, v
<1>6. ASSUME NEW i \in 1 .. Len(w)
      PROVE  w[i] = v[i]
  <2> DEFINE j == a + i - h
  <2>1. i \in DOMAIN z /\ i \in DOMAIN y /\ j \in Int /\ a + i - k = j - n
    BY <1>1, <1>2, <1>5 DEF k
  <2>2. DOMAIN s = 1 .. n /\ DOMAIN t = 1 .. n + 1 /\ DOMAIN o = 1 .. 1
    BY <1>1 DEF n
  <2>3. a + i - h = j
    OBVIOUS
  <2> HIDE DEF j
  <2>4. CASE j \in 1 .. n
    <3>1. j \in DOMAIN s /\ j \in DOMAIN t /\ j - n \notin DOMAIN o
      BY <1>1, <2>2, <2>4
    <3>2. w[i] = y[i]
      BY <2>1, <3>1, OverMiss DEF w
    <3>3. y[i] = s[j]
      BY <2>1, <2>3, <3>1, OverHit DEF y
    <3>4. v[i] = t[j]
      BY <2>1, <2>3, <3>1, OverHit DEF v
    <3> QED
      BY <1>1, <2>4, <3>2, <3>3, <3>4
  <2>5. CASE j = n + 1
    <3>1. j \in DOMAIN t /\ 1 \in DOMAIN o /\ a + i - k = 1
      BY <1>1, <2>1, <2>2, <2>5
    <3>2. w[i] = o[1]
      BY <2>1, <3>1, OverHit DEF w
    <3>3. v[i] = t[j]
      BY <2>1, <2>3, <3>1, OverHit DEF v
    <3> QED
      BY <1>1, <2>5, <3>2, <3>3
  <2>6. CASE j \notin 1 .. n + 1
    <3>1. j - n \notin DOMAIN o /\ j \notin DOMAIN t /\ j \notin DOMAIN s
      BY <1>1, <2>1, <2>2, <2>6
    <3>2. w[i] = y[i]
      BY <2>1, <3>1, OverMiss DEF w
    <3>3. y[i] = z[i]
      BY <2>1, <2>3, <3>1, OverMiss DEF y
    <3>4. v[i] = z[i]
      BY <2>1, <2>3, <3>1, OverMiss DEF v
    <3> QED
      BY <3>2, <3>3, <3>4
  <2> QED
    BY <1>1, <2>1, <2>4, <2>5, <2>6
<1>7. w = v
  BY <1>4, <1>5, <1>6, SeqEqual
<1> QED
  BY <1>7 DEF w, v, y, n, o, t, k

\* What the actions make of the parameters of the message before.
OldParams(m, b, acts) ==
  LET prefix == IF "prefix_start" \in acts THEN <<>> ELSE m.prefix
      code == IF "code_start" \in acts THEN <<>> ELSE m.code
  IN  IF "prefix" \in acts THEN Over(m.params, ParamsAt, <<b>>, Len(prefix))
      ELSE IF "code" \in acts THEN Over(m.params, ParamsAt, <<b>>, CodeAt + Len(code))
      ELSE m.params

LEMMA PerformParams ==
  ASSUME NEW m, NEW b, NEW acts
  PROVE  Perform(m, b, acts).params =
           LET params == IF "params_start" \in acts THEN <<>> ELSE OldParams(m, b, acts) IN
           IF "params" \in acts /\ ~(params = <<>> /\ b = " ") THEN Append(params, b) ELSE params
BY DEF Perform, OldParams

\* They are parameters still.
LEMMA OldType ==
  ASSUME NEW m \in Msg, NEW b \in Byte, NEW acts
  PROVE  OldParams(m, b, acts) \in Seq(Byte)
<1>1. /\ m.prefix \in Seq(Byte) /\ m.code \in Seq(Byte) /\ m.params \in Seq(Byte)
      /\ <<>> \in Seq(Byte) /\ <<b>> \in Seq(Byte)
  BY DEF Msg
<1>2. \A s \in Seq(Byte) : Len(s) \in Nat /\ CodeAt + Len(s) \in Nat
  BY Rooms
<1>3. \A h \in Nat : Over(m.params, ParamsAt, <<b>>, h) \in Seq(Byte)
  BY <1>1, Rooms, OverType
<1> QED
  BY <1>1, <1>2, <1>3 DEF OldParams

\* The actions turn a message into a message.
LEMMA PerformType ==
  ASSUME NEW m \in Msg, NEW byte \in Byte, NEW acts
  PROVE  Perform(m, byte, acts) \in Msg
<1> DEFINE out == Perform(m, byte, acts)
<1>1. /\ m.prefix \in Seq(Byte) /\ m.code \in Seq(Byte) /\ m.params \in Seq(Byte)
      /\ m.servername \in Slices /\ m.nick \in Slices /\ m.user \in Slices /\ m.host \in Slices
      /\ m.is_hostmask \in BOOLEAN /\ m.is_servername \in BOOLEAN
  BY DEF Msg
<1>2. \A s \in Seq(Byte) : Append(s, byte) \in Seq(Byte)
  OBVIOUS
<1>3. <<>> \in Seq(Byte)
  OBVIOUS
<1>4. out.prefix \in Seq(Byte) /\ out.code \in Seq(Byte) /\ out.params \in Seq(Byte)
  <2> DEFINE prefix == IF "prefix_start" \in acts THEN <<>> ELSE m.prefix
             code == IF "code_start" \in acts THEN <<>> ELSE m.code
             params == IF "params_start" \in acts THEN <<>> ELSE OldParams(m, byte, acts)
  <2>1. prefix \in Seq(Byte) /\ code \in Seq(Byte) /\ params \in Seq(Byte)
    BY <1>1, <1>3, OldType
  <2>2. /\ out.prefix = IF "prefix" \in acts THEN Append(prefix, byte) ELSE prefix
        /\ out.code = IF "code" \in acts THEN Append(code, byte) ELSE code
        /\ out.params = IF "params" \in acts /\ ~(params = <<>> /\ byte = " ")
                          THEN Append(params, byte) ELSE params
    <3>1. /\ out.prefix = IF "prefix" \in acts THEN Append(prefix, byte) ELSE prefix
          /\ out.code = IF "code" \in acts THEN Append(code, byte) ELSE code
      BY DEF Perform
    <3>2. out.params = IF "params" \in acts /\ ~(params = <<>> /\ byte = " ")
                         THEN Append(params, byte) ELSE params
      BY PerformParams
    <3> QED
      BY <3>1, <3>2
  <2> HIDE DEF prefix, code, params, out
  <2> QED
    BY <2>1, <2>2, <1>2
<1>5. /\ out.servername.at \in Nat /\ out.servername.len \in Nat /\ out.nick.at \in Nat
      /\ out.nick.len \in Nat
  BY <1>1, <1>3 DEF Perform, Slice, Slices
<1>6. out.user.at \in Nat /\ out.user.len \in Nat /\ out.host.at \in Nat /\ out.host.len \in Nat
  BY <1>1, <1>3 DEF Perform, Slice, Slices
<1>7. /\ out.servername = [at |-> out.servername.at, len |-> out.servername.len]
      /\ out.nick = [at |-> out.nick.at, len |-> out.nick.len]
      /\ out.user = [at |-> out.user.at, len |-> out.user.len]
      /\ out.host = [at |-> out.host.at, len |-> out.host.len]
  BY DEF Perform, Slice
<1>8. /\ out.servername \in Slices /\ out.nick \in Slices /\ out.user \in Slices
      /\ out.host \in Slices
  <2> HIDE DEF out
  <2> QED
    BY <1>5, <1>6, <1>7 DEF Slices
<1>9. out.is_hostmask \in BOOLEAN /\ out.is_servername \in BOOLEAN
  BY PerformFlags
<1>10. out = [prefix |-> out.prefix, servername |-> out.servername, nick |-> out.nick,
              user |-> out.user, host |-> out.host, code |-> out.code,
              params |-> out.params, is_hostmask |-> out.is_hostmask,
              is_servername |-> out.is_servername]
  BY DEF Perform
<1> HIDE DEF out
<1>11. out \in Msg
  BY <1>4, <1>8, <1>9, <1>10 DEF Msg
<1> QED
  BY <1>11 DEF out

\* The positions of the grammar are apart.
LEMMA Apart ==
  /\ Start \notin {Colon, Bang, User, At, Space, Cr} /\ Colon \notin {Bang, User, At, Space, Cr}
  /\ Bang \notin {User, At, Space, Cr} /\ User \notin {At, Space, Cr} /\ At \notin {Space, Cr}
  /\ Space # Cr /\ Done \notin {Start, Colon, Bang, User, At, Space, Cr}
  /\ \A p \in {Start, Colon, Bang, User, At, Space, Cr, Done} :
       p[1] \in {"message", "prefix", "hostmask", "user"}
BY DEF Start, Colon, Bang, User, At, Space, Cr, Done

\* The areas are different from each other.
LEMMA AreasApart ==
  ASSUME NEW p
  PROVE  /\ p[1] \in {"message", "prefix", "hostmask", "user"} =>
              p[1] # "server" /\ p[1] # "nick" /\ p[1] \notin HostAreas /\ p[1] \notin RestAreas
         /\ p[1] \in HostAreas => p[1] # "server" /\ p[1] # "nick" /\ p[1] \notin RestAreas
         /\ p[1] \in RestAreas => p[1] # "server" /\ p[1] # "nick"
         /\ "server" # "nick"
BY DEF HostAreas, RestAreas

\* Which edges leave which positions.
LEMMA KindFrom ==
  ASSUME NEW e \in Edges
  PROVE  /\ e.from = Start => ToPrefix(e) \/ StartToCode(e)
         /\ e.from = Colon => ToServer(e) \/ ToNick(e)
         /\ e.from[1] = "server" => InServer(e) \/ ServerEnds(e)
         /\ e.from[1] = "nick" => InNick(e) \/ NickToUser(e) \/ NickToHost(e) \/ MaskEnds(e)
         /\ e.from = Bang => ToUser(e)
         /\ e.from = User => InUser(e) \/ UserToHost(e)
         /\ e.from = At => ToHost(e)
         /\ e.from[1] \in HostAreas => InHost(e) \/ MaskEnds(e)
         /\ e.from = Space \/ Rest(e.from) => SpaceToCode(e) \/ InRest(e)
<1> DEFINE from == e.from
<1>1. Kind(e)
  BY EdgeKinds
<1>2. /\ ToPrefix(e) => from = Start
      /\ ToServer(e) => from = Colon
      /\ ToNick(e) => from = Colon
      /\ InServer(e) => from[1] = "server"
      /\ InNick(e) => from[1] = "nick"
      /\ NickToUser(e) => from[1] = "nick"
      /\ NickToHost(e) => from[1] = "nick"
      /\ ToUser(e) => from = Bang
      /\ InUser(e) => from = User
      /\ UserToHost(e) => from = User
      /\ ToHost(e) => from = At
      /\ InHost(e) => from[1] \in HostAreas
      /\ ServerEnds(e) => from[1] = "server"
      /\ StartToCode(e) => from = Start
      /\ MaskEnds(e) => from[1] = "nick" \/ from[1] \in HostAreas
      /\ SpaceToCode(e) => from = Space
      /\ InRest(e) => from[1] \in RestAreas \/ from = Cr
  BY DEF ToPrefix, ToServer, ToNick, InServer, InNick, NickToUser, NickToHost, ToUser, InUser,
     UserToHost, ToHost, InHost, ServerEnds, MaskEnds, StartToCode, SpaceToCode, InRest, Rest
<1> HIDE DEF from
<1>3. from \in {Start, Colon, Bang, User, At, Space, Cr} =>
        /\ from[1] # "server" /\ from[1] # "nick"
        /\ from[1] \notin HostAreas /\ from[1] \notin RestAreas
  BY Apart, AreasApart
<1>4. from = Start => ToPrefix(e) \/ StartToCode(e)
  BY <1>1, <1>2, <1>3, Apart DEF Kind
<1>5. from = Colon => ToServer(e) \/ ToNick(e)
  BY <1>1, <1>2, <1>3, Apart DEF Kind
<1>6. from = Bang => ToUser(e)
  BY <1>1, <1>2, <1>3, Apart DEF Kind
<1>7. from = User => InUser(e) \/ UserToHost(e)
  BY <1>1, <1>2, <1>3, Apart DEF Kind
<1>8. from = At => ToHost(e)
  BY <1>1, <1>2, <1>3, Apart DEF Kind
<1>9. from = Space \/ from = Cr => SpaceToCode(e) \/ InRest(e)
  BY <1>1, <1>2, <1>3, Apart DEF Kind
<1>10. from[1] = "server" => InServer(e) \/ ServerEnds(e)
  BY <1>1, <1>2, <1>3, AreasApart DEF Kind
<1>11. from[1] = "nick" => InNick(e) \/ NickToUser(e) \/ NickToHost(e) \/ MaskEnds(e)
  BY <1>1, <1>2, <1>3, AreasApart DEF Kind
<1>12. from[1] \in HostAreas => InHost(e) \/ MaskEnds(e)
  BY <1>1, <1>2, <1>3, AreasApart DEF Kind
<1>13. from[1] \in RestAreas => InRest(e)
  BY <1>1, <1>2, <1>3, AreasApart DEF Kind
<1> QED
  BY <1>4, <1>5, <1>6, <1>7, <1>8, <1>9, <1>10, <1>11, <1>12, <1>13 DEF from, Rest

\* When the slices of the kind of prefix there is are right, the message is.
LEMMA SlicesFrom ==
  ASSUME NEW m \in Msg, m.is_servername => WholePrefix(m), m.is_hostmask => MaskWithin(m)
  PROVE  SlicesInPrefix(m)
<1>1. ASSUME m.is_servername PROVE m.servername = Slice(0, Len(m.prefix))
  <2>1. m.servername = [at |-> m.servername.at, len |-> m.servername.len]
    BY DEF Msg, Slices
  <2> QED
    BY <1>1, <2>1 DEF WholePrefix, Slice
<1>2. ASSUME m.is_hostmask, NEW part \in {"nick", "user", "host"}, m[part].len > 0
      PROVE  m[part].at + m[part].len <= Len(m.prefix)
  BY <1>2 DEF MaskWithin, Within, Tight
<1> QED
  BY <1>1, <1>2 DEF SlicesInPrefix

-----------------------------------------------------------------------------
(* Steps and runs.                                                          *)

\* The edges a byte takes from the positions cs, what they do and where they lead.
Takes(T, cs, byte) == T \subseteq Edges /\ T # {} /\ \A e \in T : e.from \in cs /\ byte \in e.on
\* What a set of edges does, and where it leads.
Acts(T) == UNION {e.does : e \in T}
Tos(T) == {e.to : e \in T}

\* Edges that all do the same do that.
LEMMA ActsSame ==
  ASSUME NEW T, T # {}, NEW does, \A e \in T : e.does = does
  PROVE  Acts(T) = does
BY DEF Acts

\* A byte appended.
LEMMA AppendLen ==
  ASSUME NEW s \in Seq(Byte), NEW b \in Byte
  PROVE  /\ Len(Append(s, b)) = Len(s) + 1 /\ Len(s) \in Nat
         /\ Append(s, b) \in Seq(Byte) /\ Len(<<b>>) = 1
OBVIOUS

\* A step that lengthens the prefix and leaves a slice alone keeps it within.
LEMMA StillWithin ==
  ASSUME NEW m \in Msg, NEW out \in Msg, NEW b \in Byte,
         out.prefix = Append(m.prefix, b) \/ out.prefix = m.prefix
  PROVE  /\ out.nick = m.nick /\ Within(m, "nick") => Within(out, "nick")
         /\ out.user = m.user /\ Within(m, "user") => Within(out, "user")
         /\ out.host = m.host /\ Within(m, "host") => Within(out, "host")
<1>1. m.prefix \in Seq(Byte) /\ Len(m.prefix) \in Nat
  BY DEF Msg
<1>2. Len(out.prefix) = Len(m.prefix) + 1 \/ Len(out.prefix) = Len(m.prefix)
  BY <1>1, AppendLen
<1>3. /\ m.nick.at \in Nat /\ m.nick.len \in Nat /\ m.user.at \in Nat
      /\ m.user.len \in Nat /\ m.host.at \in Nat /\ m.host.len \in Nat
  BY DEF Msg, Slices
<1>4. ASSUME out.nick = m.nick, Within(m, "nick") PROVE Within(out, "nick")
  BY <1>1, <1>2, <1>3, <1>4 DEF Within, Tight
<1>5. ASSUME out.user = m.user, Within(m, "user") PROVE Within(out, "user")
  BY <1>1, <1>2, <1>3, <1>5 DEF Within, Tight
<1>6. ASSUME out.host = m.host, Within(m, "host") PROVE Within(out, "host")
  BY <1>1, <1>2, <1>3, <1>6 DEF Within, Tight
<1> QED
  BY <1>4, <1>5, <1>6

\* A byte taken at the start of a message leads to the next stage.
LEMMA StepStart ==
  ASSUME NEW m \in Msg, NEW byte \in Byte, NEW cs, NEW T, Takes(T, cs, byte), AtStart(m, cs)
  PROVE  Staged(Perform(m, byte, Acts(T)), Tos(T))
<1> DEFINE out == Perform(m, byte, Acts(T))
<1>1. out \in Msg
  BY PerformType
<1>2. \A e \in T : ToPrefix(e) \/ StartToCode(e)
  BY KindFrom DEF Takes, AtStart
<1>3. CASE byte = ":"
  <2>1. \A e \in T : ToPrefix(e)
    BY <1>2, <1>3 DEF Takes, StartToCode
  <2>2. Acts(T) = Begins
    BY <2>1, ActsSame DEF Takes, ToPrefix
  <2>3. "msg_start" \in Acts(T) /\ "hostmask_finish" \notin Acts(T) /\ "servername_finish" \notin Acts(T)
    BY <2>2 DEF Begins
  <2>4. NoFlags(out)
    BY <2>3, PerformFlags DEF NoFlags
  <2>5. Tos(T) \subseteq {Colon}
    BY <2>1 DEF Tos, ToPrefix
  <2> QED
    BY <2>4, <2>5 DEF Staged, AtColon
<1>4. CASE byte # ":"
  <2>1. \A e \in T : StartToCode(e)
    BY <1>2, <1>4 DEF Takes, ToPrefix, OnlyOn
  <2>2. Acts(T) = CodeFirst
    BY <2>1, ActsSame DEF Takes, StartToCode
  <2>3. "msg_start" \in Acts(T) /\ "hostmask_finish" \notin Acts(T) /\ "servername_finish" \notin Acts(T)
    BY <2>2 DEF CodeFirst
  <2>4. NoFlags(out)
    BY <2>3, PerformFlags DEF NoFlags
  <2>5. SlicesInPrefix(out)
    BY <2>4 DEF NoFlags, SlicesInPrefix
  <2>6. \A p \in Tos(T) : Rest(p)
    BY <2>1 DEF Tos, StartToCode, Rest, RestAreas
  <2> QED
    BY <2>5, <2>6 DEF Staged, AfterPrefix
<1> QED
  BY <1>3, <1>4

\* A byte taken after the prefix does.
LEMMA StepRest ==
  ASSUME NEW m \in Msg, NEW byte \in Byte, NEW cs, NEW T, Takes(T, cs, byte), Done \notin cs,
         AfterPrefix(m, cs)
  PROVE  Staged(Perform(m, byte, Acts(T)), Tos(T))
<1> DEFINE out == Perform(m, byte, Acts(T))
<1>1. \A e \in T : SpaceToCode(e) \/ InRest(e)
  BY KindFrom DEF Takes, AfterPrefix
<1>2. \A p \in Tos(T) : p = Done \/ Rest(p)
  BY <1>1 DEF Tos, SpaceToCode, InRest, Rest, RestAreas
<1>3. Acts(T) \subseteq {"code_start", "code", "params_start", "params"}
  BY <1>1 DEF Acts, SpaceToCode, InRest, CodeNext
<1>4. {"prefix", "prefix_start", "msg_start", "hostmask_start", "hostmask_finish",
       "servername_start", "servername_finish", "nick_start", "user_start", "host_start",
       "servername", "nick", "user", "host"} \cap Acts(T) = {}
  BY <1>3
<1>5. out.prefix = m.prefix
  BY <1>4, PerformPrefix
<1>6. out.servername = m.servername
  BY <1>4, PerformServername
<1>7. out.nick = m.nick
  BY <1>4, PerformNick
<1>8. out.user = m.user
  BY <1>4, PerformUser
<1>9. out.host = m.host
  BY <1>4, PerformHost
<1>10. (out.is_hostmask <=> m.is_hostmask) /\ (out.is_servername <=> m.is_servername)
  BY <1>4, PerformFlags
<1> HIDE DEF out
<1>11. SlicesInPrefix(m)
  BY DEF AfterPrefix
<1>12. SlicesInPrefix(out)
  <2>1. out.is_servername => out.servername = Slice(0, Len(out.prefix))
    BY <1>5, <1>6, <1>10, <1>11 DEF SlicesInPrefix
  <2>2. ASSUME out.is_hostmask, NEW part \in {"nick", "user", "host"}, out[part].len > 0
        PROVE  out[part].at + out[part].len <= Len(out.prefix)
    BY <1>5, <1>7, <1>8, <1>9, <1>10, <1>11, <2>2 DEF SlicesInPrefix
  <2> QED
    BY <2>1, <2>2 DEF SlicesInPrefix
<1> QED
  BY <1>2, <1>12 DEF Staged, AfterPrefix, out

\* The first byte of a prefix does: it may begin a servername and a nickname at once.
LEMMA StepColon ==
  ASSUME NEW m \in Msg, NEW byte \in Byte, NEW cs, NEW T, Takes(T, cs, byte), AtColon(m, cs)
  PROVE  Staged(Perform(m, byte, Acts(T)), Tos(T))
<1> DEFINE out == Perform(m, byte, Acts(T))
<1>1. \A e \in T : ToServer(e) \/ ToNick(e)
  BY KindFrom DEF Takes, AtColon
<1>2. \A p \in Tos(T) : p[1] = "server" \/ p[1] = "nick"
  BY <1>1 DEF Tos, ToServer, ToNick
<1>3. /\ "prefix_start" \in Acts(T) /\ "prefix" \in Acts(T)
      /\ {"hostmask_finish", "servername_finish", "user_start", "user", "host_start", "host"}
           \cap Acts(T) = {}
  BY <1>1 DEF Takes, Acts, ToServer, ToNick, ServerStart, NickStart
<1>4. NoFlags(out)
  BY <1>3, PerformFlags DEF NoFlags, AtColon
<1>5. Len(out.prefix) = 1
  <2>1. out.prefix = <<byte>>
    BY <1>3, PerformPrefix
  <2> HIDE DEF out
  <2> QED
    BY <2>1, AppendLen
<1>6. ASSUME NEW p \in Tos(T), p[1] = "server" PROVE WholePrefix(out)
  <2>1. PICK e \in T : p = e.to
    BY DEF Tos
  <2>2. ToServer(e)
    BY <1>1, <1>6, <2>1 DEF ToNick
  <2>3. "servername_start" \in Acts(T) /\ "servername" \in Acts(T)
    BY <2>2 DEF Acts, ToServer, ServerStart
  <2>4. out.servername = Slice(0, 1)
    BY <2>3, <1>3, PerformServername
  <2> HIDE DEF out
  <2> QED
    BY <2>4, <1>5 DEF WholePrefix, Slice
<1>7. ASSUME NEW p \in Tos(T), p[1] = "nick" PROVE MaskWithin(out) /\ Tight(out, "nick")
  <2>1. PICK e \in T : p = e.to
    BY DEF Tos
  <2>2. ToNick(e)
    BY <1>1, <1>7, <2>1 DEF ToServer
  <2>3. "nick_start" \in Acts(T) /\ "nick" \in Acts(T) /\ "hostmask_start" \in Acts(T)
    BY <2>2 DEF Acts, ToNick, NickStart
  <2>4. out.nick = Slice(0, 1)
    BY <2>3, <1>3, PerformNick
  <2>5. out.user.len = 0
    BY <2>3, <1>3, PerformUser
  <2>6. out.host.len = 0
    BY <2>3, <1>3, PerformHost
  <2> HIDE DEF out
  <2>7. Tight(out, "nick")
    BY <2>4, <1>5 DEF Tight, Slice
  <2>8. Within(out, "user") /\ Within(out, "host")
    BY <2>5, <2>6 DEF Within
  <2> QED
    BY <2>7, <2>8 DEF MaskWithin, Within
<1> HIDE DEF out
<1>8. InName(out, Tos(T))
  BY <1>2, <1>4, <1>6, <1>7 DEF InName
<1> QED
  BY <1>8 DEF Staged, out

\* Still in a name: whatever it is, it and the prefix grow together.
LEMMA StepNameOn ==
  ASSUME NEW m \in Msg, NEW byte \in Byte, NEW cs, NEW T, Takes(T, cs, byte), InName(m, cs),
         \A e \in T : InServer(e) \/ InNick(e)
  PROVE  Staged(Perform(m, byte, Acts(T)), Tos(T))
<1> DEFINE out == Perform(m, byte, Acts(T))
<1>0. out \in Msg
  BY PerformType
<1>2. \A p \in Tos(T) : p[1] = "server" \/ p[1] = "nick"
  BY DEF Tos, InServer, InNick
<1>3. /\ "prefix" \in Acts(T)
      /\ {"prefix_start", "hostmask_start", "servername_start", "nick_start", "hostmask_finish",
          "servername_finish", "user_start", "user", "host_start", "host"} \cap Acts(T) = {}
  BY DEF Takes, Acts, InServer, InNick, ServerMore, NickMore
<1>4. NoFlags(out)
  BY <1>3, PerformFlags DEF NoFlags, InName
<1>5. out.prefix = Append(m.prefix, byte)
  BY <1>3, PerformPrefix
<1>6. Len(out.prefix) = Len(m.prefix) + 1 /\ Len(m.prefix) \in Nat
  BY <1>5, AppendLen DEF Msg
<1>7. ASSUME NEW p \in Tos(T), p[1] = "server" PROVE WholePrefix(out)
  <2>1. PICK e \in T : p = e.to
    BY DEF Tos
  <2>2. InServer(e)
    BY <1>7, <2>1 DEF InNick
  <2>3. "servername" \in Acts(T) /\ WholePrefix(m)
    BY <2>2 DEF Acts, InServer, ServerMore, InName, Takes
  <2>4. out.servername = Slice(m.servername.at, m.servername.len + 1)
    BY <2>3, <1>3, PerformServername
  <2> HIDE DEF out
  <2> QED
    BY <2>3, <2>4, <1>6 DEF WholePrefix, Slice
<1>8. ASSUME NEW p \in Tos(T), p[1] = "nick" PROVE MaskWithin(out) /\ Tight(out, "nick")
  <2>1. PICK e \in T : p = e.to
    BY DEF Tos
  <2>2. InNick(e)
    BY <1>8, <2>1 DEF InServer
  <2>3. "nick" \in Acts(T) /\ MaskWithin(m) /\ Tight(m, "nick")
    BY <2>2 DEF Acts, InNick, NickMore, InName, Takes
  <2>4. out.nick = Slice(m.nick.at, m.nick.len + 1)
    BY <2>3, <1>3, PerformNick
  <2>5. out.user = m.user
    BY <1>3, PerformUser
  <2>6. out.host = m.host
    BY <1>3, PerformHost
  <2>9. m.nick.at \in Nat /\ m.nick.len \in Nat
    BY DEF Msg, Slices
  <2> HIDE DEF out
  <2>7. Tight(out, "nick")
    BY <2>3, <2>4, <2>9, <1>6 DEF Tight, Slice
  <2>8. Within(out, "user") /\ Within(out, "host")
    BY <2>3, <2>5, <2>6, <1>0, <1>5, StillWithin DEF MaskWithin
  <2> QED
    BY <2>7, <2>8 DEF MaskWithin, Within
<1> HIDE DEF out
<1>9. InName(out, Tos(T))
  BY <1>2, <1>4, <1>7, <1>8 DEF InName
<1> QED
  BY <1>9 DEF Staged, out

\* A byte that only lengthens the prefix.
LEMMA PrefixAlone ==
  ASSUME NEW m \in Msg, NEW byte \in Byte, NoFlags(m), MaskWithin(m)
  PROVE  NoFlags(Perform(m, byte, PrefixOnly)) /\ MaskWithin(Perform(m, byte, PrefixOnly))
<1> DEFINE out == Perform(m, byte, PrefixOnly)
<1>1. out \in Msg
  BY PerformType
<1>2. /\ "prefix" \in PrefixOnly
      /\ {"prefix_start", "hostmask_start", "nick_start", "nick", "hostmask_finish",
          "servername_finish", "user_start", "user", "host_start", "host"} \cap PrefixOnly = {}
  BY DEF PrefixOnly
<1>3. out.prefix = Append(m.prefix, byte)
  BY <1>2, PerformPrefix
<1>4. out.nick = m.nick
  BY <1>2, PerformNick
<1>5. out.user = m.user
  BY <1>2, PerformUser
<1>6. out.host = m.host
  BY <1>2, PerformHost
<1>7. NoFlags(out)
  BY <1>2, PerformFlags DEF NoFlags
<1> HIDE DEF out
<1>8. MaskWithin(out)
  BY <1>1, <1>3, <1>4, <1>5, <1>6, StillWithin DEF MaskWithin
<1> QED
  BY <1>7, <1>8 DEF out

\* The end of the prefix: nothing but the flags changes.
LEMMA PrefixEnds ==
  ASSUME NEW m \in Msg, NEW byte \in Byte, NEW acts, acts \subseteq ServerFinish \cup MaskFinish,
         NoFlags(m), "servername_finish" \in acts => WholePrefix(m),
         "hostmask_finish" \in acts => MaskWithin(m)
  PROVE  SlicesInPrefix(Perform(m, byte, acts))
<1> DEFINE out == Perform(m, byte, acts)
<1>1. out \in Msg
  BY PerformType
<1>2. {"prefix", "prefix_start", "hostmask_start", "servername_start", "servername", "nick_start",
       "nick", "user_start", "user", "host_start", "host"} \cap acts = {}
  BY DEF ServerFinish, MaskFinish
<1>3. out.prefix = m.prefix
  BY <1>2, PerformPrefix
<1>4. out.servername = m.servername
  BY <1>2, PerformServername
<1>5. out.nick = m.nick
  BY <1>2, PerformNick
<1>6. out.user = m.user
  BY <1>2, PerformUser
<1>7. out.host = m.host
  BY <1>2, PerformHost
<1>8. /\ out.is_servername => "servername_finish" \in acts
      /\ out.is_hostmask => "hostmask_finish" \in acts
  BY PerformFlags DEF NoFlags
<1> HIDE DEF out
<1>9. out.is_servername => WholePrefix(out)
  BY <1>3, <1>4, <1>8 DEF WholePrefix
<1>10. out.is_hostmask => MaskWithin(out)
  BY <1>1, <1>3, <1>5, <1>6, <1>7, <1>8, StillWithin DEF MaskWithin
<1> QED
  BY <1>1, <1>9, <1>10, SlicesFrom DEF out

\* A byte taken in a servername or a nickname does.
LEMMA StepName ==
  ASSUME NEW m \in Msg, NEW byte \in Byte, NEW cs, NEW T, Takes(T, cs, byte), InName(m, cs)
  PROVE  Staged(Perform(m, byte, Acts(T)), Tos(T))
<1>1. \A e \in T : \/ InServer(e) \/ InNick(e) \/ NickToUser(e) \/ NickToHost(e)
                   \/ ServerEnds(e) \/ MaskEnds(e)
  BY KindFrom DEF Takes, InName
<1>2. CASE byte = "!"
  <2>1. \A e \in T : NickToUser(e)
    BY <1>1, <1>2 DEF Takes, InServer, InNick, NickToHost, ServerEnds, MaskEnds, Quiet, OnlyOn
  <2>2. Acts(T) = PrefixOnly
    BY <2>1, ActsSame DEF Takes, NickToUser
  <2>3. MaskWithin(m) /\ NoFlags(m)
    BY <2>1 DEF NickToUser, Takes, InName
  <2>4. Tos(T) \subseteq {Bang}
    BY <2>1 DEF Tos, NickToUser
  <2> QED
    BY <2>2, <2>3, <2>4, PrefixAlone DEF Staged, AtBang
<1>3. CASE byte = "@"
  <2>1. \A e \in T : NickToHost(e)
    BY <1>1, <1>3 DEF Takes, InServer, InNick, NickToUser, ServerEnds, MaskEnds, Quiet, OnlyOn
  <2>2. Acts(T) = PrefixOnly
    BY <2>1, ActsSame DEF Takes, NickToHost
  <2>3. MaskWithin(m) /\ NoFlags(m)
    BY <2>1 DEF NickToHost, Takes, InName
  <2>4. Tos(T) \subseteq {At}
    BY <2>1 DEF Tos, NickToHost
  <2> QED
    BY <2>2, <2>3, <2>4, PrefixAlone DEF Staged, AtAt
<1>4. CASE byte = " "
  <2>1. \A e \in T : ServerEnds(e) \/ MaskEnds(e)
    BY <1>1, <1>4 DEF Takes, InServer, InNick, NickToUser, NickToHost, Quiet, OnlyOn
  <2>2. Acts(T) \subseteq ServerFinish \cup MaskFinish
    BY <2>1 DEF Acts, ServerEnds, MaskEnds
  <2>3. ASSUME "servername_finish" \in Acts(T) PROVE WholePrefix(m)
    <3>1. PICK e \in T : "servername_finish" \in e.does
      BY <2>3 DEF Acts
    <3>2. "servername_finish" \notin MaskFinish
      BY DEF MaskFinish
    <3>3. ServerEnds(e)
      BY <2>1, <3>1, <3>2 DEF MaskEnds
    <3> QED
      BY <3>3 DEF ServerEnds, Takes, InName
  <2>4. ASSUME "hostmask_finish" \in Acts(T) PROVE MaskWithin(m)
    <3>1. PICK e \in T : "hostmask_finish" \in e.does
      BY <2>4 DEF Acts
    <3>2. MaskEnds(e)
      BY <2>1, <3>1 DEF ServerEnds, ServerFinish
    <3>3. e.from \in cs /\ (e.from[1] = "server" \/ e.from[1] = "nick")
      BY DEF Takes, InName
    <3>4. e.from[1] = "nick"
      BY <3>2, <3>3, AreasApart DEF MaskEnds
    <3> QED
      BY <3>3, <3>4 DEF InName
  <2>5. Tos(T) \subseteq {Space}
    BY <2>1 DEF Tos, ServerEnds, MaskEnds
  <2>6. NoFlags(m)
    BY DEF InName
  <2>7. SlicesInPrefix(Perform(m, byte, Acts(T)))
    BY <2>2, <2>3, <2>4, <2>6, PrefixEnds
  <2> QED
    BY <2>5, <2>7 DEF Staged, AfterPrefix
<1>5. CASE byte \notin {"!", "@", " "}
  <2>1. \A e \in T : InServer(e) \/ InNick(e)
    BY <1>1, <1>5 DEF Takes, NickToUser, NickToHost, ServerEnds, MaskEnds, OnlyOn
  <2> QED
    BY <2>1, StepNameOn
<1> QED
  BY <1>2, <1>3, <1>4, <1>5

\* A byte taken in the user does.
LEMMA StepUser ==
  ASSUME NEW m \in Msg, NEW byte \in Byte, NEW cs, NEW T, Takes(T, cs, byte),
         AtBang(m, cs) \/ AtUser(m, cs)
  PROVE  Staged(Perform(m, byte, Acts(T)), Tos(T))
<1> DEFINE out == Perform(m, byte, Acts(T))
<1>1. out \in Msg /\ NoFlags(m) /\ MaskWithin(m)
  BY PerformType DEF AtBang, AtUser
<1>2. \/ AtBang(m, cs) /\ \A e \in T : ToUser(e)
      \/ AtUser(m, cs) /\ \A e \in T : InUser(e) \/ UserToHost(e)
  BY KindFrom DEF Takes, AtBang, AtUser
<1>3. m.user.at \in Nat /\ m.user.len \in Nat /\ m.prefix \in Seq(Byte) /\ Len(m.prefix) \in Nat
  BY DEF Msg, Slices
<1>4. CASE AtBang(m, cs) /\ \A e \in T : ToUser(e)
  <2>1. Acts(T) = UserStart
    BY <1>4, ActsSame DEF Takes, ToUser
  <2>2. /\ "prefix" \in Acts(T) /\ "user_start" \in Acts(T) /\ "user" \in Acts(T)
        /\ {"prefix_start", "hostmask_start", "nick_start", "nick", "hostmask_finish",
            "servername_finish", "host_start", "host"} \cap Acts(T) = {}
    BY <2>1 DEF UserStart
  <2>3. out.prefix = Append(m.prefix, byte)
    BY <2>2, PerformPrefix
  <2>4. out.nick = m.nick
    BY <2>2, PerformNick
  <2>5. out.user = Slice(Len(m.prefix), 1)
    BY <2>2, PerformUser
  <2>6. out.host = m.host
    BY <2>2, PerformHost
  <2>7. NoFlags(out)
    BY <1>1, <2>2, PerformFlags DEF NoFlags
  <2>8. Tos(T) \subseteq {User}
    BY <1>4 DEF Tos, ToUser
  <2> HIDE DEF out
  <2>9. Tight(out, "user")
    BY <1>3, <2>3, <2>5, AppendLen DEF Tight, Slice
  <2>10. MaskWithin(out)
    BY <1>1, <2>3, <2>4, <2>6, <2>9, StillWithin DEF MaskWithin, Within
  <2> QED
    BY <2>7, <2>8, <2>9, <2>10 DEF Staged, AtUser, out
<1>5. CASE AtUser(m, cs) /\ (\A e \in T : InUser(e) \/ UserToHost(e)) /\ byte # "@"
  <2>0. \A e \in T : InUser(e)
    BY <1>5 DEF Takes, UserToHost, OnlyOn
  <2>1. Acts(T) = UserMore
    BY <2>0, ActsSame DEF Takes, InUser
  <2>2. /\ "prefix" \in Acts(T) /\ "user" \in Acts(T)
        /\ {"prefix_start", "hostmask_start", "nick_start", "nick", "hostmask_finish",
            "servername_finish", "user_start", "host_start", "host"} \cap Acts(T) = {}
    BY <2>1 DEF UserMore
  <2>3. out.prefix = Append(m.prefix, byte)
    BY <2>2, PerformPrefix
  <2>4. out.nick = m.nick
    BY <2>2, PerformNick
  <2>5. out.user = Slice(m.user.at, m.user.len + 1)
    BY <2>2, PerformUser
  <2>6. out.host = m.host
    BY <2>2, PerformHost
  <2>7. NoFlags(out)
    BY <1>1, <2>2, PerformFlags DEF NoFlags
  <2>8. Tos(T) \subseteq {User}
    BY <2>0 DEF Tos, InUser
  <2> HIDE DEF out
  <2>9. Tight(out, "user")
    BY <1>3, <1>5, <2>3, <2>5, AppendLen DEF Tight, Slice, AtUser
  <2>10. MaskWithin(out)
    BY <1>1, <2>3, <2>4, <2>6, <2>9, StillWithin DEF MaskWithin, Within
  <2> QED
    BY <2>7, <2>8, <2>9, <2>10 DEF Staged, AtUser, out
<1>6. CASE AtUser(m, cs) /\ (\A e \in T : InUser(e) \/ UserToHost(e)) /\ byte = "@"
  <2>1. \A e \in T : UserToHost(e)
    BY <1>6 DEF Takes, InUser
  <2>2. Acts(T) = PrefixOnly
    BY <2>1, ActsSame DEF Takes, UserToHost
  <2>3. Tos(T) \subseteq {At}
    BY <2>1 DEF Tos, UserToHost
  <2> QED
    BY <1>1, <2>2, <2>3, PrefixAlone DEF Staged, AtAt
<1> QED
  BY <1>2, <1>4, <1>5, <1>6

\* A byte taken in the host does.
LEMMA StepHost ==
  ASSUME NEW m \in Msg, NEW byte \in Byte, NEW cs, NEW T, Takes(T, cs, byte),
         AtAt(m, cs) \/ AtHost(m, cs)
  PROVE  Staged(Perform(m, byte, Acts(T)), Tos(T))
<1> DEFINE out == Perform(m, byte, Acts(T))
<1>1. out \in Msg /\ NoFlags(m) /\ MaskWithin(m)
  BY PerformType DEF AtAt, AtHost
<1>2. \/ AtAt(m, cs) /\ \A e \in T : ToHost(e)
      \/ AtHost(m, cs) /\ \A e \in T : InHost(e) \/ MaskEnds(e)
  BY KindFrom DEF Takes, AtAt, AtHost
<1>3. m.host.at \in Nat /\ m.host.len \in Nat /\ m.prefix \in Seq(Byte) /\ Len(m.prefix) \in Nat
  BY DEF Msg, Slices
<1>4. CASE AtAt(m, cs) /\ \A e \in T : ToHost(e)
  <2>1. Acts(T) = HostStart
    BY <1>4, ActsSame DEF Takes, ToHost
  <2>2. /\ "prefix" \in Acts(T) /\ "host_start" \in Acts(T) /\ "host" \in Acts(T)
        /\ {"prefix_start", "hostmask_start", "nick_start", "nick", "hostmask_finish",
            "servername_finish", "user_start", "user"} \cap Acts(T) = {}
    BY <2>1 DEF HostStart
  <2>3. out.prefix = Append(m.prefix, byte)
    BY <2>2, PerformPrefix
  <2>4. out.nick = m.nick
    BY <2>2, PerformNick
  <2>5. out.user = m.user
    BY <2>2, PerformUser
  <2>6. out.host = Slice(Len(m.prefix), 1)
    BY <2>2, PerformHost
  <2>7. NoFlags(out)
    BY <1>1, <2>2, PerformFlags DEF NoFlags
  <2>8. \A p \in Tos(T) : p[1] \in HostAreas
    BY <1>4 DEF Tos, ToHost
  <2> HIDE DEF out
  <2>9. Tight(out, "host")
    BY <1>3, <2>3, <2>6, AppendLen DEF Tight, Slice
  <2>10. MaskWithin(out)
    BY <1>1, <2>3, <2>4, <2>5, <2>9, StillWithin DEF MaskWithin, Within
  <2> QED
    BY <2>7, <2>8, <2>9, <2>10 DEF Staged, AtHost, out
<1>5. CASE AtHost(m, cs) /\ (\A e \in T : InHost(e) \/ MaskEnds(e)) /\ byte # " "
  <2>0. \A e \in T : InHost(e)
    BY <1>5 DEF Takes, MaskEnds, OnlyOn
  <2>1. Acts(T) = HostMore
    BY <2>0, ActsSame DEF Takes, InHost
  <2>2. /\ "prefix" \in Acts(T) /\ "host" \in Acts(T)
        /\ {"prefix_start", "hostmask_start", "nick_start", "nick", "hostmask_finish",
            "servername_finish", "user_start", "user", "host_start"} \cap Acts(T) = {}
    BY <2>1 DEF HostMore
  <2>3. out.prefix = Append(m.prefix, byte)
    BY <2>2, PerformPrefix
  <2>4. out.nick = m.nick
    BY <2>2, PerformNick
  <2>5. out.user = m.user
    BY <2>2, PerformUser
  <2>6. out.host = Slice(m.host.at, m.host.len + 1)
    BY <2>2, PerformHost
  <2>7. NoFlags(out)
    BY <1>1, <2>2, PerformFlags DEF NoFlags
  <2>8. \A p \in Tos(T) : p[1] \in HostAreas
    BY <2>0 DEF Tos, InHost
  <2> HIDE DEF out
  <2>9. Tight(out, "host")
    <3>1. Tight(m, "host")
      BY <1>5 DEF AtHost
    <3> QED
      BY <1>3, <3>1, <2>3, <2>6, AppendLen DEF Tight, Slice
  <2>10. MaskWithin(out)
    BY <1>1, <2>3, <2>4, <2>5, <2>9, StillWithin DEF MaskWithin, Within
  <2> QED
    BY <2>7, <2>8, <2>9, <2>10 DEF Staged, AtHost, out
<1>6. CASE AtHost(m, cs) /\ (\A e \in T : InHost(e) \/ MaskEnds(e)) /\ byte = " "
  <2>1. \A e \in T : MaskEnds(e)
    BY <1>6 DEF Takes, InHost
  <2>2. Acts(T) = MaskFinish
    BY <2>1, ActsSame DEF Takes, MaskEnds
  <2>3. Tos(T) \subseteq {Space}
    BY <2>1 DEF Tos, MaskEnds
  <2>4. "servername_finish" \notin Acts(T)
    BY <2>2 DEF MaskFinish
  <2>5. SlicesInPrefix(Perform(m, byte, Acts(T)))
    BY <1>1, <2>2, <2>4, PrefixEnds
  <2> QED
    BY <2>3, <2>5 DEF Staged, AfterPrefix
<1> QED
  BY <1>2, <1>4, <1>5, <1>6

\* At every stage, the slices a handler may use lie within the prefix.
LEMMA StagedSlices ==
  ASSUME NEW m, NEW cs, Staged(m, cs)
  PROVE  SlicesInPrefix(m)
<1>1. NoFlags(m) => SlicesInPrefix(m)
  BY DEF NoFlags, SlicesInPrefix
<1> QED
  BY <1>1 DEF Staged, AtStart, AtColon, InName, AtBang, AtUser, AtAt, AtHost, AfterPrefix

\* A byte taken at any stage leads to a stage.
LEMMA TakesStep ==
  ASSUME NEW m \in Msg, NEW byte \in Byte, NEW cs, NEW T, Takes(T, cs, byte), Done \notin cs,
         Staged(m, cs)
  PROVE  Staged(Perform(m, byte, Acts(T)), Tos(T))
BY StepStart, StepColon, StepName, StepUser, StepHost, StepRest DEF Staged

\* The states of the parser at some stage.
GoodRuns == {r \in [msg : Msg, cs : SUBSET Position, len : Nat] : Staged(r.msg, r.cs)}

\* A step of the parser leads from one of them to another and consumes at most one byte.
LEMMA GoodStep ==
  ASSUME NEW r \in GoodRuns, NEW byte \in Byte
  PROVE  Step(r, byte) \in GoodRuns /\ Step(r, byte).len <= r.len + 1
<1> DEFINE taken == {e \in UNION {EdgesFrom[p] : p \in r.cs} : byte \in e.on}
<1>1. /\ r.msg \in Msg /\ r.cs \in SUBSET Position /\ r.len \in Nat /\ Staged(r.msg, r.cs)
      /\ r = [msg |-> r.msg, cs |-> r.cs, len |-> r.len]
  BY DEF GoodRuns
<1>2. Step(r, byte) =
        IF Done \in r.cs THEN r
        ELSE IF taken = {} THEN [r EXCEPT !.cs = {}]
        ELSE [msg |-> Perform(r.msg, byte, Acts(taken)), cs |-> Tos(taken), len |-> r.len + 1]
  BY DEF Step, Acts, Tos
<1>3. \A e \in taken : e \in Edges /\ e.from \in r.cs /\ byte \in e.on
  BY <1>1 DEF EdgesFrom
<1> HIDE DEF taken
<1>4. CASE Done \in r.cs
  BY <1>1, <1>2, <1>4
<1>5. CASE Done \notin r.cs /\ taken = {}
  <2>1. Step(r, byte) = [msg |-> r.msg, cs |-> {}, len |-> r.len]
    BY <1>1, <1>2, <1>5
  <2>2. Staged(r.msg, {})
    BY <1>1, StagedSlices DEF Staged, AtStart
  <2>3. {} \in SUBSET Position
    OBVIOUS
  <2>4. Step(r, byte) \in GoodRuns
    BY <1>1, <2>1, <2>2, <2>3 DEF GoodRuns
  <2>5. Step(r, byte).len = r.len
    BY <2>1
  <2> QED
    BY <1>1, <2>4, <2>5
<1>6. CASE Done \notin r.cs /\ taken # {}
  <2> DEFINE out == Perform(r.msg, byte, Acts(taken))
             to == Tos(taken)
  <2>1. Takes(taken, r.cs, byte)
    BY <1>3, <1>6 DEF Takes
  <2>2. Staged(out, to)
    BY <1>1, <1>6, <2>1, TakesStep
  <2>3. out \in Msg
    BY <1>1, PerformType
  <2>4. to \in SUBSET Position
    BY <1>3 DEF Tos, Position
  <2>5. Step(r, byte) = [msg |-> out, cs |-> to, len |-> r.len + 1]
    BY <1>2, <1>6
  <2> HIDE DEF out, to
  <2> QED
    BY <1>1, <2>2, <2>3, <2>4, <2>5 DEF GoodRuns
<1> QED
  BY <1>4, <1>5, <1>6

\* A run of steps that each lead from one of them to another exists.
LEMMA RunUpTo ==
  ASSUME NEW a \in GoodRuns, NEW n \in Nat, NEW next \in [1 .. n -> [GoodRuns -> GoodRuns]]
  PROVE  \E f \in [0 .. n -> GoodRuns] : f[0] = a /\ \A i \in 1 .. n : f[i] = next[i][f[i - 1]]
BY RecursionUpTo

\* A run over a window is one step for each of its bytes.
LEMMA ParseSteps ==
  ASSUME NEW m \in Msg, NEW cs \in SUBSET Position, Staged(m, cs), NEW window \in Seq(Byte)
  PROVE  \E run :
           /\ run[0] = [msg |-> m, cs |-> cs, len |-> 0]
           /\ \A i \in 1 .. Len(window) : run[i] = Step(run[i - 1], window[i])
           /\ Parse(m, cs, window) = run[Len(window)]
<1> DEFINE n == Len(window)
           begin == [msg |-> m, cs |-> cs, len |-> 0]
           next == [i \in 1 .. n |-> [r \in GoodRuns |-> Step(r, window[i])]]
           Is(run) ==
             run = [i \in 0 .. n |->
                      IF i = 0 THEN [msg |-> m, cs |-> cs, len |-> 0]
                      ELSE CHOOSE after \in {Step(before, window[i]) : before \in {run[i - 1]}} : TRUE]
           run == CHOOSE run : Is(run)
<1>1. n \in Nat /\ \A i \in 1 .. n : window[i] \in Byte
  OBVIOUS
<1>2. begin \in GoodRuns
  BY DEF GoodRuns
<1>3. next \in [1 .. n -> [GoodRuns -> GoodRuns]]
  <2> SUFFICES ASSUME NEW i \in 1 .. n, NEW r \in GoodRuns
               PROVE  Step(r, window[i]) \in GoodRuns
    OBVIOUS
  <2> QED
    BY <1>1, GoodStep
<1>4. \A r, byte : (CHOOSE after \in {Step(before, byte) : before \in {r}} : TRUE) = Step(r, byte)
  OBVIOUS
<1>5. \A f \in [0 .. n -> GoodRuns] :
        f[0] = begin /\ (\A i \in 1 .. n : f[i] = next[i][f[i - 1]]) => Is(f)
  <2> SUFFICES ASSUME NEW f \in [0 .. n -> GoodRuns], f[0] = begin,
                      \A i \in 1 .. n : f[i] = next[i][f[i - 1]]
               PROVE  Is(f)
    OBVIOUS
  <2>1. \A i \in 1 .. n : f[i] = Step(f[i - 1], window[i])
    <3> TAKE i \in 1 .. n
    <3>1. i - 1 \in 0 .. n
      BY <1>1
    <3> QED
      BY <3>1
  <2>2. \A i \in 0 .. n :
          f[i] = IF i = 0 THEN [msg |-> m, cs |-> cs, len |-> 0]
                 ELSE CHOOSE after \in {Step(before, window[i]) : before \in {f[i - 1]}} : TRUE
    <3> TAKE i \in 0 .. n
    <3>1. CASE i = 0
      BY <3>1
    <3>2. CASE i # 0
      <4>1. i \in 1 .. n
        BY <3>2, <1>1
      <4> HIDE DEF next, begin, n
      <4> QED
        BY <4>1, <3>2, <2>1, <1>4, Zenon
    <3> QED
      BY <3>1, <3>2
  <2> HIDE DEF n
  <2> QED
    BY <2>2
<1>6. \E f : Is(f)
  <2> HIDE DEF n, begin, next, Is
  <2>1. n \in Nat
    BY <1>1
  <2>2. \E f \in [0 .. n -> GoodRuns] :
          f[0] = begin /\ \A i \in 1 .. n : f[i] = next[i][f[i - 1]]
    BY <1>2, <1>3, <2>1, RunUpTo
  <2> QED
    BY <1>5, <2>2
<1>7. Is(run)
  <2> HIDE DEF Is
  <2> QED
    BY <1>6
<1>8. run[0] = begin /\ \A i \in 1 .. n : run[i] = Step(run[i - 1], window[i])
  <2> HIDE DEF run, n
  <2>1. \A i \in 0 .. n :
          run[i] = IF i = 0 THEN [msg |-> m, cs |-> cs, len |-> 0]
                   ELSE CHOOSE after \in {Step(before, window[i]) : before \in {run[i - 1]}} : TRUE
    BY <1>7
  <2>2. 0 \in 0 .. n /\ \A i \in 1 .. n : i \in 0 .. n /\ i # 0
    BY <1>1
  <2>3. run[0] = begin
    BY <2>1, <2>2
  <2>4. ASSUME NEW i \in 1 .. n
        PROVE  run[i] = Step(run[i - 1], window[i])
    BY <2>1, <2>2, <1>4, Zenon
  <2> QED
    BY <2>3, <2>4
<1>9. Parse(m, cs, window) = run[n]
  BY DEF Parse, run, n
<1> HIDE DEF run
<1> QED
  BY <1>8, <1>9 DEF n, begin

\* A run over a window does, and consumes no more than the window.
LEMMA GoodParse ==
  ASSUME NEW m \in Msg, NEW cs \in SUBSET Position, Staged(m, cs), NEW window \in Seq(Byte)
  PROVE  /\ Parse(m, cs, window) \in GoodRuns
         /\ Parse(m, cs, window).len <= Len(window)
<1> DEFINE n == Len(window)
<1>1. n \in Nat /\ \A i \in 1 .. n : window[i] \in Byte
  OBVIOUS
<1>2. PICK run :
        /\ run[0] = [msg |-> m, cs |-> cs, len |-> 0]
        /\ \A i \in 1 .. n : run[i] = Step(run[i - 1], window[i])
        /\ Parse(m, cs, window) = run[n]
  BY ParseSteps
<1> HIDE DEF n
<1> DEFINE S == {i \in 0 .. n : run[i] \in GoodRuns /\ run[i].len <= i}
<1>3. [msg |-> m, cs |-> cs, len |-> 0] \in GoodRuns
  BY DEF GoodRuns
<1>4. 0 \in S
  BY <1>1, <1>2, <1>3
<1>5. ASSUME NEW i \in 1 .. n, i - 1 \in S
       PROVE  i \in S
  <2>1. run[i - 1] \in GoodRuns /\ run[i - 1].len <= i - 1 /\ window[i] \in Byte
    BY <1>1, <1>5
  <2>2. run[i] \in GoodRuns /\ run[i].len <= run[i - 1].len + 1
    BY <1>2, <2>1, GoodStep
  <2>3. run[i - 1].len \in Nat /\ run[i].len \in Nat
    BY <2>1, <2>2 DEF GoodRuns
  <2> QED
    BY <1>1, <2>1, <2>2, <2>3
<1>6. n \in S
  <2> HIDE DEF S
  <2>1. 0 .. n \subseteq S
    BY <1>1, <1>4, <1>5, InductionUpTo
  <2> QED
    BY <1>1, <2>1
<1> QED
  BY <1>2, <1>6 DEF n
-----------------------------------------------------------------------------
\* How many members of T are below x, and: is there one for each count?
Count(T, x) == Cardinality({y \in T : y < x})
Counted(T) == IsFiniteSet(T) /\ \A k \in 1 .. Cardinality(T) : \E x \in T : Count(T, x) = k - 1

\* A larger member has a larger count.
LEMMA CountGrows ==
  ASSUME NEW T, T \subseteq Nat, IsFiniteSet(T), NEW x \in T, NEW y \in T, x < y
  PROVE  Count(T, x) \in Nat /\ Count(T, y) \in Nat /\ Count(T, x) < Count(T, y)
<1> DEFINE X == {z \in T : z < x}
           Y == {z \in T : z < y}
<1>1. IsFiniteSet(X) /\ IsFiniteSet(Y)
  BY FS_Subset
<1>2. IsFiniteSet(X \cup {x}) /\ Cardinality(X \cup {x}) = Cardinality(X) + 1
  <2>1. x \notin X
    OBVIOUS
  <2> QED
    BY <1>1, <2>1, FS_AddElement
<1>3. X \cup {x} \subseteq Y
  <2>1. \A z \in T : z \in Nat
    OBVIOUS
  <2>2. \A z \in X : z < y
    BY <2>1
  <2> QED
    BY <2>2
<1>4. Cardinality(X \cup {x}) <= Cardinality(Y)
  BY <1>1, <1>3, FS_Subset
<1>5. Cardinality(X) \in Nat /\ Cardinality(Y) \in Nat
  BY <1>1, FS_CardinalityType
<1> QED
  BY <1>2, <1>4, <1>5 DEF Count

\* Different members have different counts.
LEMMA CountApart ==
  ASSUME NEW T, T \subseteq Nat, IsFiniteSet(T), NEW x \in T, NEW y \in T, Count(T, x) = Count(T, y)
  PROVE  x = y
<1>1. x \in Nat /\ y \in Nat
  OBVIOUS
<1>2. CASE x < y
  <2>1. Count(T, x) \in Nat /\ Count(T, y) \in Nat /\ Count(T, x) < Count(T, y)
    BY <1>2, CountGrows
  <2> QED
    BY <2>1
<1>3. CASE y < x
  <2>1. Count(T, x) \in Nat /\ Count(T, y) \in Nat /\ Count(T, y) < Count(T, x)
    BY <1>3, CountGrows
  <2> QED
    BY <2>1
<1> QED
  BY <1>1, <1>2, <1>3

\* A member above all others has the largest count, and leaves theirs.
LEMMA CountAdd ==
  ASSUME NEW T, T \subseteq Nat, IsFiniteSet(T), NEW m \in Nat, \A x \in T : x < m
  PROVE  /\ IsFiniteSet(T \cup {m}) /\ Cardinality(T \cup {m}) = Cardinality(T) + 1
         /\ Cardinality(T) \in Nat
         /\ Count(T \cup {m}, m) = Cardinality(T)
         /\ \A x \in T : Count(T \cup {m}, x) = Count(T, x)
<1>1. m \notin T
  OBVIOUS
<1>2. {y \in T \cup {m} : y < m} = T
  <2>1. ~(m < m)
    OBVIOUS
  <2> QED
    BY <2>1
<1>3. ASSUME NEW x \in T
      PROVE  {y \in T \cup {m} : y < x} = {y \in T : y < x}
  <2>1. x \in Nat /\ ~(m < x)
    <3>1. x \in Nat /\ x < m
      OBVIOUS
    <3> QED
      BY <3>1
  <2> QED
    BY <2>1
<1>4. IsFiniteSet(T \cup {m}) /\ Cardinality(T \cup {m}) = Cardinality(T) + 1
  BY <1>1, FS_AddElement
<1>5. Cardinality(T) \in Nat
  BY FS_CardinalityType
<1> QED
  BY <1>2, <1>3, <1>4, <1>5 DEF Count

\* One more above all others keeps the counts without a gap.
LEMMA CountedAdd ==
  ASSUME NEW T, T \subseteq Nat, Counted(T), NEW m \in Nat, \A x \in T : x < m
  PROVE  Counted(T \cup {m})
<1>0. IsFiniteSet(T) /\ \A k \in 1 .. Cardinality(T) : \E x \in T : Count(T, x) = k - 1
  BY DEF Counted
<1>1. /\ IsFiniteSet(T \cup {m}) /\ Cardinality(T \cup {m}) = Cardinality(T) + 1
      /\ Cardinality(T) \in Nat
      /\ Count(T \cup {m}, m) = Cardinality(T)
      /\ \A x \in T : Count(T \cup {m}, x) = Count(T, x)
  BY <1>0, CountAdd
<1>2. ASSUME NEW k \in 1 .. Cardinality(T \cup {m})
      PROVE  \E x \in T \cup {m} : Count(T \cup {m}, x) = k - 1
  <2>1. CASE k = Cardinality(T) + 1
    BY <1>1, <2>1
  <2>2. CASE k \in 1 .. Cardinality(T)
    BY <1>0, <1>1, <2>2
  <2> QED
    BY <1>1, <2>1, <2>2
<1> QED
  BY <1>1, <1>2 DEF Counted

\* So every finite set of numbers is counted without a gap.
LEMMA CountedAll ==
  ASSUME NEW n \in Nat, NEW T, T \subseteq 0 .. n
  PROVE  Counted(T)
<1> DEFINE Low(i) == T \cap (0 .. i - 1)
           S == {i \in 0 .. n + 1 : Counted(Low(i))}
<1>1. 0 \in S
  <2>1. Low(0) = {}
    OBVIOUS
  <2>2. IsFiniteSet({}) /\ Cardinality({}) = 0
    BY FS_EmptySet
  <2>3. Counted({})
    BY <2>2 DEF Counted
  <2> QED
    BY <2>1, <2>3
<1>2. ASSUME NEW i \in 1 .. n + 1, i - 1 \in S
      PROVE  i \in S
  <2> DEFINE L == Low(i - 1)
  <2>1. L \subseteq Nat /\ Counted(L) /\ \A x \in L : x < i - 1
    BY <1>2
  <2>2. CASE i - 1 \in T
    <3>1. Low(i) = L \cup {i - 1} /\ i - 1 \in Nat
      BY <2>2
    <3> DEFINE m == i - 1
    <3>2. m \in Nat /\ \A x \in L : x < m
      BY <2>1, <3>1
    <3> HIDE DEF L, m
    <3>3. Counted(L \cup {m})
      BY <2>1, <3>2, CountedAdd
    <3> QED
      BY <3>1, <3>3 DEF m
  <2>3. CASE i - 1 \notin T
    <3>1. Low(i) = L
      BY <2>3
    <3> QED
      BY <2>1, <3>1
  <2> QED
    BY <2>2, <2>3
<1> HIDE DEF S
<1>3. 0 .. n + 1 \subseteq S
  <2> DEFINE N == n + 1
  <2>1. N \in Nat /\ \A i \in 1 .. N : i - 1 \in S => i \in S
    BY <1>2
  <2> HIDE DEF N
  <2>2. 0 .. N \subseteq S
    BY <1>1, <2>1, InductionUpTo
  <2> QED
    BY <2>2 DEF N
<1>4. Counted(Low(n + 1))
  BY <1>3 DEF S
<1>5. Low(n + 1) = T
  <2>1. (n + 1) - 1 = n
    OBVIOUS
  <2>2. Low(n + 1) = T \cap (0 .. n)
    BY <2>1
  <2> QED
    BY <2>2
<1> QED
  BY <1>4, <1>5

\* The k-th of the ascending members is the one with k - 1 below it.
LEMMA AscendingMembers ==
  ASSUME NEW T, T \subseteq Nat, Counted(T)
  PROVE  /\ Ascending(T) \in Seq(T) /\ Len(Ascending(T)) = Cardinality(T) /\ Cardinality(T) \in Nat
         /\ \A k \in 1 .. Cardinality(T) : Ascending(T)[k] \in T /\ Count(T, Ascending(T)[k]) = k - 1
<1>1. IsFiniteSet(T) /\ \A k \in 1 .. Cardinality(T) : \E x \in T : Count(T, x) = k - 1
  BY DEF Counted
<1>2. Cardinality(T) \in Nat
  BY <1>1, FS_CardinalityType
<1>3. Ascending(T) = [k \in 1 .. Cardinality(T) |-> CHOOSE x \in T : Count(T, x) = k - 1]
  BY DEF Ascending, Count
<1>4. ASSUME NEW k \in 1 .. Cardinality(T)
      PROVE  Ascending(T)[k] \in T /\ Count(T, Ascending(T)[k]) = k - 1
  BY <1>1, <1>3
<1>5. Ascending(T) \in Seq(T) /\ Len(Ascending(T)) = Cardinality(T)
  <2>1. Ascending(T) \in [1 .. Cardinality(T) -> T]
    BY <1>3, <1>4
  <2> QED
    BY <1>2, <2>1
<1> QED
  BY <1>2, <1>4, <1>5

\* A new member above all others comes last.
LEMMA AscendingAdd ==
  ASSUME NEW T, T \subseteq Nat, Counted(T), NEW m \in Nat, \A x \in T : x < m
  PROVE  /\ Counted(T \cup {m})
         /\ Len(Ascending(T \cup {m})) = Len(Ascending(T)) + 1
         /\ Len(Ascending(T)) \in Nat
         /\ \A k \in 1 .. Len(Ascending(T)) : Ascending(T \cup {m})[k] = Ascending(T)[k]
         /\ Ascending(T \cup {m})[Len(Ascending(T)) + 1] = m
<1> DEFINE U == T \cup {m}
           n == Cardinality(T)
<1>0. Counted(U) /\ U \subseteq Nat /\ IsFiniteSet(T) /\ IsFiniteSet(U)
  BY CountedAdd DEF Counted
<1>1. /\ Cardinality(U) = n + 1 /\ n \in Nat
      /\ Count(U, m) = n
      /\ \A x \in T : Count(U, x) = Count(T, x)
  BY <1>0, CountAdd
<1>2. /\ Len(Ascending(T)) = n
      /\ \A k \in 1 .. n : Ascending(T)[k] \in T /\ Count(T, Ascending(T)[k]) = k - 1
  BY AscendingMembers
<1>m. m \in U /\ T \subseteq U
  OBVIOUS
<1> HIDE DEF U
<1>3. /\ Len(Ascending(U)) = n + 1
      /\ \A k \in 1 .. n + 1 : Ascending(U)[k] \in U /\ Count(U, Ascending(U)[k]) = k - 1
  BY <1>0, <1>1, AscendingMembers
<1>4. ASSUME NEW k \in 1 .. n
      PROVE  Ascending(U)[k] = Ascending(T)[k]
  <2> k \in 1 .. n + 1
    BY <1>1
  <2>a. Ascending(T)[k] \in T /\ Count(T, Ascending(T)[k]) = k - 1
    BY <1>2
  <2>b. Ascending(U)[k] \in U /\ Count(U, Ascending(U)[k]) = k - 1
    BY <1>3
  <2>1. /\ Ascending(U)[k] \in U /\ Ascending(T)[k] \in U
        /\ Count(U, Ascending(U)[k]) = Count(U, Ascending(T)[k])
    BY <1>1, <2>a, <2>b, <1>m
  <2> QED
    BY <1>0, <2>1, CountApart
<1>5. Ascending(U)[n + 1] = m
  <2>1. Ascending(U)[n + 1] \in U /\ Count(U, Ascending(U)[n + 1]) = Count(U, m)
    BY <1>1, <1>3
  <2> QED
    BY <1>0, <1>m, <2>1, CountApart
<1> QED
  BY <1>0, <1>1, <1>2, <1>3, <1>4, <1>5 DEF U

\* Where the parts of s begin, each after the byte before it; and the part that
\* begins after the k-th.
Cuts(s, seps) == {0} \cup {i \in DOMAIN s : s[i] \in seps}
Orders(s, seps) == Ascending(Cuts(s, seps))
PartAt(s, order, k) ==
  SubSeq(s, order[k] + 1, (IF k = Len(order) THEN Len(s) + 1 ELSE order[k + 1]) - 1)

\* The cuts of a text are counted.
LEMMA CutsCounted ==
  ASSUME NEW s \in Seq(Byte), NEW seps
  PROVE  /\ Cuts(s, seps) \subseteq Nat /\ Counted(Cuts(s, seps)) /\ Len(s) \in Nat
         /\ \A x \in Cuts(s, seps) : x <= Len(s)
         /\ Orders(s, seps) \in Seq(0 .. Len(s)) /\ Len(Orders(s, seps)) \in Nat \ {0}
<1>1. DOMAIN s = 1 .. Len(s) /\ Len(s) \in Nat
  OBVIOUS
<1>2. Cuts(s, seps) \subseteq 0 .. Len(s)
  BY <1>1 DEF Cuts
<1>3. Counted(Cuts(s, seps))
  BY <1>1, <1>2, CountedAll
<1>4. Cuts(s, seps) # {}
  BY DEF Cuts
<1> DEFINE C == Cuts(s, seps)
<1> HIDE DEF C
<1>5. C \subseteq Nat /\ Counted(C) /\ C # {} /\ C \subseteq 0 .. Len(s)
  BY <1>2, <1>3, <1>4 DEF C
<1>6. /\ Ascending(C) \in Seq(C) /\ Len(Ascending(C)) = Cardinality(C) /\ Cardinality(C) \in Nat
  BY <1>5, AscendingMembers
<1>7. Cardinality(C) # 0
  BY <1>5, FS_EmptySet DEF Counted
<1>8. Ascending(C) \in Seq(0 .. Len(s))
  BY <1>5, <1>6, SeqMonotonic
<1> QED
  BY <1>1, <1>2, <1>3, <1>6, <1>7, <1>8 DEF Orders, C

\* The parts by their orders.
LEMMA PartsForm ==
  ASSUME NEW s \in Seq(Byte), NEW seps
  PROVE  /\ Len(Parts(s, seps)) = Len(Orders(s, seps))
         /\ DOMAIN Parts(s, seps) = 1 .. Len(Orders(s, seps))
         /\ \A k \in 1 .. Len(Orders(s, seps)) :
              Parts(s, seps)[k] = PartAt(s, Orders(s, seps), k)
<1> DEFINE cuts == {0, Len(s) + 1} \cup {i \in DOMAIN s : s[i] \in seps}
           C == Cuts(s, seps)
           m == Len(s) + 1
           o == Orders(s, seps)
           all == Ascending(cuts)
           n == Len(o)
<1>1. cuts = C \cup {m}
  BY DEF Cuts
<1>2. C \subseteq Nat /\ Counted(C) /\ m \in Nat /\ \A x \in C : x < m
  BY CutsCounted
<1>3. o = Ascending(C) /\ n \in Nat
  BY CutsCounted DEF Orders
<1> HIDE DEF C, m, o, n
<1>4. /\ Len(Ascending(C \cup {m})) = Len(Ascending(C)) + 1
      /\ \A k \in 1 .. Len(Ascending(C)) : Ascending(C \cup {m})[k] = Ascending(C)[k]
      /\ Ascending(C \cup {m})[Len(Ascending(C)) + 1] = m
  BY <1>2, AscendingAdd
<1>5. Len(all) = n + 1 /\ all[n + 1] = m /\ \A k \in 1 .. n : all[k] = o[k]
  BY <1>1, <1>3, <1>4 DEF n
<1>6. Parts(s, seps) = [k \in 1 .. Len(all) - 1 |-> SubSeq(s, all[k] + 1, all[k + 1] - 1)]
  BY DEF Parts
<1> HIDE DEF all
<1>7. Len(all) - 1 = n
  BY <1>3, <1>5
<1>8. DOMAIN Parts(s, seps) = 1 .. n /\ Len(Parts(s, seps)) = n
  BY <1>3, <1>6, <1>7
<1>9. ASSUME NEW k \in 1 .. n
      PROVE  Parts(s, seps)[k] = PartAt(s, o, k)
  <2>1. Parts(s, seps)[k] = SubSeq(s, all[k] + 1, all[k + 1] - 1)
    BY <1>6, <1>7
  <2>2. CASE k = n
    BY <1>5, <2>1, <2>2 DEF PartAt, n, m
  <2>3. CASE k # n
    <3>1. k + 1 \in 1 .. n
      BY <1>3, <2>3
    <3> QED
      BY <1>5, <2>1, <2>3, <3>1 DEF PartAt, n
  <2> QED
    BY <2>2, <2>3
<1> QED
  BY <1>8, <1>9 DEF o, n

\* There is always a part, and parts are texts.
LEMMA PartsType ==
  ASSUME NEW s \in Seq(Byte), NEW seps
  PROVE  /\ Parts(s, seps) \in Seq(Seq(Byte)) /\ Len(Parts(s, seps)) \in Nat \ {0}
         /\ DOMAIN Parts(s, seps) = 1 .. Len(Parts(s, seps))
<1> DEFINE P == Parts(s, seps)
           o == Orders(s, seps)
           n == Len(o)
<1>1. o \in Seq(0 .. Len(s)) /\ n \in Nat \ {0} /\ Len(s) \in Nat
  BY CutsCounted
<1>2. Len(P) = n /\ DOMAIN P = 1 .. n /\ \A k \in 1 .. n : P[k] = PartAt(s, o, k)
  BY PartsForm
<1>3. P = [k \in 1 .. n |-> P[k]]
  <2>1. Parts(s, seps) = [k \in DOMAIN P |-> P[k]]
    BY DEF Parts
  <2> QED
    BY <1>2, <2>1
<1> HIDE DEF P, o
<1>4. ASSUME NEW k \in 1 .. n
      PROVE  P[k] \in Seq(Byte)
  <2> DEFINE a == o[k] + 1
             b == (IF k = n THEN Len(s) + 1 ELSE o[k + 1]) - 1
  <2>1. a \in 1 .. Len(s) + 1
    <3>1. o[k] \in 0 .. Len(s)
      BY <1>1
    <3> QED
      BY <1>1, <3>1
  <2>2. b \in Int /\ b <= Len(s)
    <3>1. CASE k = n
      BY <1>1, <3>1
    <3>2. CASE k # n
      <4>1. k + 1 \in 1 .. n
        BY <1>1, <3>2
      <4>2. o[k + 1] \in 0 .. Len(s)
        BY <1>1, <4>1
      <4> QED
        BY <1>1, <3>2, <4>2
    <3> QED
      BY <3>1, <3>2
  <2>3. P[k] = SubSeq(s, a, b)
    BY <1>2 DEF PartAt
  <2> HIDE DEF a, b
  <2>4. \A i \in a .. b : s[i] \in Byte
    BY <2>1, <2>2, <1>1
  <2>5. SubSeq(s, a, b) \in Seq(Byte)
    BY <2>1, <2>2, <2>4
  <2> QED
    BY <2>3, <2>5
<1>5. P \in [1 .. n -> Seq(Byte)]
  BY <1>3, <1>4
<1>6. P \in Seq(Seq(Byte))
  BY <1>1, <1>5
<1> QED
  BY <1>1, <1>2, <1>6 DEF P

\* A text of one byte more.
LEMMA AppendType ==
  ASSUME NEW s \in Seq(Byte), NEW b \in Byte
  PROVE  /\ Append(s, b) \in Seq(Byte) /\ Len(Append(s, b)) = Len(s) + 1 /\ Len(s) \in Nat
         /\ \A i \in 1 .. Len(s) : Append(s, b)[i] = s[i]
         /\ Append(s, b)[Len(s) + 1] = b
         /\ DOMAIN s = 1 .. Len(s) /\ DOMAIN Append(s, b) = 1 .. Len(s) + 1
         /\ Append(s, b) # <<>>
<1>1. /\ Append(s, b) \in Seq(Byte) /\ Len(Append(s, b)) = Len(s) + 1 /\ Len(s) \in Nat
      /\ \A i \in 1 .. Len(s) : Append(s, b)[i] = s[i]
      /\ Append(s, b)[Len(s) + 1] = b
      /\ DOMAIN s = 1 .. Len(s)
  OBVIOUS
<1>2. DOMAIN Append(s, b) = 1 .. Len(Append(s, b))
  BY <1>1
<1>3. Append(s, b) # <<>>
  BY <1>1
<1> QED
  BY <1>1, <1>2, <1>3

\* Parts of a text that ends early are those of the text.
LEMMA SubSeqAppend ==
  ASSUME NEW s \in Seq(Byte), NEW b \in Byte, NEW i \in 1 .. Len(s) + 1, NEW j \in 0 .. Len(s)
  PROVE  /\ SubSeq(Append(s, b), i, j) = SubSeq(s, i, j)
         /\ SubSeq(Append(s, b), i, Len(s) + 1) = Append(SubSeq(s, i, Len(s)), b)
         /\ SubSeq(s, i, j) \in Seq(Byte) /\ SubSeq(s, i, Len(s)) \in Seq(Byte)
<1> DEFINE n == Len(s)
           t == Append(s, b)
<1>1. /\ t \in Seq(Byte) /\ Len(t) = n + 1 /\ n \in Nat
      /\ \A k \in 1 .. n : t[k] = s[k]
      /\ t[n + 1] = b
  BY AppendType
<1> HIDE DEF t
<1>2. SubSeq(t, i, j) = SubSeq(s, i, j) /\ SubSeq(s, i, j) \in Seq(Byte)
  <2>1. SubSeq(t, i, j) \in Seq(Byte) /\ SubSeq(s, i, j) \in Seq(Byte)
    BY <1>1
  <2>2. Len(SubSeq(t, i, j)) = Len(SubSeq(s, i, j))
    BY <1>1
  <2>3. \A k \in 1 .. Len(SubSeq(s, i, j)) : SubSeq(t, i, j)[k] = SubSeq(s, i, j)[k]
    BY <1>1
  <2> QED
    BY <2>1, <2>2, <2>3, SeqEqual
<1>3. SubSeq(s, i, n) \in Seq(Byte)
  BY <1>1
<1>4. SubSeq(t, i, n + 1) = Append(SubSeq(s, i, n), b)
  <2> DEFINE x == SubSeq(t, i, n + 1)
             y == SubSeq(s, i, n)
  <2>1. x \in Seq(Byte) /\ Len(x) = n + 2 - i /\ \A k \in 1 .. n + 2 - i : x[k] = t[i + k - 1]
    BY <1>1
  <2>2. y \in Seq(Byte) /\ Len(y) = n + 1 - i /\ \A k \in 1 .. n + 1 - i : y[k] = s[i + k - 1]
    BY <1>1
  <2> HIDE DEF x, y
  <2>3. /\ Append(y, b) \in Seq(Byte) /\ Len(Append(y, b)) = Len(y) + 1
        /\ \A k \in 1 .. Len(y) : Append(y, b)[k] = y[k]
        /\ Append(y, b)[Len(y) + 1] = b
    BY <2>2, AppendType
  <2>4. \A k \in 1 .. n + 2 - i : x[k] = Append(y, b)[k]
    <3> SUFFICES ASSUME NEW k \in 1 .. n + 2 - i
                 PROVE  x[k] = Append(y, b)[k]
      OBVIOUS
    <3>1. CASE k = n + 2 - i
      <4>1. k = Len(y) + 1 /\ i + k - 1 = n + 1
        BY <1>1, <2>2, <3>1
      <4>2. x[k] = t[n + 1]
        BY <2>1, <4>1
      <4> QED
        BY <1>1, <2>3, <4>1, <4>2
    <3>2. CASE k # n + 2 - i
      <4>1. k \in 1 .. n + 1 - i
        BY <1>1, <3>2
      <4>2. i + k - 1 \in 1 .. n
        BY <1>1, <4>1
      <4> QED
        BY <1>1, <2>1, <2>2, <2>3, <4>1, <4>2
    <3> QED
      BY <3>1, <3>2
  <2>5. Len(x) = Len(Append(y, b))
    BY <1>1, <2>1, <2>2, <2>3
  <2>6. x = Append(y, b)
    BY <2>1, <2>3, <2>4, <2>5, SeqEqual
  <2> QED
    BY <2>6 DEF x, y
<1> QED
  BY <1>2, <1>3, <1>4 DEF t

\* A byte that separates nothing goes to the last part.
LEMMA PartsMore ==
  ASSUME NEW s \in Seq(Byte), NEW b \in Byte, NEW seps, b \notin seps
  PROVE  LET old == Parts(s, seps)
             new == Parts(Append(s, b), seps)
             n == Len(old)
         IN  /\ Len(new) = n
             /\ \A k \in 1 .. n - 1 : new[k] = old[k]
             /\ new[n] = Append(old[n], b)
<1> DEFINE t == Append(s, b)
           old == Parts(s, seps)
           new == Parts(t, seps)
           o == Orders(s, seps)
           n == Len(o)
<1>1. /\ t \in Seq(Byte) /\ Len(t) = Len(s) + 1 /\ Len(s) \in Nat
      /\ \A k \in 1 .. Len(s) : t[k] = s[k]
      /\ t[Len(s) + 1] = b
      /\ DOMAIN s = 1 .. Len(s) /\ DOMAIN t = 1 .. Len(s) + 1
  BY AppendType
<1>c. \A i \in 1 .. Len(s), j \in 0 .. Len(s) :
        /\ SubSeq(t, i, j) = SubSeq(s, i, j)
        /\ SubSeq(t, i, Len(s) + 1) = Append(SubSeq(s, i, Len(s)), b)
  BY <1>1, SubSeqAppend
<1>d. /\ \A i \in 1 .. Len(s) + 1, j \in 0 .. Len(s) : SubSeq(t, i, j) = SubSeq(s, i, j)
      /\ \A i \in 1 .. Len(s) + 1 : SubSeq(t, i, Len(s) + 1) = Append(SubSeq(s, i, Len(s)), b)
  <2>1. ASSUME NEW i \in 1 .. Len(s) + 1, NEW j \in 0 .. Len(s)
        PROVE  /\ SubSeq(t, i, j) = SubSeq(s, i, j)
               /\ SubSeq(t, i, Len(s) + 1) = Append(SubSeq(s, i, Len(s)), b)
    BY <1>1, SubSeqAppend
  <2>2. 0 \in 0 .. Len(s)
    BY <1>1
  <2> HIDE DEF t
  <2> QED
    BY <2>1, <2>2
<1> HIDE DEF t
<1>2. Cuts(t, seps) = Cuts(s, seps)
  <2>1. {i \in 1 .. Len(s) + 1 : t[i] \in seps} = {i \in 1 .. Len(s) : s[i] \in seps}
    BY <1>1
  <2> QED
    BY <1>1, <2>1 DEF Cuts
<1>3. Orders(t, seps) = o
  BY <1>2 DEF Orders
<1>4. o \in Seq(0 .. Len(s)) /\ n \in Nat \ {0}
  BY CutsCounted
<1>5. Len(old) = n /\ \A k \in 1 .. n : old[k] = PartAt(s, o, k)
  BY PartsForm
<1>6. Len(new) = n /\ \A k \in 1 .. n : new[k] = PartAt(t, o, k)
  BY <1>1, <1>3, PartsForm
<1> HIDE DEF o, old, new
<1>7. ASSUME NEW k \in 1 .. n - 1
      PROVE  new[k] = old[k]
  <2>1. k \in 1 .. n /\ k + 1 \in 1 .. n /\ k # n
    BY <1>4
  <2>2. o[k] \in 0 .. Len(s) /\ o[k + 1] \in 0 .. Len(s)
    BY <1>4, <2>1
  <2> DEFINE i == o[k] + 1
             j == o[k + 1] - 1
  <2>3. PartAt(t, o, k) = SubSeq(t, i, j) /\ PartAt(s, o, k) = SubSeq(s, i, j)
    BY <2>1 DEF PartAt
  <2>4. i \in 1 .. Len(s) + 1 /\ (j \in 0 .. Len(s) \/ j = -1)
    BY <1>1, <2>2
  <2> HIDE DEF i, j
  <2>5. CASE j = -1
    <3>1. j \in Int /\ i \in Int /\ j < i
      BY <2>4, <2>5, <1>1
    <3>2. SubSeq(t, i, j) = <<>> /\ SubSeq(s, i, j) = <<>>
      BY <3>1, SubSeqEmpty
    <3> QED
      BY <1>5, <1>6, <2>1, <2>3, <3>2
  <2>6. CASE j \in 0 .. Len(s)
    BY <1>d, <1>5, <1>6, <2>1, <2>3, <2>4, <2>6
  <2> QED
    BY <2>4, <2>5, <2>6
<1>8. new[n] = Append(old[n], b)
  <2>1. o[n] + 1 \in 1 .. Len(s) + 1
    BY <1>1, <1>4
  <2>2. n \in 1 .. n
    BY <1>4
  <2>3. PartAt(t, o, n) = SubSeq(t, o[n] + 1, Len(s) + 1) /\ PartAt(s, o, n) = SubSeq(s, o[n] + 1, Len(s))
    <3>1. (Len(s) + 1) + 1 - 1 = Len(s) + 1 /\ (Len(s) + 1) - 1 = Len(s)
      BY <1>1
    <3> QED
      BY <1>1, <3>1 DEF PartAt
  <2> QED
    BY <1>d, <1>5, <1>6, <2>1, <2>2, <2>3
<1> QED
  BY <1>5, <1>6, <1>7, <1>8 DEF old, new, t

\* One that separates starts a part.
LEMMA PartsCut ==
  ASSUME NEW s \in Seq(Byte), NEW b \in Byte, NEW seps, b \in seps
  PROVE  LET old == Parts(s, seps)
             new == Parts(Append(s, b), seps)
             n == Len(old)
         IN  /\ Len(new) = n + 1
             /\ \A k \in 1 .. n : new[k] = old[k]
             /\ new[n + 1] = <<>>
<1> DEFINE t == Append(s, b)
           old == Parts(s, seps)
           new == Parts(t, seps)
           o == Orders(s, seps)
           p == Orders(t, seps)
           n == Len(o)
           C == Cuts(s, seps)
           m == Len(s) + 1
<1>1. /\ t \in Seq(Byte) /\ Len(t) = Len(s) + 1 /\ Len(s) \in Nat
      /\ \A k \in 1 .. Len(s) : t[k] = s[k]
      /\ t[Len(s) + 1] = b
      /\ DOMAIN s = 1 .. Len(s) /\ DOMAIN t = 1 .. Len(s) + 1
  BY AppendType
<1>d. \A i \in 1 .. Len(s) + 1, j \in 0 .. Len(s) : SubSeq(t, i, j) = SubSeq(s, i, j)
  BY SubSeqAppend
<1> HIDE DEF t
<1>2. Cuts(t, seps) = C \cup {m}
  <2>1. {i \in 1 .. Len(s) + 1 : t[i] \in seps} = {i \in 1 .. Len(s) : s[i] \in seps} \cup {Len(s) + 1}
    BY <1>1
  <2> QED
    BY <1>1, <2>1 DEF Cuts
<1>4. o \in Seq(0 .. Len(s)) /\ n \in Nat \ {0} /\ C \subseteq Nat /\ Counted(C)
      /\ m \in Nat /\ \A x \in C : x < m
  BY CutsCounted
<1>5. Len(old) = n /\ \A k \in 1 .. n : old[k] = PartAt(s, o, k)
  BY PartsForm
<1>6. Len(new) = Len(p) /\ \A k \in 1 .. Len(p) : new[k] = PartAt(t, p, k)
  BY <1>1, PartsForm
<1>3. Len(p) = n + 1 /\ p[n + 1] = m /\ \A k \in 1 .. n : p[k] = o[k]
  <2> HIDE DEF C, m
  <2>1. /\ Len(Ascending(C \cup {m})) = Len(Ascending(C)) + 1
        /\ \A k \in 1 .. Len(Ascending(C)) : Ascending(C \cup {m})[k] = Ascending(C)[k]
        /\ Ascending(C \cup {m})[Len(Ascending(C)) + 1] = m
    BY <1>4, AscendingAdd
  <2> QED
    BY <1>2, <2>1 DEF Orders, C
<1> HIDE DEF o, p, old, new, C
<1>7. ASSUME NEW k \in 1 .. n
      PROVE  new[k] = old[k]
  <2> DEFINE i == o[k] + 1
             j == (IF k = n THEN Len(s) + 1 ELSE o[k + 1]) - 1
  <2>1. k \in 1 .. Len(p) /\ k # Len(p) /\ p[k] = o[k] /\ p[k + 1] = IF k = n THEN Len(s) + 1 ELSE o[k + 1]
    <3>1. CASE k = n
      BY <1>3, <1>4, <3>1
    <3>2. CASE k # n
      <4>1. k + 1 \in 1 .. n
        BY <1>4, <3>2
      <4> QED
        BY <1>3, <1>4, <3>2, <4>1
    <3> QED
      BY <3>1, <3>2
  <2>2. PartAt(t, p, k) = SubSeq(t, i, j) /\ PartAt(s, o, k) = SubSeq(s, i, j)
    BY <2>1 DEF PartAt
  <2>3. i \in 1 .. Len(s) + 1 /\ (j \in 0 .. Len(s) \/ j = -1)
    <3>0. o[k] \in 0 .. Len(s)
      BY <1>4
    <3>1. CASE k = n
      BY <1>1, <3>0, <3>1
    <3>2. CASE k # n
      <4>1. k + 1 \in 1 .. n
        BY <1>4, <3>2
      <4>2. o[k + 1] \in 0 .. Len(s)
        BY <1>4, <4>1
      <4> QED
        BY <1>1, <3>0, <3>2, <4>2
    <3> QED
      BY <3>1, <3>2
  <2> HIDE DEF i, j
  <2>5. CASE j = -1
    <3>1. j \in Int /\ i \in Int /\ j < i
      BY <2>3, <2>5, <1>1
    <3>2. SubSeq(t, i, j) = <<>> /\ SubSeq(s, i, j) = <<>>
      BY <3>1, SubSeqEmpty
    <3> QED
      BY <1>5, <1>6, <2>1, <2>2, <3>2
  <2>6. CASE j \in 0 .. Len(s)
    BY <1>d, <1>5, <1>6, <2>1, <2>2, <2>3, <2>6
  <2> QED
    BY <2>3, <2>5, <2>6
<1>8. new[n + 1] = <<>>
  <2>1. n + 1 \in 1 .. Len(p)
    BY <1>3, <1>4
  <2>2. PartAt(t, p, n + 1) = SubSeq(t, m + 1, m)
    <3>1. (Len(s) + 1) + 1 - 1 = m
      BY <1>1
    <3> QED
      BY <1>1, <1>3, <3>1 DEF PartAt
  <2>3. SubSeq(t, m + 1, m) = <<>>
    <3>1. m + 1 \in Int /\ m \in Int /\ m < m + 1
      BY <1>1
    <3> QED
      BY <3>1, SubSeqEmpty
  <2> QED
    BY <1>6, <2>1, <2>2, <2>3
<1> QED
  BY <1>3, <1>5, <1>6, <1>7, <1>8 DEF old, new, t

\* Nothing has one part, nothing.
LEMMA PartsEmpty ==
  ASSUME NEW seps
  PROVE  Len(Parts(<<>>, seps)) = 1 /\ Parts(<<>>, seps)[1] = <<>>
<1> DEFINE s == <<>>
           C == Cuts(s, seps)
           o == Orders(s, seps)
<1>1. s \in Seq(Byte) /\ Len(s) = 0 /\ DOMAIN s = {}
  OBVIOUS
<1>2. C = {0}
  BY <1>1 DEF Cuts
<1>3. Cardinality({0}) = 1
  BY FS_Singleton
<1>4. C \subseteq Nat /\ Counted(C)
  BY <1>1, CutsCounted
<1> HIDE DEF s, C
<1>5. Len(Ascending(C)) = 1 /\ Ascending(C)[1] \in C
  <2>1. /\ Len(Ascending(C)) = Cardinality(C)
        /\ \A k \in 1 .. Cardinality(C) : Ascending(C)[k] \in C
    BY <1>4, AscendingMembers
  <2> QED
    BY <1>2, <1>3, <2>1
<1>6. Len(o) = 1 /\ o[1] = 0
  BY <1>2, <1>5 DEF Orders, C
<1>7. Len(Parts(s, seps)) = 1 /\ Parts(s, seps)[1] = PartAt(s, o, 1)
  <2>1. /\ Len(Parts(s, seps)) = Len(o)
        /\ \A k \in 1 .. Len(o) : Parts(s, seps)[k] = PartAt(s, o, k)
    BY <1>1, PartsForm
  <2> HIDE DEF o
  <2> QED
    BY <1>6, <2>1
<1>8. PartAt(s, o, 1) = SubSeq(s, 1, 0)
  BY <1>1, <1>6 DEF PartAt
<1>9. SubSeq(s, 1, 0) = <<>>
  BY SubSeqEmpty
<1> QED
  BY <1>7, <1>8, <1>9 DEF s

\* Whether a text has a byte, and of which bytes it is, one byte later.
LEMMA HasMore ==
  ASSUME NEW s \in Seq(Byte), NEW b \in Byte, NEW c
  PROVE  Has(Append(s, b), c) <=> Has(s, c) \/ b = c
<1>1. /\ Len(s) \in Nat /\ DOMAIN s = 1 .. Len(s) /\ DOMAIN Append(s, b) = 1 .. Len(s) + 1
      /\ \A i \in 1 .. Len(s) : Append(s, b)[i] = s[i]
      /\ Append(s, b)[Len(s) + 1] = b
  BY AppendType
<1>2. ToSet(Append(s, b)) = ToSet(s) \cup {b}
  <2>1. 1 .. Len(s) + 1 = (1 .. Len(s)) \cup {Len(s) + 1} /\ Len(s) + 1 \in 1 .. Len(s) + 1
    BY <1>1
  <2> QED
    BY <1>1, <2>1 DEF ToSet
<1> QED
  BY <1>2 DEF Has

\* Which bytes a text is made of, one byte later.
LEMMA OnlyMore ==
  ASSUME NEW s \in Seq(Byte), NEW b \in Byte, NEW B
  PROVE  /\ Only(Append(s, b), B) <=> Only(s, B) /\ b \in B
         /\ Nonempty(Append(s, b), B) <=> Only(s, B) /\ b \in B
         /\ Only(s, B) <=> s = <<>> \/ Nonempty(s, B)
         /\ ~Nonempty(<<>>, B)
<1>1. /\ Len(s) \in Nat /\ DOMAIN s = 1 .. Len(s) /\ DOMAIN Append(s, b) = 1 .. Len(s) + 1
      /\ \A i \in 1 .. Len(s) : Append(s, b)[i] = s[i]
      /\ Append(s, b)[Len(s) + 1] = b
      /\ Append(s, b) # <<>>
  BY AppendType
<1>2. ToSet(Append(s, b)) = ToSet(s) \cup {b}
  <2>1. 1 .. Len(s) + 1 = (1 .. Len(s)) \cup {Len(s) + 1} /\ Len(s) + 1 \in 1 .. Len(s) + 1
    BY <1>1
  <2> QED
    BY <1>1, <2>1 DEF ToSet
<1>3. ToSet(<<>>) = {}
  BY DEF ToSet
<1> QED
  BY <1>1, <1>2, <1>3 DEF Only, Nonempty

\* The first byte of a text.
LEMMA FirstMore ==
  ASSUME NEW s \in Seq(Byte), NEW b \in Byte
  PROVE  /\ s = <<>> => Append(s, b)[1] = b /\ Len(Append(s, b)) = 1
         /\ s # <<>> => Append(s, b)[1] = s[1] /\ Len(s) >= 1
         /\ Len(s) = 0 <=> s = <<>>
<1>1. /\ Len(s) \in Nat /\ Len(Append(s, b)) = Len(s) + 1
      /\ \A i \in 1 .. Len(s) : Append(s, b)[i] = s[i]
      /\ Append(s, b)[Len(s) + 1] = b
  BY AppendType
<1>2. Len(s) = 0 <=> s = <<>>
  OBVIOUS
<1> QED
  BY <1>1, <1>2

\* The rest of a text.
LEMMA TailMore ==
  ASSUME NEW s \in Seq(Byte), NEW b \in Byte, s # <<>>
  PROVE  Tail(Append(s, b)) = Append(Tail(s), b) /\ Tail(s) \in Seq(Byte)
<1>1. /\ Len(s) \in Nat /\ Len(Append(s, b)) = Len(s) + 1 /\ Append(s, b) \in Seq(Byte)
      /\ Append(s, b) # <<>>
  BY AppendType
<1>2. Tail(s) = SubSeq(s, 2, Len(s)) /\ Tail(s) \in Seq(Byte)
  BY TailIsSubSeq, HeadTailProperties
<1>3. Tail(Append(s, b)) = SubSeq(Append(s, b), 2, Len(s) + 1)
  BY <1>1, TailIsSubSeq
<1>4. 2 \in 1 .. Len(s) + 1 /\ 0 \in 0 .. Len(s)
  BY <1>1, FirstMore
<1>5. SubSeq(Append(s, b), 2, Len(s) + 1) = Append(SubSeq(s, 2, Len(s)), b)
  BY <1>4, SubSeqAppend
<1> QED
  BY <1>2, <1>3, <1>5

\* Without a separator a text is one part; with one it is more.
LEMMA PartsOne ==
  ASSUME NEW s \in Seq(Byte), NEW c
  PROVE  /\ ~Has(s, c) => Len(Parts(s, {c})) = 1 /\ Parts(s, {c})[1] = s
         /\ Has(s, c) => /\ Len(Parts(s, {c})) >= 2
                         /\ Len(Parts(s, {c})[1]) < Len(s)
<1> DEFINE C == Cuts(s, {c})
           o == Orders(s, {c})
           P == Parts(s, {c})
<1>1. /\ C \subseteq Nat /\ Counted(C) /\ Len(s) \in Nat /\ o \in Seq(0 .. Len(s)) /\ Len(o) \in Nat \ {0}
  BY CutsCounted
<1>2. DOMAIN s = 1 .. Len(s)
  OBVIOUS
<1>3. Len(P) = Len(o) /\ \A k \in 1 .. Len(o) : P[k] = PartAt(s, o, k)
  BY PartsForm
<1>4. o = Ascending(C) /\ Len(o) = Cardinality(C)
      /\ \A k \in 1 .. Cardinality(C) : o[k] \in C
  BY <1>1, AscendingMembers DEF Orders
<1>5. Has(s, c) <=> \E i \in 1 .. Len(s) : s[i] = c
  BY <1>2 DEF Has, ToSet
<1>6. C = {0} \cup {i \in 1 .. Len(s) : s[i] = c}
  BY <1>2 DEF Cuts
<1> HIDE DEF C, o, P
<1>7. ASSUME ~Has(s, c)
      PROVE  Len(P) = 1 /\ P[1] = s
  <2>1. C = {0}
    BY <1>5, <1>6, <1>7
  <2>2. Len(o) = 1 /\ o[1] = 0
    <3>1. Cardinality({0}) = 1
      BY FS_Singleton
    <3> QED
      BY <1>4, <2>1, <3>1
  <2>3. P[1] = SubSeq(s, 1, Len(s))
    <3>1. P[1] = PartAt(s, o, 1)
      BY <1>3, <2>2
    <3>2. (Len(s) + 1) - 1 = Len(s)
      BY <1>1
    <3> QED
      BY <2>2, <3>1, <3>2 DEF PartAt
  <2> QED
    BY <1>3, <2>2, <2>3, SubSeqFull
<1>8. ASSUME Has(s, c)
      PROVE  Len(P) >= 2 /\ Len(P[1]) < Len(s)
  <2>1. PICK i \in 1 .. Len(s) : s[i] = c
    BY <1>5, <1>8
  <2>2. 0 \in C /\ i \in C /\ i # 0
    BY <1>6, <2>1
  <2>3. Cardinality(C) # 1
    <3>1. IsFiniteSet(C)
      BY <1>1 DEF Counted
    <3> QED
      BY <2>2, <3>1, FS_Singleton
  <2>4. Len(o) >= 2
    BY <1>1, <1>4, <2>3
  <2>5. P[1] = SubSeq(s, o[1] + 1, o[2] - 1)
    BY <1>1, <1>3, <2>4 DEF PartAt
  <2>6. o[1] \in 0 .. Len(s) /\ o[2] \in 0 .. Len(s)
    BY <1>1, <2>4
  <2>7. Len(s) >= 1
    BY <2>1
  <2> DEFINE x == o[1] + 1
             y == o[2] - 1
  <2>8. x \in 1 .. Len(s) + 1 /\ y \in -1 .. Len(s) - 1
    <3> DEFINE u == o[1]
               v == o[2]
               l == Len(s)
    <3>1. u \in 0 .. l /\ v \in 0 .. l /\ l \in Nat /\ x = u + 1 /\ y = v - 1
      BY <1>1, <2>6
    <3> HIDE DEF u, v, l, x, y
    <3>2. x \in 1 .. l + 1 /\ y \in -1 .. l - 1
      BY <3>1
    <3> QED
      BY <3>2 DEF l
  <2>9. P[1] = SubSeq(s, x, y)
    BY <2>5
  <2> HIDE DEF x, y
  <2>10. Len(SubSeq(s, x, y)) = IF x <= y THEN y - x + 1 ELSE 0
    BY <1>1, <2>8
  <2> QED
    BY <1>1, <1>3, <2>4, <2>7, <2>8, <2>9, <2>10
<1> QED
  BY <1>7, <1>8 DEF P

\* What comes before, and after, the first c: all of s, or nothing.
LEMMA CutType ==
  ASSUME NEW s \in Seq(Byte), NEW c
  PROVE  /\ Before(s, {c}) \in Seq(Byte) /\ After(s, {c}) \in Seq(Byte)
         /\ ~Has(s, c) => Before(s, {c}) = s /\ After(s, {c}) = <<>>
         /\ Has(s, c) => Len(Before(s, {c})) + 1 + Len(After(s, {c})) = Len(s)
<1> DEFINE p == Before(s, {c})
           n == Len(p)
<1>1. p \in Seq(Byte)
  BY PartsType DEF Before
<1>2. n \in Nat /\ Len(s) \in Nat
  BY <1>1
<1>3. After(s, {c}) = SubSeq(s, n + 2, Len(s))
  BY DEF After
<1>4. ~Has(s, c) => p = s
  BY PartsOne DEF Before
<1>5. Has(s, c) => n < Len(s)
  BY PartsOne DEF Before
<1> HIDE DEF p
<1>6. SubSeq(s, n + 2, Len(s)) \in Seq(Byte)
  BY <1>2
<1>7. ASSUME ~Has(s, c)
      PROVE  SubSeq(s, n + 2, Len(s)) = <<>>
  <2>1. n + 2 \in Int /\ Len(s) \in Int /\ Len(s) < n + 2
    BY <1>2, <1>4, <1>7
  <2> QED
    BY <2>1, SubSeqEmpty
<1>8. ASSUME Has(s, c)
      PROVE  n + 1 + Len(SubSeq(s, n + 2, Len(s))) = Len(s)
  <2>1. Len(SubSeq(s, n + 2, Len(s))) = IF n + 2 <= Len(s) THEN Len(s) - (n + 2) + 1 ELSE 0
    BY <1>2
  <2>2. n < Len(s)
    BY <1>5, <1>8
  <2> DEFINE l == Len(SubSeq(s, n + 2, Len(s)))
             m == Len(s)
  <2>3. l = IF n + 2 <= m THEN m - (n + 2) + 1 ELSE 0
    BY <2>1
  <2>4. n \in Nat /\ m \in Nat /\ n < m
    BY <1>2, <2>2
  <2> HIDE DEF l, m, n
  <2>5. n + 1 + l = m
    BY <2>3, <2>4
  <2> QED
    BY <2>5 DEF l, m, n
<1> QED
  BY <1>1, <1>3, <1>4, <1>6, <1>7, <1>8 DEF p

\* One byte later.
LEMMA CutMore ==
  ASSUME NEW s \in Seq(Byte), NEW b \in Byte, NEW c
  PROVE  LET t == Append(s, b) IN
         /\ Has(t, c) <=> Has(s, c) \/ b = c
         /\ Has(s, c) => /\ Before(t, {c}) = Before(s, {c})
                         /\ After(t, {c}) = Append(After(s, {c}), b)
         /\ ~Has(s, c) /\ b = c => Before(t, {c}) = s /\ After(t, {c}) = <<>>
         /\ ~Has(s, c) /\ b # c => Before(t, {c}) = t /\ After(t, {c}) = <<>>
<1> DEFINE t == Append(s, b)
           P == Parts(s, {c})
           Q == Parts(t, {c})
<1>1. Has(t, c) <=> Has(s, c) \/ b = c
  BY HasMore
<1>2. t \in Seq(Byte) /\ Len(t) = Len(s) + 1 /\ Len(s) \in Nat
  BY AppendType
<1>3. Len(P) \in Nat \ {0} /\ P \in Seq(Seq(Byte))
  BY PartsType
<1>4. b \notin {c} => Len(Q) = Len(P) /\ \A k \in 1 .. Len(P) - 1 : Q[k] = P[k]
  BY PartsMore
<1>5. b \in {c} => Len(Q) = Len(P) + 1 /\ \A k \in 1 .. Len(P) : Q[k] = P[k]
  BY PartsCut
<1>6. /\ ~Has(s, c) => Len(P) = 1 /\ P[1] = s
      /\ Has(s, c) => Len(P) >= 2 /\ Len(P[1]) < Len(s)
  BY PartsOne
<1>7. /\ Before(s, {c}) = P[1] /\ Before(t, {c}) = Q[1]
      /\ After(s, {c}) = SubSeq(s, Len(P[1]) + 2, Len(s))
      /\ After(t, {c}) = SubSeq(t, Len(Q[1]) + 2, Len(t))
  BY DEF Before, After
<1>8. ~Has(t, c) => Before(t, {c}) = t /\ After(t, {c}) = <<>>
  BY <1>2, CutType
<1>s. \A i \in 1 .. Len(s) + 1 :
        SubSeq(t, i, Len(s) + 1) = Append(SubSeq(s, i, Len(s)), b)
  <2>1. 0 \in 0 .. Len(s)
    BY <1>2
  <2> QED
    BY <2>1, SubSeqAppend
<1> HIDE DEF t, P, Q
<1>9. ASSUME Has(s, c)
      PROVE  Before(t, {c}) = Before(s, {c}) /\ After(t, {c}) = Append(After(s, {c}), b)
  <2>1. Q[1] = P[1]
    <3>1. 1 \in 1 .. Len(P) - 1 /\ 1 \in 1 .. Len(P)
      BY <1>3, <1>6, <1>9
    <3> QED
      BY <1>4, <1>5, <3>1
  <2>2. Len(P[1]) \in Nat
    BY <1>3
  <2>3. Len(P[1]) + 2 \in 1 .. Len(s) + 1
    BY <1>2, <1>6, <1>9, <2>2
  <2> QED
    BY <1>2, <1>7, <1>s, <2>1, <2>3
<1>10. ASSUME ~Has(s, c), b = c
       PROVE  Before(t, {c}) = s /\ After(t, {c}) = <<>>
  <2>1. Q[1] = s
    BY <1>5, <1>6, <1>10
  <2>2. Len(s) + 2 \in Int /\ Len(t) \in Int /\ Len(t) < Len(s) + 2
    BY <1>2
  <2>3. SubSeq(t, Len(s) + 2, Len(t)) = <<>>
    BY <2>2, SubSeqEmpty
  <2> QED
    BY <1>7, <2>1, <2>3
<1> QED
  BY <1>1, <1>8, <1>9, <1>10 DEF t

\* Nothing has no byte.
LEMMA NothingHas == \A c : ~Has(<<>>, c)
BY DEF Has, ToSet

\* How many parts a text has, and the last of them.
NumParts(s, seps) == Len(Parts(s, seps))
LastPart(s, seps) == Parts(s, seps)[NumParts(s, seps)]

\* The parts of a text one byte longer: a byte more in the last, or one part more.
PartsGrown(s, b, seps) ==
  LET old == Parts(s, seps)
      new == Parts(Append(s, b), seps)
      n == NumParts(s, seps)
  IN  /\ n \in Nat \ {0} /\ LastPart(s, seps) \in Seq(Byte)
      /\ \A k \in 1 .. n : old[k] \in Seq(Byte)
      /\ b \notin seps => /\ NumParts(Append(s, b), seps) = n
                          /\ LastPart(Append(s, b), seps) = Append(LastPart(s, seps), b)
                          /\ \A k \in 1 .. n - 1 : new[k] = old[k]
      /\ b \in seps => /\ NumParts(Append(s, b), seps) = n + 1
                       /\ LastPart(Append(s, b), seps) = <<>>
                       /\ \A k \in 1 .. n : new[k] = old[k]
  
\* That is what they are.
LEMMA PartsGrow ==
  ASSUME NEW s \in Seq(Byte), NEW b \in Byte, NEW seps
  PROVE  PartsGrown(s, b, seps)
<1> DEFINE old == Parts(s, seps)
           new == Parts(Append(s, b), seps)
           n == NumParts(s, seps)
<1>1. Len(old) \in Nat \ {0} /\ old \in Seq(Seq(Byte))
  BY PartsType
<1>2. n = Len(old) /\ LastPart(s, seps) = old[n]
      /\ NumParts(Append(s, b), seps) = Len(new)
      /\ LastPart(Append(s, b), seps) = new[Len(new)]
  BY DEF NumParts, LastPart
<1>3. b \notin seps => /\ Len(new) = Len(old)
                       /\ \A k \in 1 .. Len(old) - 1 : new[k] = old[k]
                       /\ new[Len(old)] = Append(old[Len(old)], b)
  BY PartsMore
<1>4. b \in seps => /\ Len(new) = Len(old) + 1
                    /\ \A k \in 1 .. Len(old) : new[k] = old[k]
                    /\ new[Len(old) + 1] = <<>>
  BY PartsCut
<1> HIDE DEF old, new
<1>5. \A k \in 1 .. Len(old) : old[k] \in Seq(Byte)
  BY <1>1
<1>6. Len(old) \in 1 .. Len(old)
  BY <1>1
<1> QED
  BY <1>1, <1>2, <1>3, <1>4, <1>5, <1>6 DEF old, new, PartsGrown

\* No bytes are one part, an empty one.
LEMMA PartsNothing ==
  ASSUME NEW seps
  PROVE  NumParts(<<>>, seps) = 1 /\ LastPart(<<>>, seps) = <<>>
BY PartsEmpty DEF NumParts, LastPart

\* One part is all of the text.
LEMMA PartsAlone ==
  ASSUME NEW s \in Seq(Byte), NEW seps, NumParts(s, seps) = 1
  PROVE  LastPart(s, seps) = s
<1> DEFINE C == Cuts(s, seps)
           o == Orders(s, seps)
           P == Parts(s, seps)
<1>1. /\ C \subseteq Nat /\ Counted(C) /\ Len(s) \in Nat /\ o \in Seq(0 .. Len(s)) /\ Len(o) \in Nat \ {0}
  BY CutsCounted
<1>3. Len(P) = Len(o) /\ \A k \in 1 .. Len(o) : P[k] = PartAt(s, o, k)
  BY PartsForm
<1>4. o = Ascending(C) /\ Len(o) = Cardinality(C)
      /\ \A k \in 1 .. Cardinality(C) : o[k] \in C
  BY <1>1, AscendingMembers DEF Orders
<1>5. 0 \in C
  BY DEF Cuts
<1>6. Len(P) = 1 /\ LastPart(s, seps) = P[1]
  BY DEF NumParts, LastPart
<1> HIDE DEF C, o, P
<1>7. C = {0}
  <2>1. Cardinality(C) = 1 /\ IsFiniteSet(C)
    BY <1>1, <1>3, <1>4, <1>6 DEF Counted
  <2>2. \E x : C = {x}
    BY <2>1, FS_Singleton
  <2> QED
    BY <1>5, <2>2
<1>8. Len(o) = 1 /\ o[1] = 0
  <2>1. o[1] \in C
    <3>1. Cardinality(C) = 1
      BY <1>7, FS_Singleton
    <3>2. 1 \in 1 .. 1
      OBVIOUS
    <3>3. 1 \in 1 .. Cardinality(C)
      BY <3>1, <3>2
    <3> QED
      BY <1>4, <3>3
  <2> QED
    BY <1>3, <1>6, <1>7, <2>1
<1>9. P[1] = SubSeq(s, 1, Len(s))
  <2>1. P[1] = PartAt(s, o, 1)
    BY <1>3, <1>8
  <2>2. (Len(s) + 1) - 1 = Len(s)
    BY <1>1
  <2> QED
    BY <1>8, <2>1, <2>2 DEF PartAt
<1> QED
  BY <1>6, <1>9, SubSeqFull

-----------------------------------------------------------------------------
(* Host names.                                                              *)

\* What parts a host name, a part up to such a byte, and: are all parts but the
\* last such?
Cutters == {".", "/"}
Label(s) == Nonempty(s, Alnum \cup {"-"}) /\ s[1] # "-"
ShortBefore(x) == \A k \in 1 .. NumParts(x, Cutters) - 1 : IsShortname(Parts(x, Cutters)[k])

\* Positions a text that begins a host name leads to: in a label, after a star,
\* after a dot or slash; the first of them is told from the others.
HostLeads(where, x, p) ==
  LET n == NumParts(x, Cutters)
      z == LastPart(x, Cutters)
      ordinal == IF n = 1 THEN 1 ELSE 2
  IN
  /\ ShortBefore(x)
  /\ \/ p = <<where, "label", ordinal>> /\ Label(z)
     \/ p = <<where, "star", ordinal>> /\ z = <<"*">>
     \/ p = <<where, "dot", IF n = 2 THEN 1 ELSE 2>> /\ n >= 2 /\ z = <<>>

\* The edges of a host name, from its beginning and within.
HostEnter(where, b, q) ==
  \/ b \in Alnum /\ q = <<where, "label", 1>>
  \/ b = "*" /\ q = <<where, "star", 1>>
HostOn(where, p, b, q) ==
  \E n \in 1 .. 2 :
    \/ p = <<where, "label", n>> /\ b \in Alnum \cup {"-"} /\ q = <<where, "label", n>>
    \/ p = <<where, "label", n>> /\ b \in {".", "/"} /\ q = <<where, "dot", n>>
    \/ p = <<where, "star", n>> /\ b \in {".", "/"} /\ q = <<where, "dot", n>>
    \/ p = <<where, "dot", n>> /\ b \in Alnum /\ q = <<where, "label", 2>>
    \/ p = <<where, "dot", n>> /\ b = "*" /\ q = <<where, "star", 2>>

\* Letters and digits are no marks.
LEMMA NoMarks ==
  /\ \A c \in Alnum \cup Special \cup Odd \cup {Nul} : c \notin Marks
  /\ \A c \in Alnum : c \notin Cutters /\ c # "*" /\ c # "-" /\ c # ":" /\ c # "@" /\ c # "!"
                      /\ c # " " /\ c # "." /\ c # "\r" /\ c # "\n"
  /\ \A c \in Special : c \notin Cutters /\ c # "*" /\ c # "-" /\ c # ":" /\ c # "@" /\ c # "!"
                      /\ c # " " /\ c # "." /\ c # "\r" /\ c # "\n"
  /\ "*" \notin Cutters /\ "-" \notin Cutters
<1>1. \A c \in Alnum \cup Special \cup Odd \cup {Nul} : c \notin Marks
  BY IrcsmAssumption
<1>2. {" ", ":", "\r", "\n", "!", "@", ".", "/", "-", "*"} = Marks
  BY DEF Marks
<1> QED
  BY <1>1, <1>2 DEF Cutters

\* A label, one byte later; and a star.
LEMMA LabelMore ==
  ASSUME NEW z \in Seq(Byte), NEW b \in Byte
  PROVE  /\ Label(Append(z, b)) <=> (z = <<>> /\ b \in Alnum) \/ (Label(z) /\ b \in Alnum \cup {"-"})
         /\ Append(z, b) = <<"*">> <=> z = <<>> /\ b = "*"
         /\ ~Label(<<>>) /\ <<"*">> # <<>> /\ Append(z, b) # <<>>
         /\ ~Label(<<"*">>)
<1>1. /\ Nonempty(Append(z, b), Alnum \cup {"-"}) <=> Only(z, Alnum \cup {"-"}) /\ b \in Alnum \cup {"-"}
      /\ Only(z, Alnum \cup {"-"}) <=> z = <<>> \/ Nonempty(z, Alnum \cup {"-"})
      /\ ~Nonempty(<<>>, Alnum \cup {"-"})
  BY OnlyMore
<1>2. /\ z = <<>> => Append(z, b)[1] = b /\ Len(Append(z, b)) = 1
      /\ z # <<>> => Append(z, b)[1] = z[1] /\ Len(z) >= 1
  BY FirstMore
<1>3. Append(z, b) # <<>> /\ Len(Append(z, b)) = Len(z) + 1 /\ Len(z) \in Nat
  BY AppendType
<1>4. \A c \in Alnum : c # "-"
  BY NoMarks
<1>5. Append(z, b) = <<"*">> <=> z = <<>> /\ b = "*"
  <2>1. ASSUME Append(z, b) = <<"*">>
        PROVE  z = <<>> /\ b = "*"
    <3>1. Len(Append(z, b)) = 1
      BY <2>1
    <3>2. z = <<>>
      BY <1>2, <1>3, <3>1
    <3> QED
      BY <1>2, <2>1, <3>2
  <2>2. z = <<>> /\ b = "*" => Append(z, b) = <<"*">>
    OBVIOUS
  <2> QED
    BY <2>1, <2>2
<1>6. "*" \notin Alnum \cup {"-"}
  BY NoMarks
<1>7. ~Label(<<"*">>)
  BY <1>6 DEF Label, Nonempty, Only, ToSet
<1> QED
  BY <1>1, <1>2, <1>3, <1>4, <1>5, <1>7 DEF Label

\* Where a host name leads, one byte later: along an edge.
LEMMA HostnameMore ==
  ASSUME NEW where, NEW x \in Seq(Byte), NEW b \in Byte, NEW q
  PROVE  HostLeads(where, Append(x, b), q) <=>
           \/ x = <<>> /\ HostEnter(where, b, q)
           \/ \E p : HostLeads(where, x, p) /\ HostOn(where, p, b, q)
<1> DEFINE y == Append(x, b)
           n == NumParts(x, Cutters)
           z == LastPart(x, Cutters)
           m == NumParts(y, Cutters)
           w == LastPart(y, Cutters)
<1>1. /\ n \in Nat \ {0} /\ z \in Seq(Byte)
      /\ b \notin Cutters => /\ m = n
                             /\ w = Append(z, b)
                             /\ \A k \in 1 .. n - 1 : Parts(y, Cutters)[k] = Parts(x, Cutters)[k]
      /\ b \in Cutters => /\ m = n + 1
                          /\ w = <<>>
                          /\ \A k \in 1 .. n : Parts(y, Cutters)[k] = Parts(x, Cutters)[k]
  <2> DEFINE S == Cutters
  <2> HIDE DEF S
  <2>1. LET old == Parts(x, S)
            new == Parts(Append(x, b), S)
            l == NumParts(x, S)
        IN  /\ l \in Nat \ {0} /\ LastPart(x, S) \in Seq(Byte)
            /\ b \notin S => /\ NumParts(Append(x, b), S) = l
                             /\ LastPart(Append(x, b), S) = Append(LastPart(x, S), b)
                             /\ \A k \in 1 .. l - 1 : new[k] = old[k]
            /\ b \in S => /\ NumParts(Append(x, b), S) = l + 1
                          /\ LastPart(Append(x, b), S) = <<>>
                          /\ \A k \in 1 .. l : new[k] = old[k]
    <3>1. PartsGrown(x, b, S)
      BY PartsGrow
    <3> QED
      BY <3>1 DEF PartsGrown
  <2> QED
    BY <2>1 DEF S
<1>x. x = <<>> => n = 1 /\ z = <<>>
  BY PartsNothing
<1>y. n = 1 => Parts(x, Cutters)[1] = z
  BY DEF LastPart, NumParts
<1>z. Parts(x, Cutters)[n] = z
  BY DEF LastPart, NumParts
<1>2. /\ Label(Append(z, b)) <=> (z = <<>> /\ b \in Alnum) \/ (Label(z) /\ b \in Alnum \cup {"-"})
      /\ Append(z, b) = <<"*">> <=> z = <<>> /\ b = "*"
      /\ ~Label(<<>>) /\ <<"*">> # <<>> /\ Append(z, b) # <<>>
      /\ ~Label(<<"*">>)
  BY <1>1, LabelMore
<1>3. b \notin Cutters => (ShortBefore(y) <=> ShortBefore(x))
  BY <1>1 DEF ShortBefore
<1>4. b \in Cutters => (ShortBefore(y) <=> ShortBefore(x) /\ (z = <<"*">> \/ Label(z)))
  <2> SUFFICES ASSUME b \in Cutters
               PROVE  ShortBefore(y) <=> ShortBefore(x) /\ IsShortname(z)
    BY DEF IsShortname, Label
  <2>1. m - 1 = n
    BY <1>1
  <2>2. ShortBefore(y) <=> \A k \in 1 .. n : IsShortname(Parts(y, Cutters)[k])
    BY <2>1 DEF ShortBefore
  <2>3. ShortBefore(y) <=> \A k \in 1 .. n : IsShortname(Parts(x, Cutters)[k])
    BY <1>1, <2>2
  <2>4. \A k : k \in 1 .. n <=> k \in 1 .. n - 1 \/ k = n
    BY <1>1
  <2> QED
    BY <2>3, <2>4, <1>z DEF ShortBefore
<1>5. n = 1 /\ z = <<>> => x = <<>>
  BY PartsAlone
<1>6. n = 1 => ShortBefore(x)
  BY DEF ShortBefore
<1>7. /\ \A c \in Alnum : c \notin Cutters /\ c # "*" /\ c # "-"
      /\ "*" \notin Cutters /\ "-" \notin Cutters /\ Cutters = {".", "/"}
  BY NoMarks DEF Cutters
<1> DEFINE i == IF n = 1 THEN 1 ELSE 2
           d == IF n = 2 THEN 1 ELSE 2
           j == IF m = 1 THEN 1 ELSE 2
           c == IF m = 2 THEN 1 ELSE 2
<1>8. \A p : HostLeads(where, x, p) <=>
        /\ ShortBefore(x)
        /\ \/ p = <<where, "label", i>> /\ Label(z)
           \/ p = <<where, "star", i>> /\ z = <<"*">>
           \/ p = <<where, "dot", d>> /\ n >= 2 /\ z = <<>>
  BY DEF HostLeads
<1>9. HostLeads(where, y, q) <=>
        /\ ShortBefore(y)
        /\ \/ q = <<where, "label", j>> /\ Label(w)
           \/ q = <<where, "star", j>> /\ w = <<"*">>
           \/ q = <<where, "dot", c>> /\ m >= 2 /\ w = <<>>
  BY DEF HostLeads
<1>10. /\ i \in 1 .. 2 /\ d \in 1 .. 2 /\ (n >= 2 => i = 2)
       /\ (m = n => j = i) /\ (m = n + 1 => c = i /\ m >= 2)
  BY <1>1
<1> HIDE DEF y, n, z, m, w, i, d, j, c
<1>11. CASE b \notin Cutters
  <2>1. m = n /\ j = i /\ w = Append(z, b) /\ (ShortBefore(y) <=> ShortBefore(x))
    BY <1>1, <1>3, <1>10, <1>11
  <2>2. HostLeads(where, y, q) <=>
          /\ ShortBefore(x)
          /\ \/ q = <<where, "label", i>> /\ ((z = <<>> /\ b \in Alnum) \/ (Label(z) /\ b \in Alnum \cup {"-"}))
             \/ q = <<where, "star", i>> /\ z = <<>> /\ b = "*"
    BY <1>2, <1>9, <2>1
  <2>3. ASSUME HostLeads(where, y, q)
        PROVE  \/ x = <<>> /\ HostEnter(where, b, q)
               \/ \E p : HostLeads(where, x, p) /\ HostOn(where, p, b, q)
    <3>1. CASE q = <<where, "label", i>> /\ Label(z) /\ b \in Alnum \cup {"-"}
      <4>1. HostLeads(where, x, q)
        BY <1>8, <2>2, <2>3, <3>1
      <4>2. HostOn(where, q, b, q)
        BY <1>10, <3>1 DEF HostOn
      <4> QED
        BY <4>1, <4>2
    <3>2. CASE z = <<>> /\ n = 1
      <4>1. i = 1 /\ ~Label(z)
        BY <1>2, <3>2 DEF i
      <4> QED
        BY <1>5, <2>2, <2>3, <3>2, <4>1 DEF HostEnter
    <3>3. CASE z = <<>> /\ n # 1 /\ ((q = <<where, "label", i>> /\ b \in Alnum) \/ (q = <<where, "star", i>> /\ b = "*"))
      <4>1. HostLeads(where, x, <<where, "dot", d>>)
        BY <1>1, <1>8, <2>2, <2>3, <3>3
      <4>2. i = 2
        BY <3>3 DEF i
      <4>3. HostOn(where, <<where, "dot", d>>, b, q)
        BY <1>10, <3>3, <4>2 DEF HostOn
      <4> QED
        BY <4>1, <4>3
    <3> QED
      BY <1>2, <2>2, <2>3, <3>1, <3>2, <3>3
  <2>4. ASSUME x = <<>>, HostEnter(where, b, q)
        PROVE  HostLeads(where, y, q)
    <3>1. n = 1 /\ z = <<>> /\ i = 1
      BY <1>x, <2>4 DEF i
    <3> QED
      BY <1>6, <2>2, <2>4, <3>1 DEF HostEnter
  <2>5. ASSUME NEW p, HostLeads(where, x, p), HostOn(where, p, b, q)
        PROVE  HostLeads(where, y, q)
    <3>1. PICK k \in 1 .. 2 :
            \/ p = <<where, "label", k>> /\ b \in Alnum \cup {"-"} /\ q = <<where, "label", k>>
            \/ p = <<where, "dot", k>> /\ b \in Alnum /\ q = <<where, "label", 2>>
            \/ p = <<where, "dot", k>> /\ b = "*" /\ q = <<where, "star", 2>>
      BY <1>11, <1>7, <2>5 DEF HostOn
    <3>2. CASE p = <<where, "label", k>> /\ b \in Alnum \cup {"-"} /\ q = <<where, "label", k>>
      <4>1. k = i /\ Label(z) /\ ShortBefore(x)
        BY <1>8, <2>5, <3>2
      <4> QED
        BY <2>2, <3>2, <4>1
    <3>3. CASE p = <<where, "dot", k>>
      <4>1. n >= 2 /\ z = <<>> /\ ShortBefore(x)
        BY <1>8, <2>5, <3>3
      <4>2. i = 2
        BY <1>10, <4>1
      <4> QED
        BY <2>2, <3>1, <3>3, <4>1, <4>2
    <3> QED
      BY <3>1, <3>2, <3>3
  <2> QED
    BY <2>3, <2>4, <2>5 DEF y
<1>12. CASE b \in Cutters
  <2>1. m = n + 1 /\ c = i /\ m >= 2 /\ w = <<>>
        /\ (ShortBefore(y) <=> ShortBefore(x) /\ (z = <<"*">> \/ Label(z)))
    BY <1>1, <1>4, <1>10, <1>12
  <2>2. HostLeads(where, y, q) <=>
          ShortBefore(x) /\ (z = <<"*">> \/ Label(z)) /\ q = <<where, "dot", i>>
    BY <1>2, <1>9, <2>1
  <2>3. ASSUME HostLeads(where, y, q)
        PROVE  \E p : HostLeads(where, x, p) /\ HostOn(where, p, b, q)
    <3>1. CASE Label(z)
      <4>1. HostLeads(where, x, <<where, "label", i>>)
        BY <1>8, <2>2, <2>3, <3>1
      <4>2. HostOn(where, <<where, "label", i>>, b, q)
        BY <1>12, <1>7, <1>10, <2>2, <2>3 DEF HostOn
      <4> QED
        BY <4>1, <4>2
    <3>2. CASE z = <<"*">>
      <4>1. HostLeads(where, x, <<where, "star", i>>)
        BY <1>8, <2>2, <2>3, <3>2
      <4>2. HostOn(where, <<where, "star", i>>, b, q)
        BY <1>12, <1>7, <1>10, <2>2, <2>3 DEF HostOn
      <4> QED
        BY <4>1, <4>2
    <3> QED
      BY <2>2, <2>3, <3>1, <3>2
  <2>4. ~HostEnter(where, b, q)
    BY <1>12, <1>7 DEF HostEnter
  <2>5. ASSUME NEW p, HostLeads(where, x, p), HostOn(where, p, b, q)
        PROVE  HostLeads(where, y, q)
    <3>1. PICK k \in 1 .. 2 :
            \/ p = <<where, "label", k>> /\ q = <<where, "dot", k>>
            \/ p = <<where, "star", k>> /\ q = <<where, "dot", k>>
      BY <1>12, <1>7, <2>5 DEF HostOn
    <3>2. ShortBefore(x) /\ k = i /\ (z = <<"*">> \/ Label(z))
      BY <1>8, <2>5, <3>1
    <3> QED
      BY <2>2, <3>1, <3>2
  <2> QED
    BY <2>3, <2>4, <2>5 DEF y
<1> QED
  BY <1>11, <1>12 DEF y

\* A host name is a text that leads to an end of one.
LEMMA HostnameAtEnd ==
  ASSUME NEW where, NEW x \in Seq(Byte)
  PROVE  IsHostname(x) <=> \E p \in HostnameEnds(where) : HostLeads(where, x, p)
<1> DEFINE P == Parts(x, Cutters)
           n == NumParts(x, Cutters)
           z == LastPart(x, Cutters)
           i == IF n = 1 THEN 1 ELSE 2
           d == IF n = 2 THEN 1 ELSE 2
<1>1. n \in Nat \ {0} /\ n = Len(P) /\ z = P[n] /\ DOMAIN P = 1 .. n
  BY PartsType DEF NumParts, LastPart
<1>2. IsHostname(x) <=> \/ \A k \in 1 .. n : IsShortname(P[k])
                        \/ n = 2 /\ IsShortname(P[1]) /\ P[2] = <<>>
  BY <1>1 DEF IsHostname, Cutters
<1>3. (\A k \in 1 .. n : IsShortname(P[k])) <=> ShortBefore(x) /\ (Label(z) \/ z = <<"*">>)
  <2>1. \A k : k \in 1 .. n <=> k \in 1 .. n - 1 \/ k = n
    BY <1>1
  <2>2. IsShortname(z) <=> Label(z) \/ z = <<"*">>
    BY DEF IsShortname, Label
  <2>3. ShortBefore(x) <=> \A k \in 1 .. n - 1 : IsShortname(P[k])
    BY DEF ShortBefore
  <2> HIDE DEF P, n, z
  <2> QED
    BY <1>1, <2>1, <2>2, <2>3
<1>4. n = 2 => (ShortBefore(x) <=> IsShortname(P[1]))
  <2> SUFFICES ASSUME n = 2
               PROVE  ShortBefore(x) <=> IsShortname(P[1])
    OBVIOUS
  <2>1. n - 1 = 1
    OBVIOUS
  <2>2. ShortBefore(x) <=> \A k \in 1 .. 1 : IsShortname(P[k])
    BY <2>1 DEF ShortBefore
  <2> QED
    BY <2>2
<1>5. \A p : HostLeads(where, x, p) <=>
        /\ ShortBefore(x)
        /\ \/ p = <<where, "label", i>> /\ Label(z)
           \/ p = <<where, "star", i>> /\ z = <<"*">>
           \/ p = <<where, "dot", d>> /\ n >= 2 /\ z = <<>>
  BY DEF HostLeads
<1>6. /\ <<where, "label", i>> \in HostnameEnds(where)
      /\ <<where, "star", i>> \in HostnameEnds(where)
      /\ <<where, "dot", 1>> \in HostnameEnds(where)
      /\ <<where, "dot", 2>> \notin HostnameEnds(where)
  BY DEF HostnameEnds
<1>7. d = 1 <=> n = 2
  OBVIOUS
<1>8. d \in 1 .. 2
  OBVIOUS
<1> HIDE DEF P, n, z, i, d
<1>9. ASSUME IsHostname(x)
      PROVE  \E p \in HostnameEnds(where) : HostLeads(where, x, p)
  <2>1. CASE \A k \in 1 .. n : IsShortname(P[k])
    BY <1>3, <1>5, <1>6, <2>1
  <2>2. CASE n = 2 /\ IsShortname(P[1]) /\ P[2] = <<>>
    BY <1>1, <1>4, <1>5, <1>6, <1>7, <2>2
  <2> QED
    BY <1>2, <1>9, <2>1, <2>2
<1>10. ASSUME NEW p \in HostnameEnds(where), HostLeads(where, x, p)
       PROVE  IsHostname(x)
  <2>1. CASE Label(z) \/ z = <<"*">>
    BY <1>2, <1>3, <1>5, <1>10, <2>1
  <2>2. CASE p = <<where, "dot", d>> /\ n >= 2 /\ z = <<>>
    <3>1. n = 2
      BY <1>6, <1>7, <1>8, <1>10, <2>2
    <3> QED
      BY <1>1, <1>2, <1>4, <1>5, <1>10, <2>2, <3>1
  <2> QED
    BY <1>5, <1>10, <2>1, <2>2
<1> QED
  BY <1>9, <1>10

-----------------------------------------------------------------------------
(* Addresses of four numbers.                                               *)

Ip4Digit(i, d) == <<"ip4", "digit", 3 * (i - 1) + d>>
Ip4Dot(i) == <<"ip4", "dot", i>>

\* A number, and: are all parts but the last numbers?
IsNumber(s) == Nonempty(s, Digit) /\ Len(s) <= 3
NumbersBefore(x) == \A k \in 1 .. NumParts(x, {"."}) - 1 : IsNumber(Parts(x, {"."})[k])

Ip4Leads(x, p) ==
  LET n == NumParts(x, {"."})
      z == LastPart(x, {"."})
  IN
  /\ n <= 4 /\ NumbersBefore(x)
  /\ \/ p = Ip4Digit(n, Len(z)) /\ IsNumber(z)
     \/ p = Ip4Dot(n - 1) /\ n >= 2 /\ z = <<>>

Ip4Enter(b, q) == b \in Digit /\ q = Ip4Digit(1, 1)
Ip4On(p, b, q) ==
  \/ \E i \in 1 .. 4, d \in 1 .. 2 : p = Ip4Digit(i, d) /\ b \in Digit /\ q = Ip4Digit(i, d + 1)
  \/ \E i \in 1 .. 3, d \in 1 .. 3 : p = Ip4Digit(i, d) /\ b = "." /\ q = Ip4Dot(i)
  \/ \E i \in 1 .. 3 : p = Ip4Dot(i) /\ b \in Digit /\ q = Ip4Digit(i + 1, 1)

\* The positions of such an address are all different.
LEMMA Ip4Apart ==
  /\ \A i, j, d, e \in Nat : d \in 1 .. 3 /\ e \in 1 .. 3 /\ Ip4Digit(i, d) = Ip4Digit(j, e) => i = j /\ d = e
  /\ \A i, j, d \in Nat : Ip4Digit(i, d) # Ip4Dot(j)
  /\ \A i, j \in Nat : Ip4Dot(i) = Ip4Dot(j) => i = j
<1>1. ASSUME NEW i \in Nat, NEW j \in Nat, NEW d \in 1 .. 3, NEW e \in 1 .. 3,
             Ip4Digit(i, d) = Ip4Digit(j, e)
      PROVE  i = j /\ d = e
  <2>1. 3 * (i - 1) + d = 3 * (j - 1) + e
    BY <1>1 DEF Ip4Digit
  <2> QED
    BY <2>1
<1>2. \A i, j, d \in Nat : Ip4Digit(i, d) # Ip4Dot(j)
  BY DEF Ip4Digit, Ip4Dot
<1>3. \A i, j \in Nat : Ip4Dot(i) = Ip4Dot(j) => i = j
  BY DEF Ip4Dot
<1> QED
  BY <1>1, <1>2, <1>3

\* A number of at most three digits, one byte later.
LEMMA NumberMore ==
  ASSUME NEW z \in Seq(Byte), NEW b \in Byte
  PROVE  /\ IsNumber(Append(z, b)) <=>
              b \in Digit /\ (z = <<>> \/ (IsNumber(z) /\ Len(z) <= 2))
         /\ Append(z, b) # <<>> /\ ~IsNumber(<<>>)
         /\ Len(Append(z, b)) = Len(z) + 1 /\ Len(z) \in Nat /\ (Len(z) = 0 <=> z = <<>>)
<1>1. /\ Nonempty(Append(z, b), Digit) <=> Only(z, Digit) /\ b \in Digit
      /\ Only(z, Digit) <=> z = <<>> \/ Nonempty(z, Digit)
      /\ ~Nonempty(<<>>, Digit)
  BY OnlyMore
<1>2. Append(z, b) # <<>> /\ Len(Append(z, b)) = Len(z) + 1 /\ Len(z) \in Nat
  BY AppendType
<1>3. Len(z) = 0 <=> z = <<>>
  BY FirstMore
<1> QED
  BY <1>1, <1>2, <1>3 DEF IsNumber

\* Where such an address leads, one byte later.
LEMMA Ip4More ==
  ASSUME NEW x \in Seq(Byte), NEW b \in Byte, NEW q
  PROVE  Ip4Leads(Append(x, b), q) <=>
           \/ x = <<>> /\ Ip4Enter(b, q)
           \/ \E p : Ip4Leads(x, p) /\ Ip4On(p, b, q)
<1> DEFINE y == Append(x, b)
           S == {"."}
           n == NumParts(x, S)
           z == LastPart(x, S)
           m == NumParts(y, S)
           w == LastPart(y, S)
<1>0. "." \notin Digit
  BY NoMarks DEF Alnum
<1>1. /\ n \in Nat \ {0} /\ z \in Seq(Byte)
      /\ b \notin S => /\ m = n
                       /\ w = Append(z, b)
                       /\ \A k \in 1 .. n - 1 : Parts(y, S)[k] = Parts(x, S)[k]
      /\ b \in S => /\ m = n + 1
                    /\ w = <<>>
                    /\ \A k \in 1 .. n : Parts(y, S)[k] = Parts(x, S)[k]
  <2> HIDE DEF S
  <2>1. LET old == Parts(x, S)
            new == Parts(Append(x, b), S)
            l == NumParts(x, S)
        IN  /\ l \in Nat \ {0} /\ LastPart(x, S) \in Seq(Byte)
            /\ b \notin S => /\ NumParts(Append(x, b), S) = l
                             /\ LastPart(Append(x, b), S) = Append(LastPart(x, S), b)
                             /\ \A k \in 1 .. l - 1 : new[k] = old[k]
            /\ b \in S => /\ NumParts(Append(x, b), S) = l + 1
                          /\ LastPart(Append(x, b), S) = <<>>
                          /\ \A k \in 1 .. l : new[k] = old[k]
    <3>1. PartsGrown(x, b, S)
      BY PartsGrow
    <3> QED
      BY <3>1 DEF PartsGrown
  <2> QED
    BY <2>1
<1>2. x = <<>> => n = 1 /\ z = <<>>
  BY PartsNothing
<1>3. Parts(x, S)[n] = z
  BY DEF LastPart, NumParts
<1>4. /\ IsNumber(Append(z, b)) <=>
           b \in Digit /\ (z = <<>> \/ (IsNumber(z) /\ Len(z) <= 2))
      /\ Append(z, b) # <<>> /\ ~IsNumber(<<>>)
      /\ Len(Append(z, b)) = Len(z) + 1 /\ Len(z) \in Nat /\ (Len(z) = 0 <=> z = <<>>)
  BY <1>1, NumberMore
<1>5. b # "." => (NumbersBefore(y) <=> NumbersBefore(x))
  BY <1>1 DEF NumbersBefore
<1>6. b = "." => (NumbersBefore(y) <=> NumbersBefore(x) /\ IsNumber(z))
  <2> SUFFICES ASSUME b = "."
               PROVE  NumbersBefore(y) <=> NumbersBefore(x) /\ IsNumber(z)
    OBVIOUS
  <2>1. m - 1 = n
    BY <1>1
  <2>2. NumbersBefore(y) <=> \A k \in 1 .. n : IsNumber(Parts(y, S)[k])
    BY <2>1 DEF NumbersBefore
  <2>3. NumbersBefore(y) <=> \A k \in 1 .. n : IsNumber(Parts(x, S)[k])
    BY <1>1, <2>2
  <2>4. \A k : k \in 1 .. n <=> k \in 1 .. n - 1 \/ k = n
    BY <1>1
  <2> QED
    BY <2>3, <2>4, <1>3 DEF NumbersBefore
<1>7. n = 1 /\ z = <<>> => x = <<>>
  BY PartsAlone
<1>8. n = 1 => NumbersBefore(x)
  BY DEF NumbersBefore
<1>9. \A p : Ip4Leads(x, p) <=>
        /\ n <= 4 /\ NumbersBefore(x)
        /\ \/ p = Ip4Digit(n, Len(z)) /\ IsNumber(z)
           \/ p = Ip4Dot(n - 1) /\ n >= 2 /\ z = <<>>
  BY DEF Ip4Leads
<1>10. Ip4Leads(y, q) <=>
         /\ m <= 4 /\ NumbersBefore(y)
         /\ \/ q = Ip4Digit(m, Len(w)) /\ IsNumber(w)
            \/ q = Ip4Dot(m - 1) /\ m >= 2 /\ w = <<>>
  BY DEF Ip4Leads
<1> HIDE DEF y, S, n, z, m, w
<1>20. IsNumber(z) => Len(z) \in 1 .. 3
  <2>1. IsNumber(z) => Len(z) # 0
    BY <1>4
  <2>2. IsNumber(z) => Len(z) <= 3
    BY DEF IsNumber
  <2>3. Len(z) \in Nat
    BY <1>4
  <2>4. ASSUME NEW l \in Nat, l # 0, l <= 3
        PROVE  l \in 1 .. 3
    BY <2>4
  <2> DEFINE l == Len(z)
  <2> HIDE DEF l
  <2>5. IsNumber(z) => l \in 1 .. 3
    BY <2>1, <2>2, <2>3, <2>4 DEF l
  <2> QED
    BY <2>5 DEF l
<1>11. CASE b # "."
  <2>1. m = n /\ w = Append(z, b) /\ (NumbersBefore(y) <=> NumbersBefore(x))
    BY <1>1, <1>5, <1>11 DEF S
  <2>2. Ip4Leads(y, q) <=>
          /\ n <= 4 /\ NumbersBefore(x)
          /\ q = Ip4Digit(n, Len(z) + 1)
          /\ b \in Digit /\ (z = <<>> \/ (IsNumber(z) /\ Len(z) <= 2))
    BY <1>4, <1>10, <2>1
  <2>3. ASSUME Ip4Leads(y, q)
        PROVE  \/ x = <<>> /\ Ip4Enter(b, q)
               \/ \E p : Ip4Leads(x, p) /\ Ip4On(p, b, q)
    <3>1. CASE IsNumber(z) /\ Len(z) <= 2
      <4>1. Ip4Leads(x, Ip4Digit(n, Len(z)))
        BY <1>9, <2>2, <2>3, <3>1
      <4>2. n \in 1 .. 4 /\ Len(z) \in 1 .. 2
        <5>1. n \in Nat \ {0} /\ n <= 4
          BY <1>1, <2>2, <2>3
        <5>2. Len(z) \in 1 .. 3 /\ Len(z) <= 2
          BY <1>20, <3>1
        <5> DEFINE l == Len(z)
        <5> HIDE DEF l
        <5>3. l \in 1 .. 2
          BY <5>2 DEF l
        <5> QED
          BY <5>1, <5>3 DEF l
      <4>3. Ip4On(Ip4Digit(n, Len(z)), b, q)
        BY <2>2, <2>3, <4>2 DEF Ip4On
      <4> QED
        BY <4>1, <4>3
    <3>2. CASE z = <<>> /\ n = 1
      BY <1>4, <1>7, <2>2, <2>3, <3>2 DEF Ip4Enter
    <3>3. CASE z = <<>> /\ n # 1
      <4>1. n - 1 \in 1 .. 3 /\ n >= 2
        BY <1>1, <2>2, <2>3, <3>3
      <4>2. Ip4Leads(x, Ip4Dot(n - 1))
        BY <1>9, <2>2, <2>3, <3>3, <4>1
      <4>3. q = Ip4Digit((n - 1) + 1, 1)
        BY <1>1, <1>4, <2>2, <2>3, <3>3
      <4>4. Ip4On(Ip4Dot(n - 1), b, q)
        BY <2>2, <2>3, <4>1, <4>3 DEF Ip4On
      <4> QED
        BY <4>2, <4>4
    <3> QED
      BY <2>2, <2>3, <3>1, <3>2, <3>3
  <2>4. ASSUME x = <<>>, Ip4Enter(b, q)
        PROVE  Ip4Leads(y, q)
    BY <1>2, <1>4, <1>8, <2>2, <2>4 DEF Ip4Enter
  <2>5. ASSUME NEW p, Ip4Leads(x, p), Ip4On(p, b, q)
        PROVE  Ip4Leads(y, q)
    <3>1. CASE \E i \in 1 .. 4, d \in 1 .. 2 : p = Ip4Digit(i, d) /\ b \in Digit /\ q = Ip4Digit(i, d + 1)
      <4>1. PICK i \in 1 .. 4, d \in 1 .. 2 : p = Ip4Digit(i, d) /\ b \in Digit /\ q = Ip4Digit(i, d + 1)
        BY <3>1
      <4>2. n - 1 \in Nat /\ i \in Nat /\ d \in Nat /\ d \in 1 .. 3
        BY <1>1
      <4>3. p = Ip4Digit(n, Len(z)) /\ IsNumber(z)
        BY <1>9, <2>5, <4>1, <4>2, Ip4Apart
      <4>4. n = i /\ Len(z) = d
        <5> DEFINE l == Len(z)
        <5>1. l \in 1 .. 3
          BY <1>20, <4>3
        <5>2. Ip4Digit(n, l) = Ip4Digit(i, d)
          BY <4>1, <4>3
        <5> HIDE DEF l
        <5>3. n = i /\ l = d
          BY <1>1, <4>2, <5>1, <5>2, Ip4Apart
        <5> QED
          BY <5>3 DEF l
      <4> QED
        BY <1>9, <2>2, <2>5, <4>1, <4>3, <4>4
    <3>2. CASE \E i \in 1 .. 3 : p = Ip4Dot(i) /\ b \in Digit /\ q = Ip4Digit(i + 1, 1)
      <4>1. PICK i \in 1 .. 3 : p = Ip4Dot(i) /\ b \in Digit /\ q = Ip4Digit(i + 1, 1)
        BY <3>2
      <4>2. n - 1 \in Nat /\ i \in Nat /\ Len(z) \in Nat /\ n \in Nat
        BY <1>1, <1>4
      <4>3. p = Ip4Dot(n - 1) /\ z = <<>> /\ n >= 2
        BY <1>9, <2>5, <4>1, <4>2, Ip4Apart
      <4>4. n - 1 = i
        BY <4>1, <4>2, <4>3, Ip4Apart
      <4>5. i + 1 = n
        BY <1>1, <4>4
      <4> QED
        BY <1>4, <1>9, <2>2, <2>5, <4>1, <4>3, <4>5
    <3> QED
      BY <1>11, <2>5, <3>1, <3>2 DEF Ip4On
  <2> QED
    BY <2>3, <2>4, <2>5 DEF y
<1>12. CASE b = "."
  <2>1. m = n + 1 /\ w = <<>> /\ (NumbersBefore(y) <=> NumbersBefore(x) /\ IsNumber(z))
    BY <1>1, <1>6, <1>12 DEF S
  <2>2. Ip4Leads(y, q) <=> n <= 3 /\ NumbersBefore(x) /\ IsNumber(z) /\ q = Ip4Dot(n)
    <3>1. n + 1 <= 4 <=> n <= 3
      BY <1>1
    <3>2. n + 1 >= 2 /\ (n + 1) - 1 = n
      BY <1>1
    <3> QED
      BY <1>4, <1>10, <2>1, <3>1, <3>2
  <2>3. ASSUME Ip4Leads(y, q)
        PROVE  \E p : Ip4Leads(x, p) /\ Ip4On(p, b, q)
    <3>1. n \in 1 .. 3 /\ n <= 4
      BY <1>1, <2>2, <2>3
    <3>2. Ip4Leads(x, Ip4Digit(n, Len(z)))
      BY <1>9, <2>2, <2>3, <3>1
    <3>3. Ip4On(Ip4Digit(n, Len(z)), b, q)
      BY <1>12, <1>20, <2>2, <2>3, <3>1 DEF Ip4On
    <3> QED
      BY <3>2, <3>3
  <2>4. ~Ip4Enter(b, q)
    BY <1>0, <1>12 DEF Ip4Enter
  <2>5. ASSUME NEW p, Ip4Leads(x, p), Ip4On(p, b, q)
        PROVE  Ip4Leads(y, q)
    <3>1. PICK i \in 1 .. 3, d \in 1 .. 3 : p = Ip4Digit(i, d) /\ q = Ip4Dot(i)
      BY <1>0, <1>12, <2>5 DEF Ip4On
    <3>2. n - 1 \in Nat /\ i \in Nat /\ d \in Nat /\ n \in Nat
      BY <1>1
    <3>3. p = Ip4Digit(n, Len(z)) /\ IsNumber(z) /\ NumbersBefore(x)
      BY <1>9, <2>5, <3>1, <3>2, Ip4Apart
    <3>4. n = i
      <4> DEFINE l == Len(z)
      <4>1. l \in 1 .. 3
        BY <1>20, <3>3
      <4>2. Ip4Digit(n, l) = Ip4Digit(i, d)
        BY <3>1, <3>3
      <4> HIDE DEF l
      <4> QED
        BY <3>2, <4>1, <4>2, Ip4Apart
    <3> QED
      BY <2>2, <3>1, <3>3, <3>4
  <2> QED
    BY <2>3, <2>4, <2>5 DEF y
<1> QED
  BY <1>11, <1>12 DEF y

\* Such an address is a text that leads to a digit of its fourth number.
LEMMA Ip4AtEnd ==
  ASSUME NEW x \in Seq(Byte)
  PROVE  IsIp4(x) <=> \E d \in 1 .. 3 : Ip4Leads(x, Ip4Digit(4, d))
<1> DEFINE P == Parts(x, {"."})
           n == NumParts(x, {"."})
           z == LastPart(x, {"."})
<1>1. n \in Nat \ {0} /\ n = Len(P) /\ z = P[n] /\ DOMAIN P = 1 .. n /\ P \in Seq(Seq(Byte))
  BY PartsType DEF NumParts, LastPart
<1>2. IsIp4(x) <=> n = 4 /\ \A k \in 1 .. n : IsNumber(P[k])
  BY <1>1 DEF IsIp4, IsNumber, AddressParts, PartDigits
<1>3. (\A k \in 1 .. n : IsNumber(P[k])) <=> NumbersBefore(x) /\ IsNumber(z)
  <2>1. \A k : k \in 1 .. n <=> k \in 1 .. n - 1 \/ k = n
    BY <1>1
  <2>2. NumbersBefore(x) <=> \A k \in 1 .. n - 1 : IsNumber(P[k])
    BY DEF NumbersBefore
  <2> HIDE DEF P, n, z
  <2> QED
    BY <1>1, <2>1, <2>2
<1>4. \A p : Ip4Leads(x, p) <=>
        /\ n <= 4 /\ NumbersBefore(x)
        /\ \/ p = Ip4Digit(n, Len(z)) /\ IsNumber(z)
           \/ p = Ip4Dot(n - 1) /\ n >= 2 /\ z = <<>>
  BY DEF Ip4Leads
<1>5. z \in Seq(Byte)
  BY <1>1
<1> HIDE DEF P, n, z
<1> DEFINE l == Len(z)
<1>6. l \in Nat /\ (IsNumber(z) => l \in 1 .. 3)
  <2>1. l \in Nat /\ (l = 0 => z = <<>>)
    BY <1>5
  <2>2. ~IsNumber(<<>>)
    BY DEF IsNumber, Nonempty
  <2>3. IsNumber(z) => l <= 3
    BY DEF IsNumber
  <2> HIDE DEF l
  <2> QED
    BY <2>1, <2>2, <2>3
<1>7. ASSUME NEW d \in 1 .. 3, Ip4Leads(x, Ip4Digit(4, d))
      PROVE  n = 4 /\ NumbersBefore(x) /\ IsNumber(z)
  <2> DEFINE p == Ip4Digit(4, d)
  <2>1. n - 1 \in Nat /\ d \in Nat
    BY <1>1
  <2>2. p # Ip4Dot(n - 1)
    BY <2>1, Ip4Apart
  <2> HIDE DEF p
  <2>3. p = Ip4Digit(n, l) /\ IsNumber(z) /\ NumbersBefore(x)
    BY <1>4, <1>7, <2>2 DEF p
  <2> HIDE DEF l
  <2>4. n = 4
    BY <1>1, <1>6, <2>1, <2>3, Ip4Apart DEF p
  <2> QED
    BY <2>3, <2>4
<1>8. ASSUME n = 4, NumbersBefore(x), IsNumber(z)
      PROVE  \E d \in 1 .. 3 : Ip4Leads(x, Ip4Digit(4, d))
  <2>1. Ip4Leads(x, Ip4Digit(4, l))
    BY <1>4, <1>8
  <2> HIDE DEF l
  <2> QED
    BY <1>6, <1>8, <2>1
<1> QED
  BY <1>2, <1>3, <1>7, <1>8

-----------------------------------------------------------------------------
(* Addresses of groups.                                                     *)

\* Groups of hexadecimal digits, and the positions in and after the g-th.
Hex == Digit \cup HexLetter
Ip6Group(g) == <<"ip6", "group", g>>
Ip6Colon(g) == <<"ip6", "colon", g>>
IsGroup(s) == Nonempty(s, Hex)
GroupsBefore(x) == \A k \in 1 .. NumParts(x, {":"}) - 1 : IsGroup(Parts(x, {":"})[k])

\* Where a text that begins an address of groups leads, and the edges there.
GroupLeads(x, p) ==
  LET n == NumParts(x, {":"})
      z == LastPart(x, {":"})
  IN
  /\ n <= Groups /\ GroupsBefore(x)
  /\ \/ p = Ip6Group(n) /\ IsGroup(z)
     \/ p = Ip6Colon(n - 1) /\ n >= 2 /\ z = <<>>

GroupEnter(b, q) == b \in Hex /\ q = Ip6Group(1)
GroupOn(p, b, q) ==
  \/ \E g \in 1 .. Groups : p = Ip6Group(g) /\ b \in Hex /\ q = Ip6Group(g)
  \/ \E g \in 1 .. Groups - 1 : p = Ip6Group(g) /\ b = ":" /\ q = Ip6Colon(g)
  \/ \E g \in 1 .. Groups - 1 : p = Ip6Colon(g) /\ b \in Hex /\ q = Ip6Group(g + 1)

\* The bounds are positive.
LEMMA GroupNumbers ==
  /\ Groups \in Nat \ {0} /\ Zeros \in Nat \ {0}
  /\ NickBytes \in Nat \ {0} /\ Middles \in Nat \ {0}
BY IrcsmAssumption

\* Where an address of groups leads, one byte later.
LEMMA GroupMore ==
  ASSUME NEW x \in Seq(Byte), NEW b \in Byte, NEW q
  PROVE  GroupLeads(Append(x, b), q) <=>
           \/ x = <<>> /\ GroupEnter(b, q)
           \/ \E p : GroupLeads(x, p) /\ GroupOn(p, b, q)
<1> DEFINE y == Append(x, b)
           S == {":"}
           n == NumParts(x, S)
           z == LastPart(x, S)
           m == NumParts(y, S)
           w == LastPart(y, S)
<1>0. ":" \notin Hex
  BY NoMarks, IrcsmAssumption DEF Hex, Alnum
<1>1. /\ n \in Nat \ {0} /\ z \in Seq(Byte)
      /\ b \notin S => /\ m = n
                       /\ w = Append(z, b)
                       /\ \A k \in 1 .. n - 1 : Parts(y, S)[k] = Parts(x, S)[k]
      /\ b \in S => /\ m = n + 1
                    /\ w = <<>>
                    /\ \A k \in 1 .. n : Parts(y, S)[k] = Parts(x, S)[k]
  <2> HIDE DEF S
  <2>1. LET old == Parts(x, S)
            new == Parts(Append(x, b), S)
            l == NumParts(x, S)
        IN  /\ l \in Nat \ {0} /\ LastPart(x, S) \in Seq(Byte)
            /\ b \notin S => /\ NumParts(Append(x, b), S) = l
                             /\ LastPart(Append(x, b), S) = Append(LastPart(x, S), b)
                             /\ \A k \in 1 .. l - 1 : new[k] = old[k]
            /\ b \in S => /\ NumParts(Append(x, b), S) = l + 1
                          /\ LastPart(Append(x, b), S) = <<>>
                          /\ \A k \in 1 .. l : new[k] = old[k]
    <3>1. PartsGrown(x, b, S)
      BY PartsGrow
    <3> QED
      BY <3>1 DEF PartsGrown
  <2> QED
    BY <2>1
<1>2. x = <<>> => n = 1 /\ z = <<>>
  BY PartsNothing
<1>3. Parts(x, S)[n] = z
  BY DEF LastPart, NumParts
<1>4. /\ IsGroup(Append(z, b)) <=> b \in Hex /\ (z = <<>> \/ IsGroup(z))
      /\ Append(z, b) # <<>> /\ ~IsGroup(<<>>)
  <2>1. /\ Nonempty(Append(z, b), Hex) <=> Only(z, Hex) /\ b \in Hex
        /\ Only(z, Hex) <=> z = <<>> \/ Nonempty(z, Hex)
        /\ ~Nonempty(<<>>, Hex)
    BY <1>1, OnlyMore
  <2> QED
    BY <1>1, <2>1, AppendType DEF IsGroup
<1>5. b # ":" => (GroupsBefore(y) <=> GroupsBefore(x))
  BY <1>1 DEF GroupsBefore
<1>6. b = ":" => (GroupsBefore(y) <=> GroupsBefore(x) /\ IsGroup(z))
  <2> SUFFICES ASSUME b = ":"
               PROVE  GroupsBefore(y) <=> GroupsBefore(x) /\ IsGroup(z)
    OBVIOUS
  <2>1. m - 1 = n
    BY <1>1
  <2>2. GroupsBefore(y) <=> \A k \in 1 .. n : IsGroup(Parts(y, S)[k])
    BY <2>1 DEF GroupsBefore
  <2>3. GroupsBefore(y) <=> \A k \in 1 .. n : IsGroup(Parts(x, S)[k])
    BY <1>1, <2>2
  <2>4. \A k : k \in 1 .. n <=> k \in 1 .. n - 1 \/ k = n
    BY <1>1
  <2> QED
    BY <2>3, <2>4, <1>3 DEF GroupsBefore
<1>7. n = 1 /\ z = <<>> => x = <<>>
  BY PartsAlone
<1>8. n = 1 => GroupsBefore(x)
  BY DEF GroupsBefore
<1>9. \A p : GroupLeads(x, p) <=>
        /\ n <= Groups /\ GroupsBefore(x)
        /\ \/ p = Ip6Group(n) /\ IsGroup(z)
           \/ p = Ip6Colon(n - 1) /\ n >= 2 /\ z = <<>>
  BY DEF GroupLeads
<1>10. GroupLeads(y, q) <=>
         /\ m <= Groups /\ GroupsBefore(y)
         /\ \/ q = Ip6Group(m) /\ IsGroup(w)
            \/ q = Ip6Colon(m - 1) /\ m >= 2 /\ w = <<>>
  BY DEF GroupLeads
<1>a. /\ \A i, j : Ip6Group(i) = Ip6Group(j) => i = j
      /\ \A i, j : Ip6Colon(i) = Ip6Colon(j) => i = j
      /\ \A i, j : Ip6Group(i) # Ip6Colon(j)
  BY DEF Ip6Group, Ip6Colon
<1>g. Groups \in Nat \ {0}
  BY GroupNumbers
<1> HIDE DEF y, S, n, z, m, w
<1>11. CASE b # ":"
  <2>1. m = n /\ w = Append(z, b) /\ (GroupsBefore(y) <=> GroupsBefore(x))
    BY <1>1, <1>5, <1>11 DEF S
  <2>2. GroupLeads(y, q) <=>
          /\ n <= Groups /\ GroupsBefore(x)
          /\ q = Ip6Group(n)
          /\ b \in Hex /\ (z = <<>> \/ IsGroup(z))
    BY <1>4, <1>10, <2>1
  <2>3. ASSUME GroupLeads(y, q)
        PROVE  \/ x = <<>> /\ GroupEnter(b, q)
               \/ \E p : GroupLeads(x, p) /\ GroupOn(p, b, q)
    <3>1. CASE IsGroup(z)
      <4>1. GroupLeads(x, Ip6Group(n))
        BY <1>9, <2>2, <2>3, <3>1
      <4>2. n \in 1 .. Groups
        BY <1>1, <1>g, <2>2, <2>3
      <4>3. GroupOn(Ip6Group(n), b, q)
        BY <2>2, <2>3, <4>2 DEF GroupOn
      <4> QED
        BY <4>1, <4>3
    <3>2. CASE z = <<>> /\ n = 1
      BY <1>7, <2>2, <2>3, <3>2 DEF GroupEnter
    <3>3. CASE z = <<>> /\ n # 1
      <4>1. n - 1 \in 1 .. Groups - 1 /\ n >= 2
        BY <1>1, <1>g, <2>2, <2>3, <3>3
      <4>2. GroupLeads(x, Ip6Colon(n - 1))
        BY <1>9, <2>2, <2>3, <3>3, <4>1
      <4>3. q = Ip6Group((n - 1) + 1)
        BY <1>1, <2>2, <2>3
      <4>4. GroupOn(Ip6Colon(n - 1), b, q)
        BY <2>2, <2>3, <4>1, <4>3 DEF GroupOn
      <4> QED
        BY <4>2, <4>4
    <3> QED
      BY <2>2, <2>3, <3>1, <3>2, <3>3
  <2>4. ASSUME x = <<>>, GroupEnter(b, q)
        PROVE  GroupLeads(y, q)
    BY <1>2, <1>8, <1>g, <2>2, <2>4 DEF GroupEnter
  <2>5. ASSUME NEW p, GroupLeads(x, p), GroupOn(p, b, q)
        PROVE  GroupLeads(y, q)
    <3>1. CASE \E g \in 1 .. Groups : p = Ip6Group(g) /\ b \in Hex /\ q = Ip6Group(g)
      BY <1>9, <1>a, <2>2, <2>5, <3>1
    <3>2. CASE \E g \in 1 .. Groups - 1 : p = Ip6Colon(g) /\ b \in Hex /\ q = Ip6Group(g + 1)
      <4>1. PICK g \in 1 .. Groups - 1 : p = Ip6Colon(g) /\ b \in Hex /\ q = Ip6Group(g + 1)
        BY <3>2
      <4>2. z = <<>> /\ n - 1 = g
        BY <1>9, <1>a, <2>5, <4>1
      <4>3. g + 1 = n
        BY <1>1, <4>2
      <4> QED
        BY <1>9, <2>2, <2>5, <4>1, <4>2, <4>3
    <3> QED
      BY <1>11, <2>5, <3>1, <3>2 DEF GroupOn
  <2> QED
    BY <2>3, <2>4, <2>5 DEF y
<1>12. CASE b = ":"
  <2>1. m = n + 1 /\ w = <<>> /\ (GroupsBefore(y) <=> GroupsBefore(x) /\ IsGroup(z))
    BY <1>1, <1>6, <1>12 DEF S
  <2>2. GroupLeads(y, q) <=> n <= Groups - 1 /\ GroupsBefore(x) /\ IsGroup(z) /\ q = Ip6Colon(n)
    <3>1. n + 1 <= Groups <=> n <= Groups - 1
      BY <1>1, <1>g
    <3>2. n + 1 >= 2 /\ (n + 1) - 1 = n
      BY <1>1
    <3> QED
      BY <1>4, <1>10, <2>1, <3>1, <3>2
  <2>3. ASSUME GroupLeads(y, q)
        PROVE  \E p : GroupLeads(x, p) /\ GroupOn(p, b, q)
    <3>1. n \in 1 .. Groups - 1 /\ n <= Groups
      BY <1>1, <1>g, <2>2, <2>3
    <3>2. GroupLeads(x, Ip6Group(n))
      BY <1>9, <2>2, <2>3, <3>1
    <3>3. GroupOn(Ip6Group(n), b, q)
      BY <1>12, <2>2, <2>3, <3>1 DEF GroupOn
    <3> QED
      BY <3>2, <3>3
  <2>4. ~GroupEnter(b, q)
    BY <1>0, <1>12 DEF GroupEnter
  <2>5. ASSUME NEW p, GroupLeads(x, p), GroupOn(p, b, q)
        PROVE  GroupLeads(y, q)
    <3>1. PICK g \in 1 .. Groups - 1 : p = Ip6Group(g) /\ q = Ip6Colon(g)
      BY <1>0, <1>12, <2>5 DEF GroupOn
    <3>2. g = n /\ IsGroup(z) /\ GroupsBefore(x)
      BY <1>9, <1>a, <2>5, <3>1
    <3>3. n <= Groups - 1
      BY <1>g, <3>2
    <3> QED
      BY <2>2, <3>1, <3>2, <3>3
  <2> QED
    BY <2>3, <2>4, <2>5 DEF y
<1> QED
  BY <1>11, <1>12 DEF y

\* Groups of one zero, then a zero or four f, then such an address.
MappedZero(g) == <<"mapped", "zero", g>>
MappedColon(g) == <<"mapped", "colon", g>>
MappedF(k) == <<"mapped", "f", k>>
AllF(s) == Only(s, {"f", "F"})
ZerosUpto(x, m) == \A k \in 1 .. m : Parts(x, {":"})[k] = <<"0">>
Zeroed(x) == NumParts(x, {":"}) <= Zeros + 1 /\ ZerosUpto(x, NumParts(x, {":"}) - 1)
Mapping(x) ==
  /\ NumParts(x, {":"}) = Zeros + 2 /\ ZerosUpto(x, Zeros)
  /\ LET g == Parts(x, {":"})[Zeros + 1] IN g = <<"0">> \/ (Len(g) = 4 /\ AllF(g))

MappedLeads(x, p) ==
  LET n == NumParts(x, {":"})
      z == LastPart(x, {":"})
  IN
  \/ Zeroed(x) /\ z = <<"0">> /\ p = MappedZero(n)
  \/ Zeroed(x) /\ z = <<>> /\ n >= 2 /\ p = MappedColon(n - 1)
  \/ Zeroed(x) /\ n = Zeros + 1 /\ AllF(z) /\ Len(z) \in 1 .. 4 /\ p = MappedF(Len(z))
  \/ Mapping(x) /\ z = <<>> /\ p = MappedColon(Zeros + 1)
  \/ Mapping(x) /\ Ip4Leads(z, p)

MappedEnter(b, q) == b = "0" /\ q = MappedZero(1)
MappedOn(p, b, q) ==
  \/ \E g \in 1 .. Zeros + 1 : p = MappedZero(g) /\ b = ":" /\ q = MappedColon(g)
  \/ \E g \in 1 .. Zeros : p = MappedColon(g) /\ b = "0" /\ q = MappedZero(g + 1)
  \/ p = MappedColon(Zeros) /\ b \in {"f", "F"} /\ q = MappedF(1)
  \/ p = MappedF(4) /\ b = ":" /\ q = MappedColon(Zeros + 1)
  \/ \E k \in 1 .. 3 : p = MappedF(k) /\ b \in {"f", "F"} /\ q = MappedF(k + 1)
  \/ p = MappedColon(Zeros + 1) /\ Ip4Enter(b, q)

\* The positions of such an address are all different.
LEMMA MappedApart ==
  /\ \A i, j : MappedZero(i) = MappedZero(j) => i = j
  /\ \A i, j : MappedColon(i) = MappedColon(j) => i = j
  /\ \A i, j : MappedF(i) = MappedF(j) => i = j
  /\ \A i, j : MappedZero(i) # MappedColon(j) /\ MappedZero(i) # MappedF(j) /\ MappedColon(i) # MappedF(j)
  /\ \A i : MappedZero(i)[1] = "mapped" /\ MappedColon(i)[1] = "mapped" /\ MappedF(i)[1] = "mapped"
BY DEF MappedZero, MappedColon, MappedF

\* The areas of the positions of an address.
LEMMA AddressAreas ==
  /\ \A x, p : Ip4Leads(x, p) => p[1] = "ip4"
  /\ \A p, b, q : Ip4On(p, b, q) => p[1] = "ip4" /\ q[1] = "ip4"
  /\ \A b, q : Ip4Enter(b, q) => q[1] = "ip4"
  /\ \A x, p : GroupLeads(x, p) => p[1] = "ip6"
  /\ \A p, b, q : GroupOn(p, b, q) => p[1] = "ip6" /\ q[1] = "ip6"
  /\ \A b, q : GroupEnter(b, q) => q[1] = "ip6"
  /\ \A x, p : MappedLeads(x, p) => p[1] \in {"mapped", "ip4"}
  /\ \A p, b, q : MappedOn(p, b, q) => p[1] = "mapped" /\ q[1] \in {"mapped", "ip4"}
  /\ \A b, q : MappedEnter(b, q) => q[1] = "mapped"
<1>1. /\ \A i, d : Ip4Digit(i, d)[1] = "ip4"
      /\ \A i : Ip4Dot(i)[1] = "ip4"
      /\ \A i : Ip6Group(i)[1] = "ip6" /\ Ip6Colon(i)[1] = "ip6"
  BY DEF Ip4Digit, Ip4Dot, Ip6Group, Ip6Colon
<1>2. /\ \A x, p : Ip4Leads(x, p) => p[1] = "ip4"
      /\ \A p, b, q : Ip4On(p, b, q) => p[1] = "ip4" /\ q[1] = "ip4"
      /\ \A b, q : Ip4Enter(b, q) => q[1] = "ip4"
  BY <1>1 DEF Ip4Leads, Ip4On, Ip4Enter
<1>3. /\ \A x, p : GroupLeads(x, p) => p[1] = "ip6"
      /\ \A p, b, q : GroupOn(p, b, q) => p[1] = "ip6" /\ q[1] = "ip6"
      /\ \A b, q : GroupEnter(b, q) => q[1] = "ip6"
  BY <1>1 DEF GroupLeads, GroupOn, GroupEnter
<1>4. /\ \A x, p : MappedLeads(x, p) => p[1] \in {"mapped", "ip4"}
      /\ \A p, b, q : MappedOn(p, b, q) => p[1] = "mapped" /\ q[1] \in {"mapped", "ip4"}
      /\ \A b, q : MappedEnter(b, q) => q[1] = "mapped"
  BY <1>2, MappedApart DEF MappedLeads, MappedOn, MappedEnter
<1> QED
  BY <1>2, <1>3, <1>4

\* A text of f, one byte later.
LEMMA AllFMore ==
  ASSUME NEW z \in Seq(Byte), NEW b \in Byte
  PROVE  /\ AllF(Append(z, b)) <=> AllF(z) /\ b \in {"f", "F"}
         /\ AllF(<<>>) /\ ~AllF(<<"0">>)
         /\ Append(z, b) = <<"0">> <=> z = <<>> /\ b = "0"
         /\ Append(z, b) # <<>> /\ <<"0">> # <<>>
         /\ Len(Append(z, b)) = Len(z) + 1 /\ Len(z) \in Nat /\ (Len(z) = 0 <=> z = <<>>)
<1>1. /\ Only(Append(z, b), {"f", "F"}) <=> Only(z, {"f", "F"}) /\ b \in {"f", "F"}
      /\ Only(<<>>, {"f", "F"})
  <2>1. Only(<<>>, {"f", "F"})
    BY DEF Only, ToSet
  <2> QED
    BY <2>1, OnlyMore
<1>2. ~Only(<<"0">>, {"f", "F"})
  BY DEF Only, ToSet
<1>3. Append(z, b) # <<>> /\ Len(Append(z, b)) = Len(z) + 1 /\ Len(z) \in Nat
  BY AppendType
<1>4. /\ z = <<>> => Append(z, b)[1] = b /\ Len(Append(z, b)) = 1
      /\ Len(z) = 0 <=> z = <<>>
  BY FirstMore
<1>5. Append(z, b) = <<"0">> <=> z = <<>> /\ b = "0"
  <2>1. ASSUME Append(z, b) = <<"0">>
        PROVE  z = <<>> /\ b = "0"
    <3>1. Len(Append(z, b)) = 1
      BY <2>1
    <3>2. z = <<>>
      BY <1>3, <1>4, <3>1
    <3> QED
      BY <1>4, <2>1, <3>2
  <2>2. z = <<>> /\ b = "0" => Append(z, b) = <<"0">>
    OBVIOUS
  <2> QED
    BY <2>1, <2>2
<1> QED
  BY <1>1, <1>2, <1>3, <1>4, <1>5 DEF AllF

\* One byte later the parts before the last are what they were, or one more.
LEMMA MappedParts ==
  ASSUME NEW x \in Seq(Byte), NEW b \in Byte
  PROVE  LET y == Append(x, b)
             n == NumParts(x, {":"})
             z == LastPart(x, {":"})
         IN  /\ n \in Nat \ {0} /\ z \in Seq(Byte)
             /\ b # ":" => /\ NumParts(y, {":"}) = n /\ LastPart(y, {":"}) = Append(z, b)
                           /\ Zeroed(y) <=> Zeroed(x)
                           /\ Mapping(y) <=> Mapping(x)
             /\ b = ":" => /\ NumParts(y, {":"}) = n + 1 /\ LastPart(y, {":"}) = <<>>
                           /\ Zeroed(y) <=> Zeroed(x) /\ n <= Zeros /\ z = <<"0">>
                           /\ Mapping(y) <=> /\ Zeroed(x) /\ n = Zeros + 1
                                             /\ z = <<"0">> \/ (Len(z) = 4 /\ AllF(z))
             /\ x = <<>> => n = 1 /\ z = <<>>
             /\ n = 1 => Zeroed(x) /\ ~Mapping(x)
             /\ n = 1 /\ z = <<>> => x = <<>>
             /\ Mapping(x) => n = Zeros + 2
             /\ Zeroed(x) => n <= Zeros + 1
<1> DEFINE y == Append(x, b)
           S == {":"}
           n == NumParts(x, S)
           z == LastPart(x, S)
           m == NumParts(y, S)
           w == LastPart(y, S)
           P == Parts(x, S)
           Q == Parts(y, S)
<1>1. /\ n \in Nat \ {0} /\ z \in Seq(Byte)
      /\ b \notin S => /\ m = n
                       /\ w = Append(z, b)
                       /\ \A k \in 1 .. n - 1 : Q[k] = P[k]
      /\ b \in S => /\ m = n + 1
                    /\ w = <<>>
                    /\ \A k \in 1 .. n : Q[k] = P[k]
  <2> HIDE DEF S
  <2>1. LET old == Parts(x, S)
            new == Parts(Append(x, b), S)
            l == NumParts(x, S)
        IN  /\ l \in Nat \ {0} /\ LastPart(x, S) \in Seq(Byte)
            /\ b \notin S => /\ NumParts(Append(x, b), S) = l
                             /\ LastPart(Append(x, b), S) = Append(LastPart(x, S), b)
                             /\ \A k \in 1 .. l - 1 : new[k] = old[k]
            /\ b \in S => /\ NumParts(Append(x, b), S) = l + 1
                          /\ LastPart(Append(x, b), S) = <<>>
                          /\ \A k \in 1 .. l : new[k] = old[k]
    <3>1. PartsGrown(x, b, S)
      BY PartsGrow
    <3> QED
      BY <3>1 DEF PartsGrown
  <2> QED
    BY <2>1
<1>2. x = <<>> => n = 1 /\ z = <<>>
  BY PartsNothing
<1>3. P[n] = z
  BY DEF LastPart, NumParts
<1>4. n = 1 /\ z = <<>> => x = <<>>
  BY PartsAlone
<1>z. Zeros \in Nat \ {0}
  BY GroupNumbers
<1>5. /\ Zeroed(x) <=> n <= Zeros + 1 /\ \A k \in 1 .. n - 1 : P[k] = <<"0">>
      /\ Zeroed(y) <=> m <= Zeros + 1 /\ \A k \in 1 .. m - 1 : Q[k] = <<"0">>
      /\ Mapping(x) <=> /\ n = Zeros + 2 /\ \A k \in 1 .. Zeros : P[k] = <<"0">>
                        /\ P[Zeros + 1] = <<"0">> \/ (Len(P[Zeros + 1]) = 4 /\ AllF(P[Zeros + 1]))
      /\ Mapping(y) <=> /\ m = Zeros + 2 /\ \A k \in 1 .. Zeros : Q[k] = <<"0">>
                        /\ Q[Zeros + 1] = <<"0">> \/ (Len(Q[Zeros + 1]) = 4 /\ AllF(Q[Zeros + 1]))
  BY DEF Zeroed, Mapping, ZerosUpto
<1> HIDE DEF y, S, n, z, m, w, P, Q
<1>6. n = 1 => Zeroed(x) /\ ~Mapping(x)
  BY <1>5, <1>z
<1>7. ASSUME b # ":"
      PROVE  m = n /\ w = Append(z, b) /\ (Zeroed(y) <=> Zeroed(x)) /\ (Mapping(y) <=> Mapping(x))
  <2>1. m = n /\ w = Append(z, b) /\ \A k \in 1 .. n - 1 : Q[k] = P[k]
    BY <1>1, <1>7 DEF S
  <2>2. Zeroed(y) <=> Zeroed(x)
    BY <1>5, <2>1
  <2>3. n = Zeros + 2 => Q[Zeros + 1] = P[Zeros + 1] /\ \A k \in 1 .. Zeros : Q[k] = P[k]
    BY <1>z, <2>1
  <2>4. Mapping(y) <=> Mapping(x)
    BY <1>5, <2>1, <2>3
  <2> QED
    BY <2>1, <2>2, <2>4
<1>8. ASSUME b = ":"
      PROVE  /\ m = n + 1 /\ w = <<>>
             /\ Zeroed(y) <=> Zeroed(x) /\ n <= Zeros /\ z = <<"0">>
             /\ Mapping(y) <=> /\ Zeroed(x) /\ n = Zeros + 1
                               /\ z = <<"0">> \/ (Len(z) = 4 /\ AllF(z))
  <2>1. m = n + 1 /\ w = <<>> /\ \A k \in 1 .. n : Q[k] = P[k]
    BY <1>1, <1>8 DEF S
  <2>2. m - 1 = n /\ (m <= Zeros + 1 <=> n <= Zeros) /\ (m = Zeros + 2 <=> n = Zeros + 1)
    BY <1>1, <1>z, <2>1
  <2>3. \A k : k \in 1 .. n <=> k \in 1 .. n - 1 \/ k = n
    BY <1>1
  <2>4. (\A k \in 1 .. n : Q[k] = <<"0">>) <=> (\A k \in 1 .. n - 1 : P[k] = <<"0">>) /\ z = <<"0">>
    BY <1>3, <2>1, <2>3
  <2>5. Zeroed(y) <=> Zeroed(x) /\ n <= Zeros /\ z = <<"0">>
    BY <1>5, <1>1, <1>z, <2>2, <2>4
  <2>6. n = Zeros + 1 => n - 1 = Zeros /\ Q[Zeros + 1] = z
                         /\ ((\A k \in 1 .. Zeros : Q[k] = <<"0">>) <=> (\A k \in 1 .. n - 1 : P[k] = <<"0">>))
    <3> SUFFICES ASSUME n = Zeros + 1
                 PROVE  n - 1 = Zeros /\ Q[Zeros + 1] = z
                        /\ ((\A k \in 1 .. Zeros : Q[k] = <<"0">>) <=> (\A k \in 1 .. n - 1 : P[k] = <<"0">>))
      OBVIOUS
    <3>1. n - 1 = Zeros
      BY <1>z
    <3>2. Q[Zeros + 1] = z
      BY <1>1, <1>3, <2>1
    <3>3. \A k \in 1 .. Zeros : Q[k] = P[k]
      BY <1>z, <2>1
    <3> QED
      BY <3>1, <3>2, <3>3
  <2>7. Mapping(y) <=> /\ Zeroed(x) /\ n = Zeros + 1
                       /\ z = <<"0">> \/ (Len(z) = 4 /\ AllF(z))
    <3>1. CASE n = Zeros + 1
      <4>1. Mapping(y) <=> /\ \A k \in 1 .. n - 1 : P[k] = <<"0">>
                           /\ z = <<"0">> \/ (Len(z) = 4 /\ AllF(z))
        BY <1>5, <2>2, <2>6, <3>1
      <4>2. Zeroed(x) <=> \A k \in 1 .. n - 1 : P[k] = <<"0">>
        BY <1>5, <1>z, <3>1
      <4> QED
        BY <3>1, <4>1, <4>2
    <3>2. CASE n # Zeros + 1
      BY <1>5, <2>2, <3>2
    <3> QED
      BY <3>1, <3>2
  <2> QED
    BY <2>1, <2>5, <2>7
<1>9. Mapping(x) => n = Zeros + 2
  BY <1>5
<1>10. Zeroed(x) => n <= Zeros + 1
  BY <1>5
<1> QED
  BY <1>1, <1>2, <1>4, <1>6, <1>7, <1>8, <1>9, <1>10 DEF y, S, n, z, m, w

\* No bytes lead nowhere in an address.
LEMMA NoAddress == \A q : ~Ip4Leads(<<>>, q)
<1>1. NumParts(<<>>, {"."}) = 1 /\ LastPart(<<>>, {"."}) = <<>>
  BY PartsNothing
<1>2. ~IsNumber(<<>>)
  BY DEF IsNumber, Nonempty
<1> QED
  BY <1>1, <1>2 DEF Ip4Leads

\* Where such an address leads, one byte later.
LEMMA MappedMore ==
  ASSUME NEW x \in Seq(Byte), NEW b \in Byte, NEW q
  PROVE  MappedLeads(Append(x, b), q) <=>
           \/ x = <<>> /\ MappedEnter(b, q)
           \/ \E p : MappedLeads(x, p) /\ (MappedOn(p, b, q) \/ Ip4On(p, b, q))
<1> DEFINE y == Append(x, b)
           n == NumParts(x, {":"})
           z == LastPart(x, {":"})
           m == NumParts(y, {":"})
           w == LastPart(y, {":"})
           l == Len(z)
<1>1. /\ n \in Nat \ {0} /\ z \in Seq(Byte)
      /\ b # ":" => /\ m = n /\ w = Append(z, b)
                    /\ Zeroed(y) <=> Zeroed(x)
                    /\ Mapping(y) <=> Mapping(x)
      /\ b = ":" => /\ m = n + 1 /\ w = <<>>
                    /\ Zeroed(y) <=> Zeroed(x) /\ n <= Zeros /\ z = <<"0">>
                    /\ Mapping(y) <=> /\ Zeroed(x) /\ n = Zeros + 1
                                      /\ z = <<"0">> \/ (Len(z) = 4 /\ AllF(z))
      /\ x = <<>> => n = 1 /\ z = <<>>
      /\ n = 1 => Zeroed(x) /\ ~Mapping(x)
      /\ n = 1 /\ z = <<>> => x = <<>>
      /\ Mapping(x) => n = Zeros + 2
      /\ Zeroed(x) => n <= Zeros + 1
  BY MappedParts
<1>2. Zeros \in Nat \ {0}
  BY GroupNumbers
<1>3. /\ AllF(Append(z, b)) <=> AllF(z) /\ b \in {"f", "F"}
      /\ AllF(<<>>) /\ ~AllF(<<"0">>)
      /\ Append(z, b) = <<"0">> <=> z = <<>> /\ b = "0"
      /\ Append(z, b) # <<>> /\ <<"0">> # <<>>
      /\ Len(Append(z, b)) = l + 1 /\ l \in Nat /\ (l = 0 <=> z = <<>>)
  BY <1>1, AllFMore
<1>4. Ip4Leads(Append(z, b), q) <=>
        \/ z = <<>> /\ Ip4Enter(b, q)
        \/ \E p : Ip4Leads(z, p) /\ Ip4On(p, b, q)
  BY <1>1, Ip4More
<1>5. \A p : MappedLeads(x, p) <=>
        \/ Zeroed(x) /\ z = <<"0">> /\ p = MappedZero(n)
        \/ Zeroed(x) /\ z = <<>> /\ n >= 2 /\ p = MappedColon(n - 1)
        \/ Zeroed(x) /\ n = Zeros + 1 /\ AllF(z) /\ l \in 1 .. 4 /\ p = MappedF(l)
        \/ Mapping(x) /\ z = <<>> /\ p = MappedColon(Zeros + 1)
        \/ Mapping(x) /\ Ip4Leads(z, p)
  BY DEF MappedLeads
<1>6. MappedLeads(y, q) <=>
        \/ Zeroed(y) /\ w = <<"0">> /\ q = MappedZero(m)
        \/ Zeroed(y) /\ w = <<>> /\ m >= 2 /\ q = MappedColon(m - 1)
        \/ Zeroed(y) /\ m = Zeros + 1 /\ AllF(w) /\ Len(w) \in 1 .. 4 /\ q = MappedF(Len(w))
        \/ Mapping(y) /\ w = <<>> /\ q = MappedColon(Zeros + 1)
        \/ Mapping(y) /\ Ip4Leads(w, q)
  BY DEF MappedLeads
<1>7. \A p : Ip4Leads(z, p) => p[1] = "ip4"
  BY AddressAreas
\* What a colon, a zero or some f at the end of the text before says of it.
<1>8. ASSUME NEW g, MappedLeads(x, MappedColon(g))
      PROVE  \/ Zeroed(x) /\ z = <<>> /\ n >= 2 /\ g = n - 1
             \/ Mapping(x) /\ z = <<>> /\ g = Zeros + 1
  <2>1. MappedColon(g)[1] # "ip4"
    BY MappedApart
  <2> HIDE DEF n, z, l
  <2> QED
    BY <1>5, <1>7, <1>8, <2>1, MappedApart
<1>9. ASSUME NEW g, MappedLeads(x, MappedZero(g))
      PROVE  Zeroed(x) /\ z = <<"0">> /\ g = n
  <2>1. MappedZero(g)[1] # "ip4"
    BY MappedApart
  <2> HIDE DEF n, z, l
  <2> QED
    BY <1>5, <1>7, <1>9, <2>1, MappedApart
<1>10. ASSUME NEW k, MappedLeads(x, MappedF(k))
       PROVE  Zeroed(x) /\ n = Zeros + 1 /\ AllF(z) /\ l \in 1 .. 4 /\ k = l
  <2>1. MappedF(k)[1] # "ip4"
    BY MappedApart
  <2> HIDE DEF n, z, l
  <2> QED
    BY <1>5, <1>7, <1>10, <2>1, MappedApart
<1>11. ASSUME NEW p, MappedLeads(x, p), p[1] = "ip4"
       PROVE  Mapping(x) /\ Ip4Leads(z, p)
  <2> HIDE DEF n, z, l
  <2> QED
    BY <1>5, <1>11, MappedApart
<1> HIDE DEF y, n, z, m, w
<1>12. CASE b # ":"
  <2>1. /\ m = n /\ w = Append(z, b) /\ Len(w) = l + 1 /\ w # <<>>
        /\ Zeroed(y) <=> Zeroed(x)
        /\ Mapping(y) <=> Mapping(x)
    BY <1>1, <1>3, <1>12
  <2>2. MappedLeads(y, q) <=>
          \/ Zeroed(x) /\ z = <<>> /\ b = "0" /\ q = MappedZero(n)
          \/ Zeroed(x) /\ n = Zeros + 1 /\ AllF(z) /\ b \in {"f", "F"} /\ l + 1 \in 1 .. 4 /\ q = MappedF(l + 1)
          \/ Mapping(x) /\ Ip4Leads(Append(z, b), q)
    <3> HIDE DEF l
    <3> QED
      BY <1>3, <1>6, <2>1
  <2>3. ASSUME MappedLeads(y, q)
        PROVE  \/ x = <<>> /\ MappedEnter(b, q)
               \/ \E p : MappedLeads(x, p) /\ (MappedOn(p, b, q) \/ Ip4On(p, b, q))
    <3>1. CASE Zeroed(x) /\ z = <<>> /\ b = "0" /\ q = MappedZero(n)
      <4>1. CASE n = 1
        BY <1>1, <3>1, <4>1 DEF MappedEnter
      <4>2. CASE n # 1
        <5>1. n >= 2 /\ n - 1 \in 1 .. Zeros /\ (n - 1) + 1 = n
          BY <1>1, <1>2, <3>1, <4>2
        <5>2. MappedLeads(x, MappedColon(n - 1))
          BY <1>5, <3>1, <5>1
        <5>3. MappedOn(MappedColon(n - 1), b, q)
          <6> DEFINE g == n - 1
          <6>1. g \in 1 .. Zeros /\ q = MappedZero(g + 1)
            BY <3>1, <5>1
          <6> HIDE DEF g
          <6>2. MappedOn(MappedColon(g), b, q)
            BY <3>1, <6>1 DEF MappedOn
          <6> QED
            BY <6>2 DEF g
        <5> QED
          BY <5>2, <5>3
      <4> QED
        BY <4>1, <4>2
    <3>2. CASE Zeroed(x) /\ n = Zeros + 1 /\ AllF(z) /\ b \in {"f", "F"} /\ l + 1 \in 1 .. 4 /\ q = MappedF(l + 1)
      <4> HIDE DEF l
      <4>1. CASE z = <<>>
        <5>1. l + 1 = 1 /\ n >= 2 /\ n - 1 = Zeros
          BY <1>2, <1>3, <3>2, <4>1
        <5>2. MappedLeads(x, MappedColon(Zeros))
          BY <1>5, <3>2, <4>1, <5>1
        <5>3. MappedOn(MappedColon(Zeros), b, q)
          BY <3>2, <5>1 DEF MappedOn
        <5> QED
          BY <5>2, <5>3
      <4>2. CASE z # <<>>
        <5>1. l \in 1 .. 3 /\ l \in 1 .. 4
          BY <1>3, <3>2, <4>2
        <5>2. MappedLeads(x, MappedF(l))
          BY <1>5, <3>2, <5>1
        <5>3. MappedOn(MappedF(l), b, q)
          BY <3>2, <5>1 DEF MappedOn
        <5> QED
          BY <5>2, <5>3
      <4> QED
        BY <4>1, <4>2
    <3>3. CASE Mapping(x) /\ Ip4Leads(Append(z, b), q)
      <4>1. CASE z = <<>> /\ Ip4Enter(b, q)
        <5>1. MappedLeads(x, MappedColon(Zeros + 1))
          BY <1>5, <3>3, <4>1
        <5>2. MappedOn(MappedColon(Zeros + 1), b, q)
          BY <4>1 DEF MappedOn
        <5> QED
          BY <5>1, <5>2
      <4>2. CASE \E p : Ip4Leads(z, p) /\ Ip4On(p, b, q)
        BY <1>5, <3>3, <4>2
      <4> QED
        BY <1>4, <3>3, <4>1, <4>2
    <3> QED
      BY <2>2, <2>3, <3>1, <3>2, <3>3
  <2>4. ASSUME x = <<>>, MappedEnter(b, q)
        PROVE  MappedLeads(y, q)
    BY <1>1, <2>2, <2>4 DEF MappedEnter
  <2>5. ASSUME NEW p, MappedLeads(x, p), Ip4On(p, b, q)
        PROVE  MappedLeads(y, q)
    <3>1. p[1] = "ip4"
      BY <2>5, AddressAreas
    <3>2. Mapping(x) /\ Ip4Leads(z, p)
      BY <1>11, <2>5, <3>1
    <3> QED
      BY <1>4, <2>2, <2>5, <3>2
  <2>6. ASSUME NEW p, MappedLeads(x, p), MappedOn(p, b, q)
        PROVE  MappedLeads(y, q)
    <3>1. CASE \E g \in 1 .. Zeros : p = MappedColon(g) /\ b = "0" /\ q = MappedZero(g + 1)
      <4>1. PICK g \in 1 .. Zeros : p = MappedColon(g) /\ b = "0" /\ q = MappedZero(g + 1)
        BY <3>1
      <4>2. g # Zeros + 1
        BY <1>2
      <4>3. Zeroed(x) /\ z = <<>> /\ g = n - 1
        BY <1>8, <2>6, <4>1, <4>2
      <4>4. g + 1 = n
        BY <1>1, <4>3
      <4> QED
        BY <2>2, <4>1, <4>3, <4>4
    <3>2. CASE p = MappedColon(Zeros) /\ b \in {"f", "F"} /\ q = MappedF(1)
      <4>1. Zeros # Zeros + 1
        BY <1>2
      <4>2. Zeroed(x) /\ z = <<>> /\ Zeros = n - 1
        BY <1>8, <2>6, <3>2, <4>1
      <4>3. n = Zeros + 1
        BY <1>1, <1>2, <4>2
      <4> HIDE DEF l
      <4>4. l + 1 = 1 /\ 1 \in 1 .. 4
        BY <1>3, <4>2
      <4>5. l + 1 \in 1 .. 4 /\ q = MappedF(l + 1)
        BY <3>2, <4>4
      <4> QED
        BY <1>3, <2>2, <3>2, <4>2, <4>3, <4>5
    <3>3. CASE \E k \in 1 .. 3 : p = MappedF(k) /\ b \in {"f", "F"} /\ q = MappedF(k + 1)
      <4>1. PICK k \in 1 .. 3 : p = MappedF(k) /\ b \in {"f", "F"} /\ q = MappedF(k + 1)
        BY <3>3
      <4>2. Zeroed(x) /\ n = Zeros + 1 /\ AllF(z) /\ k = l
        BY <1>10, <2>6, <4>1
      <4> HIDE DEF l
      <4>3. l + 1 \in 1 .. 4 /\ q = MappedF(l + 1)
        BY <4>1, <4>2
      <4> QED
        BY <2>2, <4>1, <4>2, <4>3
    <3>4. CASE p = MappedColon(Zeros + 1) /\ Ip4Enter(b, q)
      <4>1. ~(Zeroed(x) /\ Zeros + 1 = n - 1)
        BY <1>1, <1>2
      <4>2. Mapping(x) /\ z = <<>>
        BY <1>8, <2>6, <3>4, <4>1
      <4> QED
        BY <1>4, <2>2, <3>4, <4>2
    <3> QED
      BY <1>12, <2>6, <3>1, <3>2, <3>3, <3>4 DEF MappedOn
  <2> QED
    BY <2>3, <2>4, <2>5, <2>6 DEF y
<1>13. CASE b = ":"
  <2>0. ":" \notin Digit /\ ":" # "0" /\ ":" \notin {"f", "F"}
    BY NoMarks DEF Alnum
  <2>1. /\ m = n + 1 /\ w = <<>> /\ Len(w) = 0 /\ ~Ip4Leads(w, q) /\ w # <<"0">>
        /\ Zeroed(y) <=> Zeroed(x) /\ n <= Zeros /\ z = <<"0">>
        /\ Mapping(y) <=> /\ Zeroed(x) /\ n = Zeros + 1
                          /\ z = <<"0">> \/ (l = 4 /\ AllF(z))
    BY <1>1, <1>3, <1>13, NoAddress
  <2> HIDE DEF l
  <2>2. MappedLeads(y, q) <=>
          /\ Zeroed(x) /\ q = MappedColon(n)
          /\ z = <<"0">> \/ (n = Zeros + 1 /\ l = 4 /\ AllF(z))
    <3>1. n + 1 >= 2 /\ (n + 1) - 1 = n /\ 0 \notin 1 .. 4
      BY <1>1
    <3>2. MappedLeads(y, q) <=>
            \/ Zeroed(y) /\ q = MappedColon(n)
            \/ Mapping(y) /\ q = MappedColon(Zeros + 1)
      BY <1>6, <2>1, <3>1
    <3>3. Zeroed(x) => n <= Zeros \/ n = Zeros + 1
      BY <1>1, <1>2
    <3> QED
      BY <2>1, <3>2, <3>3
  <2>3. ASSUME MappedLeads(y, q)
        PROVE  \E p : MappedLeads(x, p) /\ (MappedOn(p, b, q) \/ Ip4On(p, b, q))
    <3>1. CASE z = <<"0">>
      <4>1. n \in 1 .. Zeros + 1
        BY <1>1, <1>2, <2>2, <2>3
      <4>2. MappedLeads(x, MappedZero(n))
        BY <1>5, <2>2, <2>3, <3>1
      <4>3. MappedOn(MappedZero(n), b, q)
        BY <1>13, <2>2, <2>3, <4>1 DEF MappedOn
      <4> QED
        BY <4>2, <4>3
    <3>2. CASE n = Zeros + 1 /\ l = 4 /\ AllF(z)
      <4>1. l \in 1 .. 4
        BY <3>2
      <4>2. MappedLeads(x, MappedF(4))
        BY <1>5, <2>2, <2>3, <3>2, <4>1
      <4>3. MappedOn(MappedF(4), b, q)
        BY <1>13, <2>2, <2>3, <3>2 DEF MappedOn
      <4> QED
        BY <4>2, <4>3
    <3> QED
      BY <2>2, <2>3, <3>1, <3>2
  <2>4. ~MappedEnter(b, q)
    BY <1>13 DEF MappedEnter
  <2>5. ASSUME NEW p, MappedLeads(x, p), MappedOn(p, b, q) \/ Ip4On(p, b, q)
        PROVE  MappedLeads(y, q)
    <3>1. ~Ip4On(p, b, q) /\ ~Ip4Enter(b, q)
      BY <1>13, <2>0 DEF Ip4On, Ip4Enter
    <3>2. CASE \E g \in 1 .. Zeros + 1 : p = MappedZero(g) /\ q = MappedColon(g)
      BY <1>9, <2>2, <2>5, <3>2
    <3>3. CASE p = MappedF(4) /\ q = MappedColon(Zeros + 1)
      BY <1>10, <2>2, <2>5, <3>3
    <3> QED
      BY <1>13, <2>0, <2>5, <3>1, <3>2, <3>3 DEF MappedOn
  <2> QED
    BY <2>3, <2>4, <2>5 DEF y
<1> QED
  BY <1>12, <1>13 DEF y

\* The three kinds of addresses together.
AddressLeads(x, p) == Ip4Leads(x, p) \/ GroupLeads(x, p) \/ MappedLeads(x, p)
AddressEnter(b, q) == Ip4Enter(b, q) \/ GroupEnter(b, q) \/ MappedEnter(b, q)
AddressOn(p, b, q) == Ip4On(p, b, q) \/ GroupOn(p, b, q) \/ MappedOn(p, b, q)

\* Where an address leads, one byte later.
LEMMA AddressMore ==
  ASSUME NEW x \in Seq(Byte), NEW b \in Byte, NEW q
  PROVE  AddressLeads(Append(x, b), q) <=>
           \/ x = <<>> /\ AddressEnter(b, q)
           \/ \E p : AddressLeads(x, p) /\ AddressOn(p, b, q)
<1> DEFINE y == Append(x, b)
<1>1. Ip4Leads(y, q) <=> (x = <<>> /\ Ip4Enter(b, q)) \/ \E p : Ip4Leads(x, p) /\ Ip4On(p, b, q)
  BY Ip4More
<1>2. GroupLeads(y, q) <=> (x = <<>> /\ GroupEnter(b, q)) \/ \E p : GroupLeads(x, p) /\ GroupOn(p, b, q)
  BY GroupMore
<1>3. MappedLeads(y, q) <=>
        \/ x = <<>> /\ MappedEnter(b, q)
        \/ \E p : MappedLeads(x, p) /\ (MappedOn(p, b, q) \/ Ip4On(p, b, q))
  BY MappedMore
<1> HIDE DEF y
<1>4. ASSUME NEW p, AddressLeads(x, p), AddressOn(p, b, q)
      PROVE  \/ Ip4Leads(x, p) /\ Ip4On(p, b, q)
             \/ GroupLeads(x, p) /\ GroupOn(p, b, q)
             \/ MappedLeads(x, p) /\ (MappedOn(p, b, q) \/ Ip4On(p, b, q))
  <2>1. /\ Ip4Leads(x, p) => p[1] = "ip4"
        /\ Ip4On(p, b, q) => p[1] = "ip4"
        /\ GroupLeads(x, p) => p[1] = "ip6"
        /\ GroupOn(p, b, q) => p[1] = "ip6"
        /\ MappedLeads(x, p) => p[1] \in {"mapped", "ip4"}
        /\ MappedOn(p, b, q) => p[1] = "mapped"
    BY AddressAreas
  <2> QED
    BY <1>4, <2>1 DEF AddressLeads, AddressOn
<1>5. \A p : /\ Ip4Leads(x, p) /\ Ip4On(p, b, q) => AddressLeads(x, p) /\ AddressOn(p, b, q)
             /\ GroupLeads(x, p) /\ GroupOn(p, b, q) => AddressLeads(x, p) /\ AddressOn(p, b, q)
             /\ MappedLeads(x, p) /\ (MappedOn(p, b, q) \/ Ip4On(p, b, q)) =>
                  AddressLeads(x, p) /\ AddressOn(p, b, q)
  BY DEF AddressLeads, AddressOn
<1>6. AddressLeads(y, q) <=> Ip4Leads(y, q) \/ GroupLeads(y, q) \/ MappedLeads(y, q)
  BY DEF AddressLeads
<1>7. AddressEnter(b, q) <=> Ip4Enter(b, q) \/ GroupEnter(b, q) \/ MappedEnter(b, q)
  BY DEF AddressEnter
<1>8. AddressLeads(y, q) <=>
        \/ x = <<>> /\ AddressEnter(b, q)
        \/ \E p : AddressLeads(x, p) /\ AddressOn(p, b, q)
  BY <1>1, <1>2, <1>3, <1>4, <1>5, <1>6, <1>7
<1> QED
  BY <1>8 DEF y

\* An address is a text that leads to an end of one.
LEMMA AddressAtEnd ==
  ASSUME NEW x \in Seq(Byte)
  PROVE  IsIp4(x) \/ IsIp6(x) <=> \E p \in AddressEnds : AddressLeads(x, p)
<1> DEFINE P == Parts(x, {":"})
           n == NumParts(x, {":"})
           z == LastPart(x, {":"})
<1>1. n \in Nat \ {0} /\ n = Len(P) /\ z = P[n] /\ DOMAIN P = 1 .. n /\ P \in Seq(Seq(Byte))
  BY PartsType DEF NumParts, LastPart
<1>2. z \in Seq(Byte)
  BY <1>1
<1>n. Groups \in Nat \ {0} /\ Zeros \in Nat \ {0}
  BY GroupNumbers
<1>3. IsIp6(x) <=>
        \/ n = Groups /\ \A k \in 1 .. n : IsGroup(P[k])
        \/ /\ n = Zeros + 2
           /\ \A k \in 1 .. Zeros : P[k] = <<"0">>
           /\ P[Zeros + 1] = <<"0">> \/ (Len(P[Zeros + 1]) = 4 /\ AllF(P[Zeros + 1]))
           /\ IsIp4(P[Zeros + 2])
  BY <1>1 DEF IsIp6, IsGroup, AllF, Hex
<1>4. AddressEnds = {Ip4Digit(4, d) : d \in 1 .. 3} \cup {Ip6Group(Groups)}
  <2>1. \A d \in 1 .. 3 : <<"ip4", "digit", PartDigits * (AddressParts - 1) + d>> = Ip4Digit(4, d)
    BY DEF Ip4Digit, PartDigits, AddressParts
  <2>2. {<<"ip4", "digit", PartDigits * (AddressParts - 1) + d>> : d \in 1 .. PartDigits}
          = {Ip4Digit(4, d) : d \in 1 .. 3}
    BY <2>1 DEF PartDigits
  <2> QED
    BY <2>2 DEF AddressEnds, Ip6Group
<1>5. (n = Groups /\ \A k \in 1 .. n : IsGroup(P[k])) <=> GroupLeads(x, Ip6Group(Groups))
  <2>1. \A k : k \in 1 .. n <=> k \in 1 .. n - 1 \/ k = n
    BY <1>1
  <2>2. GroupsBefore(x) <=> \A k \in 1 .. n - 1 : IsGroup(P[k])
    BY DEF GroupsBefore
  <2>3. \A p : GroupLeads(x, p) <=>
          /\ n <= Groups /\ GroupsBefore(x)
          /\ \/ p = Ip6Group(n) /\ IsGroup(z)
             \/ p = Ip6Colon(n - 1) /\ n >= 2 /\ z = <<>>
    BY DEF GroupLeads
  <2>4. /\ \A i, j : Ip6Group(i) = Ip6Group(j) => i = j
        /\ \A i, j : Ip6Group(i) # Ip6Colon(j)
    BY DEF Ip6Group, Ip6Colon
  <2> HIDE DEF P, n, z
  <2>5. GroupLeads(x, Ip6Group(Groups)) <=> n = Groups /\ GroupsBefore(x) /\ IsGroup(z)
    BY <1>1, <1>n, <2>3, <2>4
  <2>6. (\A k \in 1 .. n : IsGroup(P[k])) <=> GroupsBefore(x) /\ IsGroup(z)
    BY <1>1, <2>1, <2>2
  <2> QED
    BY <2>5, <2>6
<1>6. (/\ n = Zeros + 2
       /\ \A k \in 1 .. Zeros : P[k] = <<"0">>
       /\ P[Zeros + 1] = <<"0">> \/ (Len(P[Zeros + 1]) = 4 /\ AllF(P[Zeros + 1]))
       /\ IsIp4(P[Zeros + 2]))
      <=> Mapping(x) /\ IsIp4(z)
  BY <1>1, <1>n DEF Mapping, ZerosUpto
<1>7. IsIp4(x) <=> \E d \in 1 .. 3 : Ip4Leads(x, Ip4Digit(4, d))
  BY Ip4AtEnd
<1>8. IsIp4(z) <=> \E d \in 1 .. 3 : Ip4Leads(z, Ip4Digit(4, d))
  BY <1>2, Ip4AtEnd
<1>9. \A d : MappedLeads(x, Ip4Digit(4, d)) <=> Mapping(x) /\ Ip4Leads(z, Ip4Digit(4, d))
  <2>1. \A d : Ip4Digit(4, d)[1] = "ip4"
    BY DEF Ip4Digit
  <2>2. \A p : MappedLeads(x, p) <=>
          \/ Zeroed(x) /\ z = <<"0">> /\ p = MappedZero(n)
          \/ Zeroed(x) /\ z = <<>> /\ n >= 2 /\ p = MappedColon(n - 1)
          \/ Zeroed(x) /\ n = Zeros + 1 /\ AllF(z) /\ Len(z) \in 1 .. 4 /\ p = MappedF(Len(z))
          \/ Mapping(x) /\ z = <<>> /\ p = MappedColon(Zeros + 1)
          \/ Mapping(x) /\ Ip4Leads(z, p)
    BY DEF MappedLeads
  <2> HIDE DEF n, z
  <2> QED
    BY <2>1, <2>2, MappedApart
<1>10. \A d : Ip4Digit(4, d)[1] = "ip4" /\ ~GroupLeads(x, Ip4Digit(4, d))
  <2>1. \A d : Ip4Digit(4, d)[1] = "ip4"
    BY DEF Ip4Digit
  <2> QED
    BY <2>1, AddressAreas
<1>11. ~Ip4Leads(x, Ip6Group(Groups)) /\ ~MappedLeads(x, Ip6Group(Groups))
  <2>1. Ip6Group(Groups)[1] = "ip6"
    BY DEF Ip6Group
  <2> QED
    BY <2>1, AddressAreas
<1> HIDE DEF P, n, z
<1>12. \A d : AddressLeads(x, Ip4Digit(4, d)) <=>
         Ip4Leads(x, Ip4Digit(4, d)) \/ (Mapping(x) /\ Ip4Leads(z, Ip4Digit(4, d)))
  BY <1>9, <1>10 DEF AddressLeads
<1>13. AddressLeads(x, Ip6Group(Groups)) <=> GroupLeads(x, Ip6Group(Groups))
  BY <1>11 DEF AddressLeads
<1>14. IsIp6(x) <=> GroupLeads(x, Ip6Group(Groups)) \/ (Mapping(x) /\ IsIp4(z))
  BY <1>3, <1>5, <1>6
<1>15. (\E p \in AddressEnds : AddressLeads(x, p)) <=>
         \/ \E d \in 1 .. 3 : AddressLeads(x, Ip4Digit(4, d))
         \/ AddressLeads(x, Ip6Group(Groups))
  BY <1>4
<1> QED
  BY <1>7, <1>8, <1>12, <1>13, <1>14, <1>15

-----------------------------------------------------------------------------
(* Prefixes.                                                                *)

\* A nick, with a user where there is one.
IsName(s) ==
  /\ IsNick(Before(s, {"!"}))
  /\ Has(s, "!") => Nonempty(After(s, {"!"}), UserByte)

\* Where a text that begins a hostmask leads: in its nick, user or host; and where
\* one that begins a prefix does.
MaskLeads(x, p) ==
  \/ x = <<>> /\ p = Colon
  \/ /\ ~Has(x, "@") /\ ~Has(x, "!") /\ IsNick(x) /\ p = Nick(Len(x))
  \/ /\ ~Has(x, "@") /\ Has(x, "!") /\ IsNick(Before(x, {"!"}))
     /\ \/ After(x, {"!"}) = <<>> /\ p = Bang
        \/ Nonempty(After(x, {"!"}), UserByte) /\ p = User
  \/ /\ Has(x, "@") /\ IsName(Before(x, {"@"}))
     /\ \/ After(x, {"@"}) = <<>> /\ p = At
        \/ HostLeads("host", After(x, {"@"}), p)
        \/ AddressLeads(After(x, {"@"}), p)

PrefixLeads(x, p) == HostLeads("server", x, p) \/ MaskLeads(x, p)

\* The edges within a prefix.
NickByte == Alnum \cup Special \cup {"-"}
MaskOn(p, b, q) ==
  \/ p = Colon /\ b \in Letter \cup Special /\ q = Nick(1)
  \/ \E k \in 1 .. NickBytes - 1 : p = Nick(k) /\ b \in NickByte /\ q = Nick(k + 1)
  \/ \E k \in 1 .. NickBytes : p = Nick(k) /\ b = "!" /\ q = Bang
  \/ \E k \in 1 .. NickBytes : p = Nick(k) /\ b = "@" /\ q = At
  \/ p = Bang /\ b \in UserByte /\ q = User
  \/ p = User /\ b \in UserByte /\ q = User
  \/ p = User /\ b = "@" /\ q = At
  \/ p = At /\ HostEnter("host", b, q)
  \/ HostOn("host", p, b, q)
  \/ p = At /\ AddressEnter(b, q)
  \/ AddressOn(p, b, q)
PrefixOn(p, b, q) ==
  \/ p = Colon /\ HostEnter("server", b, q)
  \/ HostOn("server", p, b, q)
  \/ MaskOn(p, b, q)

\* A nick, one byte later.
LEMMA NickStep ==
  ASSUME NEW s \in Seq(Byte), NEW b \in Byte
  PROVE  /\ IsNick(Append(s, b)) <=>
              \/ s = <<>> /\ b \in Letter \cup Special
              \/ IsNick(s) /\ Len(s) <= NickBytes - 1 /\ b \in NickByte
         /\ IsNick(s) => Len(s) \in 1 .. NickBytes /\ s # <<>>
         /\ ~IsNick(<<>>)
         /\ Len(Append(s, b)) = Len(s) + 1
<1>1. /\ Nonempty(Append(s, b), NickByte) <=> Only(s, NickByte) /\ b \in NickByte
      /\ Only(s, NickByte) <=> s = <<>> \/ Nonempty(s, NickByte)
      /\ ~Nonempty(<<>>, NickByte)
  BY OnlyMore
<1>2. /\ s = <<>> => Append(s, b)[1] = b /\ Len(Append(s, b)) = 1
      /\ s # <<>> => Append(s, b)[1] = s[1] /\ Len(s) >= 1
  BY FirstMore
<1>3. Len(Append(s, b)) = Len(s) + 1 /\ Len(s) \in Nat
  BY AppendType
<1>4. NickBytes \in Nat \ {0}
  BY GroupNumbers
<1>5. Letter \cup Special \subseteq NickByte
  BY DEF NickByte, Alnum
<1> DEFINE l == Len(s)
           t == Append(s, b)
<1>6. IsNick(s) <=> Nonempty(s, NickByte) /\ s[1] \in Letter \cup Special /\ l <= NickBytes
  BY DEF IsNick, NickByte
<1>7. IsNick(t) <=> Nonempty(t, NickByte) /\ t[1] \in Letter \cup Special /\ l + 1 <= NickBytes
  BY <1>3 DEF IsNick, NickByte
<1>8. l + 1 <= NickBytes <=> l <= NickBytes - 1
  BY <1>3, <1>4
<1>9. l <= NickBytes - 1 => l <= NickBytes
  BY <1>3, <1>4
<1>10. s = <<>> => l + 1 <= NickBytes
  <2>1. s = <<>> => l = 0
    OBVIOUS
  <2> HIDE DEF l
  <2> QED
    BY <1>4, <2>1
<1>11. s # <<>> /\ l <= NickBytes => l \in 1 .. NickBytes
  <2>1. s # <<>> => l >= 1
    BY <1>2
  <2> QED
    BY <1>3, <1>4, <2>1
<1>12. s # <<>> => Append(s, b)[1] = s[1]
  BY <1>2
<1>13. s = <<>> => Append(s, b)[1] = b
  BY <1>2
<1> HIDE DEF l
<1>14. IsNick(t) <=>
         \/ s = <<>> /\ b \in Letter \cup Special
         \/ IsNick(s) /\ l <= NickBytes - 1 /\ b \in NickByte
  <2>1. CASE s = <<>>
    <3>1. ~IsNick(s)
      BY <1>1, <1>6, <2>1
    <3> QED
      BY <1>1, <1>5, <1>7, <1>10, <1>13, <2>1, <3>1
  <2>2. CASE s # <<>>
    BY <1>1, <1>6, <1>7, <1>8, <1>9, <1>12, <2>2
  <2> QED
    BY <2>1, <2>2
<1>15. IsNick(s) => s # <<>>
  BY <1>6 DEF Nonempty
<1>16. IsNick(s) => l \in 1 .. NickBytes
  BY <1>6, <1>11, <1>15
<1>17. ~IsNick(<<>>)
  BY DEF IsNick, Nonempty
<1> QED
  BY <1>3, <1>14, <1>15, <1>16, <1>17 DEF l, t

AddressParts3 == {"ip4", "ip6", "mapped"}

\* The areas of the positions of a prefix.
LEMMA HostAreas2 ==
  /\ \A where, x, p : HostLeads(where, x, p) => p[1] = where
  /\ \A where, p, b, q : HostOn(where, p, b, q) => p[1] = where /\ q[1] = where
  /\ \A where, b, q : HostEnter(where, b, q) => q[1] = where
  /\ \A x, p : AddressLeads(x, p) => p[1] \in AddressParts3
  /\ \A p, b, q : AddressOn(p, b, q) => p[1] \in AddressParts3 /\ q[1] \in AddressParts3
  /\ \A b, q : AddressEnter(b, q) => q[1] \in AddressParts3
<1>1. /\ \A where, x, p : HostLeads(where, x, p) => p[1] = where
      /\ \A where, p, b, q : HostOn(where, p, b, q) => p[1] = where /\ q[1] = where
      /\ \A where, b, q : HostEnter(where, b, q) => q[1] = where
  BY DEF HostLeads, HostOn, HostEnter
<1>2. /\ \A x, p : AddressLeads(x, p) => p[1] \in AddressParts3
      /\ \A p, b, q : AddressOn(p, b, q) => p[1] \in AddressParts3 /\ q[1] \in AddressParts3
      /\ \A b, q : AddressEnter(b, q) => q[1] \in AddressParts3
  BY AddressAreas DEF AddressLeads, AddressOn, AddressEnter, AddressParts3
<1> QED
  BY <1>1, <1>2

\* No text leads nowhere within a host.
LEMMA HostNothing ==
  /\ \A where, q : ~HostLeads(where, <<>>, q)
  /\ \A q : ~AddressLeads(<<>>, q)
<1>1. NumParts(<<>>, Cutters) = 1 /\ LastPart(<<>>, Cutters) = <<>>
  BY PartsNothing
<1>2. ~Label(<<>>) /\ <<>> # <<"*">>
  BY DEF Label, Nonempty
<1>3. \A where, q : ~HostLeads(where, <<>>, q)
  BY <1>1, <1>2 DEF HostLeads
<1>4. NumParts(<<>>, {":"}) = 1 /\ LastPart(<<>>, {":"}) = <<>>
  BY PartsNothing
<1>5. ~IsGroup(<<>>) /\ <<>> # <<"0">>
  BY DEF IsGroup, Nonempty
<1>6. \A q : ~GroupLeads(<<>>, q)
  BY <1>4, <1>5 DEF GroupLeads
<1>7. Zeros \in Nat \ {0}
  BY GroupNumbers
<1>8. ~Mapping(<<>>)
  BY <1>4, <1>7 DEF Mapping
<1>9. Len(<<>>) \notin 1 .. 4
  OBVIOUS
<1>10. \A q : ~MappedLeads(<<>>, q)
  BY <1>4, <1>5, <1>8, <1>9 DEF MappedLeads
<1> QED
  BY <1>3, <1>6, <1>10, NoAddress DEF AddressLeads

\* The positions of a prefix are different.
LEMMA PrefixAreas ==
  /\ Colon[1] = "prefix" /\ Bang[1] = "hostmask" /\ At[1] = "hostmask" /\ User[1] = "user"
  /\ Bang # At /\ Space[1] = "prefix" /\ Colon # Space
  /\ \A k : Nick(k)[1] = "nick"
  /\ \A j, k : Nick(j) = Nick(k) => j = k
BY DEF Colon, Bang, At, User, Nick, Space

\* The edges from each position of a hostmask.
LEMMA MaskOnFrom ==
  ASSUME NEW b, NEW q
  PROVE  /\ MaskOn(Colon, b, q) <=> b \in Letter \cup Special /\ q = Nick(1)
         /\ \A k \in 1 .. NickBytes :
              MaskOn(Nick(k), b, q) <=>
                \/ k <= NickBytes - 1 /\ b \in NickByte /\ q = Nick(k + 1)
                \/ b = "!" /\ q = Bang
                \/ b = "@" /\ q = At
         /\ MaskOn(Bang, b, q) <=> b \in UserByte /\ q = User
         /\ MaskOn(User, b, q) <=> (b \in UserByte /\ q = User) \/ (b = "@" /\ q = At)
         /\ MaskOn(At, b, q) <=> HostEnter("host", b, q) \/ AddressEnter(b, q)
         /\ \A p : p[1] = "host" => (MaskOn(p, b, q) <=> HostOn("host", p, b, q))
         /\ \A p : p[1] \in AddressParts3 => (MaskOn(p, b, q) <=> AddressOn(p, b, q))
         /\ \A p : p[1] = "server" => ~MaskOn(p, b, q)
<1> USE HostAreas2, PrefixAreas
<1>1. MaskOn(Colon, b, q) <=> b \in Letter \cup Special /\ q = Nick(1)
  BY DEF MaskOn, AddressParts3
<1>2. ASSUME NEW k \in 1 .. NickBytes
      PROVE  MaskOn(Nick(k), b, q) <=>
                \/ k <= NickBytes - 1 /\ b \in NickByte /\ q = Nick(k + 1)
                \/ b = "!" /\ q = Bang
                \/ b = "@" /\ q = At
  <2>1. /\ Nick(k) # Colon /\ Nick(k) # Bang /\ Nick(k) # User /\ Nick(k) # At
        /\ ~HostOn("host", Nick(k), b, q) /\ ~AddressOn(Nick(k), b, q)
    BY DEF AddressParts3
  <2>2. NickBytes \in Nat \ {0}
    BY GroupNumbers
  <2>3. (\E j \in 1 .. NickBytes - 1 : Nick(k) = Nick(j) /\ b \in NickByte /\ q = Nick(j + 1))
          <=> k <= NickBytes - 1 /\ b \in NickByte /\ q = Nick(k + 1)
    BY <2>2
  <2>4. /\ (\E j \in 1 .. NickBytes : Nick(k) = Nick(j) /\ b = "!" /\ q = Bang) <=> b = "!" /\ q = Bang
        /\ (\E j \in 1 .. NickBytes : Nick(k) = Nick(j) /\ b = "@" /\ q = At) <=> b = "@" /\ q = At
    OBVIOUS
  <2> QED
    BY <2>1, <2>3, <2>4 DEF MaskOn
<1>3. MaskOn(Bang, b, q) <=> b \in UserByte /\ q = User
  BY DEF MaskOn, AddressParts3
<1>4. MaskOn(User, b, q) <=> (b \in UserByte /\ q = User) \/ (b = "@" /\ q = At)
  BY DEF MaskOn, AddressParts3
<1>5. MaskOn(At, b, q) <=> HostEnter("host", b, q) \/ AddressEnter(b, q)
  BY DEF MaskOn, AddressParts3
<1>6. ASSUME NEW p, p[1] = "host"
      PROVE  MaskOn(p, b, q) <=> HostOn("host", p, b, q)
  BY <1>6 DEF MaskOn, AddressParts3
<1>7. ASSUME NEW p, p[1] \in AddressParts3
      PROVE  MaskOn(p, b, q) <=> AddressOn(p, b, q)
  BY <1>7 DEF MaskOn, AddressParts3
<1>8. ASSUME NEW p, p[1] = "server"
      PROVE  ~MaskOn(p, b, q)
  BY <1>8 DEF MaskOn, AddressParts3
<1> QED
  BY <1>1, <1>2, <1>3, <1>4, <1>5, <1>6, <1>7, <1>8

\* Where a hostmask leads, one byte later.
LEMMA MaskMore ==
  ASSUME NEW x \in Seq(Byte), NEW b \in Byte, NEW q
  PROVE  MaskLeads(Append(x, b), q) <=> \E p : MaskLeads(x, p) /\ MaskOn(p, b, q)
<1> DEFINE y == Append(x, b)
           name == Before(x, {"@"})
           host == After(x, {"@"})
           nick == Before(x, {"!"})
           user == After(x, {"!"})
<1>0. y \in Seq(Byte) /\ y # <<>> /\ Len(y) = Len(x) + 1
  BY AppendType
<1>1. /\ Has(y, "@") <=> Has(x, "@") \/ b = "@"
      /\ Has(x, "@") => Before(y, {"@"}) = name /\ After(y, {"@"}) = Append(host, b)
      /\ ~Has(x, "@") /\ b = "@" => Before(y, {"@"}) = x /\ After(y, {"@"}) = <<>>
  <2> DEFINE c == "@"
  <2> HIDE DEF c
  <2>1. LET t == Append(x, b) IN
        /\ Has(t, c) <=> Has(x, c) \/ b = c
        /\ Has(x, c) => /\ Before(t, {c}) = Before(x, {c})
                        /\ After(t, {c}) = Append(After(x, {c}), b)
        /\ ~Has(x, c) /\ b = c => Before(t, {c}) = x /\ After(t, {c}) = <<>>
    BY CutMore
  <2> QED
    BY <2>1 DEF c
<1>2. /\ Has(y, "!") <=> Has(x, "!") \/ b = "!"
      /\ Has(x, "!") => Before(y, {"!"}) = nick /\ After(y, {"!"}) = Append(user, b)
      /\ ~Has(x, "!") /\ b = "!" => Before(y, {"!"}) = x /\ After(y, {"!"}) = <<>>
  <2> DEFINE c == "!"
  <2> HIDE DEF c
  <2>1. LET t == Append(x, b) IN
        /\ Has(t, c) <=> Has(x, c) \/ b = c
        /\ Has(x, c) => /\ Before(t, {c}) = Before(x, {c})
                        /\ After(t, {c}) = Append(After(x, {c}), b)
        /\ ~Has(x, c) /\ b = c => Before(t, {c}) = x /\ After(t, {c}) = <<>>
    BY CutMore
  <2> QED
    BY <2>1 DEF c
<1>3. /\ name \in Seq(Byte) /\ host \in Seq(Byte) /\ nick \in Seq(Byte) /\ user \in Seq(Byte)
      /\ ~Has(x, "!") => nick = x
  BY CutType
<1>4. MaskLeads(y, q) <=>
        \/ ~Has(y, "@") /\ ~Has(y, "!") /\ IsNick(y) /\ q = Nick(Len(y))
        \/ /\ ~Has(y, "@") /\ Has(y, "!") /\ IsNick(Before(y, {"!"}))
           /\ \/ After(y, {"!"}) = <<>> /\ q = Bang
              \/ Nonempty(After(y, {"!"}), UserByte) /\ q = User
        \/ /\ Has(y, "@") /\ IsName(Before(y, {"@"}))
           /\ \/ After(y, {"@"}) = <<>> /\ q = At
              \/ HostLeads("host", After(y, {"@"}), q)
              \/ AddressLeads(After(y, {"@"}), q)
  BY <1>0 DEF MaskLeads
<1>5. \A p : MaskLeads(x, p) <=>
        \/ x = <<>> /\ p = Colon
        \/ ~Has(x, "@") /\ ~Has(x, "!") /\ IsNick(x) /\ p = Nick(Len(x))
        \/ /\ ~Has(x, "@") /\ Has(x, "!") /\ IsNick(nick)
           /\ \/ user = <<>> /\ p = Bang
              \/ Nonempty(user, UserByte) /\ p = User
        \/ /\ Has(x, "@") /\ IsName(name)
           /\ \/ host = <<>> /\ p = At
              \/ HostLeads("host", host, p)
              \/ AddressLeads(host, p)
  BY DEF MaskLeads
<1>6. /\ MaskOn(Colon, b, q) <=> b \in Letter \cup Special /\ q = Nick(1)
      /\ \A k \in 1 .. NickBytes :
              MaskOn(Nick(k), b, q) <=>
                \/ k <= NickBytes - 1 /\ b \in NickByte /\ q = Nick(k + 1)
                \/ b = "!" /\ q = Bang
                \/ b = "@" /\ q = At
      /\ MaskOn(Bang, b, q) <=> b \in UserByte /\ q = User
      /\ MaskOn(User, b, q) <=> (b \in UserByte /\ q = User) \/ (b = "@" /\ q = At)
      /\ MaskOn(At, b, q) <=> HostEnter("host", b, q) \/ AddressEnter(b, q)
      /\ \A p : p[1] = "host" => (MaskOn(p, b, q) <=> HostOn("host", p, b, q))
      /\ \A p : p[1] \in AddressParts3 => (MaskOn(p, b, q) <=> AddressOn(p, b, q))
  BY MaskOnFrom
<1>7. x = <<>> => ~Has(x, "@") /\ ~Has(x, "!")
  BY NothingHas
<1>8. /\ \A c \in Letter \cup Special : c # "@" /\ c # "!"
      /\ \A c \in NickByte : c # "@" /\ c # "!"
      /\ "@" \notin UserByte
  BY NoMarks DEF NickByte, UserByte, Alnum
<1> HIDE DEF y, name, host, nick, user
<1>9. CASE Has(x, "@")
  <2>1. MaskLeads(y, q) <=> IsName(name) /\ (HostLeads("host", Append(host, b), q) \/ AddressLeads(Append(host, b), q))
    <3>1. Append(host, b) # <<>>
      BY <1>3, AppendType
    <3> QED
      BY <1>1, <1>4, <1>9, <3>1
  <2>2. \A p : MaskLeads(x, p) <=>
          IsName(name) /\ ((host = <<>> /\ p = At) \/ HostLeads("host", host, p) \/ AddressLeads(host, p))
    BY <1>5, <1>7, <1>9
  <2>3. HostLeads("host", Append(host, b), q) <=>
           \/ host = <<>> /\ HostEnter("host", b, q)
           \/ \E p : HostLeads("host", host, p) /\ HostOn("host", p, b, q)
    BY <1>3, HostnameMore
  <2>4. AddressLeads(Append(host, b), q) <=>
           \/ host = <<>> /\ AddressEnter(b, q)
           \/ \E p : AddressLeads(host, p) /\ AddressOn(p, b, q)
    BY <1>3, AddressMore
  <2>5. \A p : /\ HostLeads("host", host, p) => (MaskOn(p, b, q) <=> HostOn("host", p, b, q))
               /\ AddressLeads(host, p) => (MaskOn(p, b, q) <=> AddressOn(p, b, q))
    BY <1>6, HostAreas2
  <2> QED
    BY <1>6, <2>1, <2>2, <2>3, <2>4, <2>5 DEF y
<1>10. CASE ~Has(x, "@") /\ Has(x, "!")
  <2>1. \A p : MaskLeads(x, p) <=>
          IsNick(nick) /\ ((user = <<>> /\ p = Bang) \/ (Nonempty(user, UserByte) /\ p = User))
    BY <1>5, <1>7, <1>10
  <2>2. CASE b = "@"
    <3>1. IsName(x) <=> IsNick(nick) /\ Nonempty(user, UserByte)
      BY <1>10 DEF IsName, nick, user
    <3>2. MaskLeads(y, q) <=> IsName(x) /\ q = At
      BY <1>1, <1>4, <1>10, <2>2, HostNothing
    <3> QED
      BY <1>6, <1>8, <2>1, <2>2, <3>1, <3>2 DEF y
  <2>3. CASE b # "@"
    <3>1. /\ Nonempty(Append(user, b), UserByte) <=> Only(user, UserByte) /\ b \in UserByte
          /\ Only(user, UserByte) <=> user = <<>> \/ Nonempty(user, UserByte)
      BY <1>3, OnlyMore
    <3>2. Append(user, b) # <<>>
      BY <1>3, AppendType
    <3>3. MaskLeads(y, q) <=> IsNick(nick) /\ Nonempty(Append(user, b), UserByte) /\ q = User
      BY <1>1, <1>2, <1>4, <1>10, <2>3, <3>2
    <3> QED
      BY <1>6, <2>1, <2>3, <3>1, <3>3 DEF y
  <2> QED
    BY <2>2, <2>3
<1>11. CASE ~Has(x, "@") /\ ~Has(x, "!")
  <2> DEFINE l == Len(x)
  <2>1. \A p : MaskLeads(x, p) <=> (x = <<>> /\ p = Colon) \/ (IsNick(x) /\ p = Nick(l))
    BY <1>5, <1>11
  <2>2. /\ IsNick(y) <=>
              \/ x = <<>> /\ b \in Letter \cup Special
              \/ IsNick(x) /\ l <= NickBytes - 1 /\ b \in NickByte
        /\ IsNick(x) => l \in 1 .. NickBytes /\ x # <<>>
        /\ ~IsNick(<<>>)
        /\ Len(y) = l + 1
    BY NickStep DEF y
  <2>3. x = <<>> => l + 1 = 1
    OBVIOUS
  <2> HIDE DEF l
  <2>4. IsNick(x) => (MaskOn(Nick(l), b, q) <=>
                        \/ l <= NickBytes - 1 /\ b \in NickByte /\ q = Nick(l + 1)
                        \/ b = "!" /\ q = Bang
                        \/ b = "@" /\ q = At)
    BY <1>6, <2>2
  <2>5. (\E p : MaskLeads(x, p) /\ MaskOn(p, b, q)) <=>
           (x = <<>> /\ MaskOn(Colon, b, q)) \/ (IsNick(x) /\ MaskOn(Nick(l), b, q))
    BY <2>1
  <2>6. CASE b = "@"
    <3>1. IsName(x) <=> IsNick(x)
      BY <1>3, <1>11 DEF IsName, nick
    <3>2. MaskLeads(y, q) <=> IsName(x) /\ q = At
      BY <1>1, <1>4, <1>11, <2>6, HostNothing
    <3> QED
      BY <1>6, <1>8, <2>2, <2>4, <2>5, <2>6, <3>1, <3>2 DEF y
  <2>7. CASE b = "!"
    <3>1. MaskLeads(y, q) <=> IsNick(x) /\ q = Bang
      <4>1. ~Nonempty(<<>>, UserByte)
        BY DEF Nonempty
      <4> QED
        BY <1>1, <1>2, <1>4, <1>11, <2>7, <4>1
    <3> QED
      BY <1>6, <1>8, <2>2, <2>4, <2>5, <2>7, <3>1 DEF y
  <2>8. CASE b # "@" /\ b # "!"
    <3>1. MaskLeads(y, q) <=> IsNick(y) /\ q = Nick(l + 1)
      BY <1>1, <1>2, <1>4, <1>11, <2>2, <2>8
    <3> QED
      BY <1>6, <2>2, <2>3, <2>4, <2>5, <2>8, <3>1 DEF y
  <2> QED
    BY <2>6, <2>7, <2>8
<1> QED
  BY <1>9, <1>10, <1>11

\* The areas of a hostmask.
MaskAreas == {"prefix", "hostmask", "nick", "user", "host", "ip4", "ip6", "mapped"}

\* Where the texts of a hostmask lead.
LEMMA MaskPlaces ==
  ASSUME NEW x, NEW p, MaskLeads(x, p)
  PROVE  p[1] \in MaskAreas /\ (p = Colon => x = <<>>)
BY HostAreas2, PrefixAreas DEF MaskLeads, MaskAreas, AddressParts3

\* Where a prefix leads, one byte later.
LEMMA PrefixMore ==
  ASSUME NEW x \in Seq(Byte), NEW b \in Byte, NEW q
  PROVE  PrefixLeads(Append(x, b), q) <=> \E p : PrefixLeads(x, p) /\ PrefixOn(p, b, q)
<1> DEFINE s == "server"
<1> HIDE DEF s
<1>1. HostLeads(s, Append(x, b), q) <=>
        \/ x = <<>> /\ HostEnter(s, b, q)
        \/ \E p : HostLeads(s, x, p) /\ HostOn(s, p, b, q)
  BY HostnameMore
<1>2. MaskLeads(Append(x, b), q) <=> \E p : MaskLeads(x, p) /\ MaskOn(p, b, q)
  BY MaskMore
<1>3. MaskLeads(x, Colon) <=> x = <<>>
  BY MaskPlaces DEF MaskLeads
<1>4. \A p : HostLeads(s, x, p) => p[1] = s /\ p # Colon /\ ~MaskOn(p, b, q)
  <2>1. s # "prefix" /\ s = "server"
    BY DEF s
  <2>2. \A p : p[1] = "server" => ~MaskOn(p, b, q)
    BY MaskOnFrom
  <2> QED
    BY <2>1, <2>2, HostAreas2, PrefixAreas
<1>5. \A p : MaskLeads(x, p) => p[1] # s
  BY MaskPlaces DEF MaskAreas, s
<1>6. \A p : HostOn(s, p, b, q) => p[1] = s
  BY HostAreas2
<1>7. /\ \A y, p : PrefixLeads(y, p) <=> HostLeads(s, y, p) \/ MaskLeads(y, p)
      /\ \A p : PrefixOn(p, b, q) <=>
           (p = Colon /\ HostEnter(s, b, q)) \/ HostOn(s, p, b, q) \/ MaskOn(p, b, q)
  BY DEF PrefixLeads, PrefixOn, s
<1>8. ASSUME NEW p, PrefixLeads(x, p), PrefixOn(p, b, q)
      PROVE  \/ MaskLeads(x, p) /\ MaskOn(p, b, q)
             \/ x = <<>> /\ HostEnter(s, b, q)
             \/ HostLeads(s, x, p) /\ HostOn(s, p, b, q)
  BY <1>3, <1>4, <1>5, <1>6, <1>7, <1>8
<1>9. ASSUME \E p : PrefixLeads(x, p) /\ PrefixOn(p, b, q)
      PROVE  PrefixLeads(Append(x, b), q)
  BY <1>1, <1>2, <1>7, <1>8, <1>9
<1>10. ASSUME PrefixLeads(Append(x, b), q)
       PROVE  \E p : PrefixLeads(x, p) /\ PrefixOn(p, b, q)
  <2>1. CASE MaskLeads(Append(x, b), q)
    BY <1>2, <1>7, <2>1
  <2>2. CASE HostLeads(s, Append(x, b), q)
    BY <1>1, <1>3, <1>7, <2>2
  <2> QED
    BY <1>7, <1>10, <2>1, <2>2
<1> QED
  BY <1>9, <1>10

\* A prefix is a server's name, or a hostmask, if it leads to an end of one.
LEMMA PrefixAtEnd ==
  ASSUME NEW x \in Seq(Byte)
  PROVE  /\ IsHostname(x) <=> \E p \in HostnameEnds("server") : PrefixLeads(x, p)
         /\ IsHostmask(x) <=> \E p \in HostmaskEnds : PrefixLeads(x, p)
<1>1. IsHostname(x) <=> \E p \in HostnameEnds("server") : PrefixLeads(x, p)
  <2> DEFINE s == "server"
  <2> HIDE DEF s
  <2>1. IsHostname(x) <=> \E p \in HostnameEnds(s) : HostLeads(s, x, p)
    BY HostnameAtEnd
  <2>2. \A p \in HostnameEnds(s) : p[1] = s
    BY HostnameEndAreas
  <2>3. \A p : MaskLeads(x, p) => p[1] # s
    BY MaskPlaces DEF MaskAreas, s
  <2>4. \A p : PrefixLeads(x, p) <=> HostLeads(s, x, p) \/ MaskLeads(x, p)
    BY DEF PrefixLeads, s
  <2>5. IsHostname(x) <=> \E p \in HostnameEnds(s) : PrefixLeads(x, p)
    BY <2>1, <2>2, <2>3, <2>4
  <2> QED
    BY <2>5 DEF s
<1>2. IsHostmask(x) <=> \E p \in HostmaskEnds : PrefixLeads(x, p)
  <2> DEFINE name == Before(x, {"@"})
             host == After(x, {"@"})
             h == "host"
  <2>1. name \in Seq(Byte) /\ host \in Seq(Byte) /\ (~Has(x, "@") => name = x)
    BY CutType
  <2>2. IsHostmask(x) <=>
          /\ Has(x, "@") => IsHostname(host) \/ IsIp4(host) \/ IsIp6(host)
          /\ Has(x, "!") => Has(x, "@")
          /\ IsName(name)
    BY DEF IsHostmask, IsName
  <2>3. \A p : PrefixLeads(x, p) /\ p[1] # "server" <=> MaskLeads(x, p)
    <3>1. \A p : HostLeads("server", x, p) => p[1] = "server"
      BY HostAreas2
    <3> QED
      BY <3>1, MaskPlaces DEF MaskAreas, PrefixLeads
  <2>4. \A p \in HostmaskEnds : p[1] # "server"
    BY HostmaskEndAreas DEF HostAreas
  <2>5. (\E p \in HostmaskEnds : PrefixLeads(x, p)) <=> \E p \in HostmaskEnds : MaskLeads(x, p)
    BY <2>3, <2>4
  <2>6. /\ \A p : p \in HostmaskEnds <=>
             (\E k \in 1 .. NickBytes : p = Nick(k)) \/ p \in HostnameEnds("host") \/ p \in AddressEnds
        /\ \A p \in HostnameEnds("host") : p[1] = "host"
        /\ \A p \in AddressEnds : p[1] \in AddressParts3
    BY HostnameEndAreas DEF HostmaskEnds, AddressEnds, AddressParts3
  <2>7. \A k : MaskLeads(x, Nick(k)) <=>
           ~Has(x, "@") /\ ~Has(x, "!") /\ IsNick(x) /\ Nick(k) = Nick(Len(x))
    BY PrefixAreas, HostAreas2 DEF MaskLeads, AddressParts3
  <2>8. \A p : p[1] \in {"host"} \cup AddressParts3 =>
          (MaskLeads(x, p) <=>
             Has(x, "@") /\ IsName(name) /\ (HostLeads("host", host, p) \/ AddressLeads(host, p)))
    BY PrefixAreas DEF MaskLeads, AddressParts3
  <2>9. IsHostname(host) <=> \E p \in HostnameEnds("host") : HostLeads("host", host, p)
    <3> HIDE DEF h, host
    <3>1. IsHostname(host) <=> \E p \in HostnameEnds(h) : HostLeads(h, host, p)
      BY <2>1, HostnameAtEnd
    <3> QED
      BY <3>1 DEF h
  <2>10. IsIp4(host) \/ IsIp6(host) <=> \E p \in AddressEnds : AddressLeads(host, p)
    <3> HIDE DEF host
    <3> QED
      BY <2>1, AddressAtEnd
  <2>11. IsNick(x) => Len(x) \in 1 .. NickBytes
    BY IrcsmAssumption, GroupNumbers DEF IsNick, Nonempty
  <2>12. ~Has(x, "@") => (IsName(name) <=> IsNick(Before(x, {"!"})) /\ (Has(x, "!") => Nonempty(After(x, {"!"}), UserByte)))
    BY <2>1 DEF IsName
  <2>13. ~Has(x, "!") => Before(x, {"!"}) = x
    BY CutType
  <2> HIDE DEF name, host
  <2>14. CASE Has(x, "@")
    <3>1. IsHostmask(x) <=> IsName(name) /\ (IsHostname(host) \/ IsIp4(host) \/ IsIp6(host))
      BY <2>2, <2>14
    <3>2. (\E p \in HostmaskEnds : MaskLeads(x, p)) <=>
             \/ \E p \in HostnameEnds("host") : MaskLeads(x, p)
             \/ \E p \in AddressEnds : MaskLeads(x, p)
      BY <2>6, <2>7, <2>14
    <3>3. \A p \in HostnameEnds("host") : MaskLeads(x, p) <=> IsName(name) /\ HostLeads("host", host, p)
      BY <2>6, <2>8, <2>14, HostAreas2 DEF AddressParts3
    <3>4. \A p \in AddressEnds : MaskLeads(x, p) <=> IsName(name) /\ AddressLeads(host, p)
      BY <2>6, <2>8, <2>14, HostAreas2 DEF AddressParts3
    <3> QED
      BY <2>5, <2>9, <2>10, <3>1, <3>2, <3>3, <3>4
  <2>15. CASE ~Has(x, "@")
    <3>1. IsHostmask(x) <=> ~Has(x, "!") /\ IsNick(x)
      BY <2>2, <2>12, <2>13, <2>15
    <3>2. (\E p \in HostmaskEnds : MaskLeads(x, p)) <=> \E k \in 1 .. NickBytes : MaskLeads(x, Nick(k))
      BY <2>6, <2>8, <2>15
    <3>3. (\E k \in 1 .. NickBytes : MaskLeads(x, Nick(k))) <=> ~Has(x, "!") /\ IsNick(x)
      BY <2>7, <2>11, <2>15
    <3> QED
      BY <2>5, <3>1, <3>2, <3>3
  <2> QED
    BY <2>14, <2>15
<1> QED
  BY <1>1, <1>2

-----------------------------------------------------------------------------
(* Codes and parameters.                                                    *)

\* Where a text that begins a code leads, and the edges there.
CodeLeads(x, p) ==
  \/ Nonempty(x, Letter) /\ p = Word
  \/ Nonempty(x, Digit) /\ Len(x) \in 1 .. CodeDigits /\ p = Number(Len(x))
CodeEnter(b, q) ==
  \/ b \in Letter /\ q = Word
  \/ b \in Digit /\ q = Number(1)
CodeOn(p, b, q) ==
  \/ p = Word /\ b \in Letter /\ q = Word
  \/ \E k \in 1 .. CodeDigits - 1 : p = Number(k) /\ b \in Digit /\ q = Number(k + 1)

\* The positions of a code are different.
LEMMA CodePlaces == Word[2] = "word" /\ \A j, k : Number(k) # Word /\ (Number(j) = Number(k) => j = k)
<1>1. Word[2] = "word" /\ \A k : Number(k)[2] = "digit" /\ Number(k)[3] = k
  BY DEF Word, Number
<1> QED
  BY <1>1

\* Where a code leads, one byte later; and which texts lead to an end of one.
LEMMA CodeMore ==
  ASSUME NEW x \in Seq(Byte), NEW b \in Byte, NEW q
  PROVE  /\ CodeLeads(Append(x, b), q) <=>
              \/ x = <<>> /\ CodeEnter(b, q)
              \/ \E p : CodeLeads(x, p) /\ CodeOn(p, b, q)
         /\ ~CodeLeads(<<>>, q)
<1> DEFINE l == Len(x)
           y == Append(x, b)
<1>1. l \in Nat /\ Len(y) = l + 1 /\ (l = 0 <=> x = <<>>)
  BY AppendType, FirstMore
<1>2. \A B : /\ Nonempty(y, B) <=> Only(x, B) /\ b \in B
             /\ Only(x, B) <=> x = <<>> \/ Nonempty(x, B)
             /\ ~Nonempty(<<>>, B)
  BY OnlyMore
<1>3. CodeLeads(y, q) <=>
        \/ Nonempty(y, Letter) /\ q = Word
        \/ Nonempty(y, Digit) /\ l + 1 \in 1 .. 3 /\ q = Number(l + 1)
  BY <1>1 DEF CodeLeads, CodeDigits
<1>4. \A p : CodeLeads(x, p) <=>
        \/ Nonempty(x, Letter) /\ p = Word
        \/ Nonempty(x, Digit) /\ l \in 1 .. 3 /\ p = Number(l)
  BY DEF CodeLeads, CodeDigits
<1> HIDE DEF l, y
<1>5. (\E p : CodeLeads(x, p) /\ CodeOn(p, b, q)) <=>
        \/ Nonempty(x, Letter) /\ b \in Letter /\ q = Word
        \/ Nonempty(x, Digit) /\ l \in 1 .. 2 /\ b \in Digit /\ q = Number(l + 1)
  <2>1. \A p : CodeOn(p, b, q) <=>
          \/ p = Word /\ b \in Letter /\ q = Word
          \/ \E k \in 1 .. 2 : p = Number(k) /\ b \in Digit /\ q = Number(k + 1)
    BY DEF CodeOn, CodeDigits
  <2>2. l \in 1 .. 2 => l \in 1 .. 3
    BY <1>1
  <2>4. ASSUME NEW p, CodeLeads(x, p), CodeOn(p, b, q)
        PROVE  \/ Nonempty(x, Letter) /\ b \in Letter /\ q = Word
               \/ Nonempty(x, Digit) /\ l \in 1 .. 2 /\ b \in Digit /\ q = Number(l + 1)
    <3>1. CASE p = Word
      BY <1>4, <2>1, <2>4, <3>1, CodePlaces
    <3>2. CASE p # Word
      <4>1. Nonempty(x, Digit) /\ p = Number(l)
        BY <1>4, <2>4, <3>2
      <4>2. PICK k \in 1 .. 2 : p = Number(k) /\ b \in Digit /\ q = Number(k + 1)
        BY <2>1, <2>4, <3>2
      <4>3. k = l
        BY <4>1, <4>2, CodePlaces
      <4> QED
        BY <4>1, <4>2, <4>3
    <3> QED
      BY <3>1, <3>2
  <2>5. ASSUME Nonempty(x, Letter), b \in Letter, q = Word
        PROVE  CodeLeads(x, Word) /\ CodeOn(Word, b, q)
    BY <1>4, <2>1, <2>5
  <2>6. ASSUME Nonempty(x, Digit), l \in 1 .. 2, b \in Digit, q = Number(l + 1)
        PROVE  CodeLeads(x, Number(l)) /\ CodeOn(Number(l), b, q)
    BY <1>4, <2>1, <2>2, <2>6
  <2> QED
    BY <2>4, <2>5, <2>6
<1>6. l + 1 \in 1 .. 3 <=> l = 0 \/ l \in 1 .. 2
  BY <1>1
<1>7. l = 0 => l + 1 = 1
  OBVIOUS
<1>8. Nonempty(x, Digit) => l # 0
  BY <1>1, <1>2
<1>9. CodeLeads(y, q) <=>
              \/ x = <<>> /\ CodeEnter(b, q)
              \/ \E p : CodeLeads(x, p) /\ CodeOn(p, b, q)
  <2>1. CASE x = <<>>
    BY <1>1, <1>2, <1>3, <1>5, <1>6, <1>7, <2>1 DEF CodeEnter
  <2>2. CASE x # <<>>
    BY <1>1, <1>2, <1>3, <1>5, <1>6, <2>2
  <2> QED
    BY <2>1, <2>2
<1>10. ~CodeLeads(<<>>, q)
  BY <1>2 DEF CodeLeads
<1> QED
  BY <1>9, <1>10 DEF y

\* Which texts are codes.
LEMMA CodeAtEnd ==
  ASSUME NEW x \in Seq(Byte)
  PROVE  IsCode(x) <=> \E p \in CodeEnds : CodeLeads(x, p)
<1>1. CodeEnds = {Word, Number(3)}
  BY DEF CodeEnds, CodeDigits
<1>2. Only(x, Digit) /\ Len(x) = 3 <=> Nonempty(x, Digit) /\ Len(x) = 3
  <2>1. Len(<<>>) = 0
    OBVIOUS
  <2> QED
    BY <2>1 DEF Nonempty
<1>3. IsCode(x) <=> Nonempty(x, Letter) \/ (Nonempty(x, Digit) /\ Len(x) = 3)
  BY <1>2 DEF IsCode, CodeDigits
<1>4. CodeLeads(x, Word) <=> Nonempty(x, Letter)
  BY CodePlaces DEF CodeLeads
<1>5. CodeLeads(x, Number(3)) <=> Nonempty(x, Digit) /\ Len(x) = 3
  <2>1. \A k : CodeLeads(x, Number(k)) <=> Nonempty(x, Digit) /\ Len(x) \in 1 .. 3 /\ k = Len(x)
    BY CodePlaces DEF CodeLeads, CodeDigits
  <2>2. CodeLeads(x, Number(3)) <=> Nonempty(x, Digit) /\ Len(x) \in 1 .. 3 /\ 3 = Len(x)
    BY <2>1
  <2> QED
    BY <2>2
<1> QED
  BY <1>1, <1>3, <1>4, <1>5

\* The bytes of parameters, and their words.
ParamByte == Plain \cup {" ", ":"}
Words(x) == Parts(x, {" "})
WordCount(x) == NumParts(x, {" "})
LastWord(x) == LastPart(x, {" "})

\* A parameter that is not the last; all of them before the k-th are.
IsMiddle(w) == w # <<>> /\ w[1] # ":"
MiddlesBefore(x, k) == \A j \in 1 .. k - 1 : IsMiddle(Words(x)[j])

\* Does the k-th word open the last parameter?
Opens(x, k) ==
  LET w == Words(x)[k] IN
  \/ k <= Middles /\ w # <<>> /\ w[1] = ":"
  \/ k = Middles + 1 /\ (w # <<>> \/ WordCount(x) > k)

\* Where a text that begins parameters leads, and the edges there.
ParamsLeads(x, p) ==
  LET n == WordCount(x)
      z == LastWord(x)
  IN
  /\ Only(x, ParamByte)
  /\ \/ n <= Middles + 1 /\ MiddlesBefore(x, n) /\ z = <<>> /\ p = Blank(n)
     \/ n <= Middles /\ MiddlesBefore(x, n) /\ IsMiddle(z) /\ p = Middle(n)
     \/ (\E k \in 1 .. n : MiddlesBefore(x, k) /\ Opens(x, k)) /\ p = Trailing
ParamsOn(p, b, q) ==
  \/ \E k \in 1 .. Middles + 1 : p = Blank(k) /\ b = ":" /\ q = Trailing
  \/ p = Blank(Middles + 1) /\ b \in Plain \cup {" "} /\ q = Trailing
  \/ p = Trailing /\ b \in ParamByte /\ q = Trailing
  \/ \E k \in 1 .. Middles : p = Blank(k) /\ b \in Plain /\ q = Middle(k)
  \/ \E k \in 1 .. Middles : p = Middle(k) /\ b \in Plain \cup {":"} /\ q = Middle(k)
  \/ \E k \in 1 .. Middles : p = Middle(k) /\ b = " " /\ q = Blank(k + 1)

\* The positions of parameters are different.
LEMMA ParamsPlaces ==
  \A j, k : /\ Blank(j) # Middle(k) /\ Blank(j) # Trailing /\ Middle(j) # Trailing
            /\ Blank(j) = Blank(k) => j = k
            /\ Middle(j) = Middle(k) => j = k
<1>1. /\ \A k : Blank(k)[2] = "blank" /\ Blank(k)[3] = k
      /\ \A k : Middle(k)[2] = "middle" /\ Middle(k)[3] = k
      /\ Trailing[2] = "trailing"
  BY DEF Blank, Middle, Trailing
<1> QED
  BY <1>1

\* The words of a text one byte longer.
LEMMA WordsGrow ==
  ASSUME NEW x \in Seq(Byte), NEW b \in Byte
  PROVE  LET y == Append(x, b)
             n == WordCount(x)
         IN  /\ n \in Nat \ {0} /\ LastWord(x) \in Seq(Byte) /\ Words(x)[n] = LastWord(x)
             /\ \A k \in 1 .. n : Words(x)[k] \in Seq(Byte)
             /\ b # " " => /\ WordCount(y) = n
                           /\ LastWord(y) = Append(LastWord(x), b)
                           /\ Words(y)[n] = Append(LastWord(x), b)
                           /\ \A k \in 1 .. n - 1 : Words(y)[k] = Words(x)[k]
             /\ b = " " => /\ WordCount(y) = n + 1
                           /\ LastWord(y) = <<>>
                           /\ Words(y)[n + 1] = <<>>
                           /\ \A k \in 1 .. n : Words(y)[k] = Words(x)[k]
<1> DEFINE S == {" "}
           y == Append(x, b)
<1>1. /\ \A t : Words(t) = Parts(t, S) /\ WordCount(t) = NumParts(t, S) /\ LastWord(t) = LastPart(t, S)
      /\ \A t : LastPart(t, S) = Parts(t, S)[NumParts(t, S)]
      /\ b \in S <=> b = " "
  BY DEF Words, WordCount, LastWord, LastPart
<1> HIDE DEF S
<1>2. LET old == Parts(x, S)
          new == Parts(Append(x, b), S)
          l == NumParts(x, S)
      IN  /\ l \in Nat \ {0} /\ LastPart(x, S) \in Seq(Byte)
          /\ \A k \in 1 .. l : old[k] \in Seq(Byte)
          /\ b \notin S => /\ NumParts(Append(x, b), S) = l
                           /\ LastPart(Append(x, b), S) = Append(LastPart(x, S), b)
                           /\ \A k \in 1 .. l - 1 : new[k] = old[k]
          /\ b \in S => /\ NumParts(Append(x, b), S) = l + 1
                        /\ LastPart(Append(x, b), S) = <<>>
                        /\ \A k \in 1 .. l : new[k] = old[k]
  <2>1. PartsGrown(x, b, S)
    BY PartsGrow
  <2> QED
    BY <2>1 DEF PartsGrown
<1> HIDE DEF y
<1> QED
  BY <1>1, <1>2 DEF y

\* A word one byte longer is still, or becomes, a middle one.
LEMMA MiddleGrows ==
  ASSUME NEW w \in Seq(Byte), NEW b \in Byte
  PROVE  /\ IsMiddle(Append(w, b)) <=> IsMiddle(w) \/ (w = <<>> /\ b # ":")
         /\ Append(w, b) # <<>> /\ ~IsMiddle(<<>>)
         /\ Append(w, b)[1] = ":" <=> (w = <<>> /\ b = ":") \/ (w # <<>> /\ w[1] = ":")
BY AppendType, FirstMore DEF IsMiddle

\* Does some word open the last parameter, the ones before it being middle ones?
Trails(x) == \E k \in 1 .. WordCount(x) : MiddlesBefore(x, k) /\ Opens(x, k)

\* The edges from each position of the parameters.
LEMMA ParamsOnFrom ==
  ASSUME NEW b, NEW q
  PROVE  /\ \A k \in 1 .. Middles + 1 :
              ParamsOn(Blank(k), b, q) <=>
                \/ b = ":" /\ q = Trailing
                \/ k = Middles + 1 /\ b \in Plain \cup {" "} /\ q = Trailing
                \/ k <= Middles /\ b \in Plain /\ q = Middle(k)
         /\ \A k \in 1 .. Middles :
              ParamsOn(Middle(k), b, q) <=>
                \/ b \in Plain \cup {":"} /\ q = Middle(k)
                \/ b = " " /\ q = Blank(k + 1)
         /\ ParamsOn(Trailing, b, q) <=> b \in ParamByte /\ q = Trailing
<1> USE ParamsPlaces
<1>n. Middles \in Nat \ {0}
  BY GroupNumbers
<1>1. ASSUME NEW k \in 1 .. Middles + 1
      PROVE  ParamsOn(Blank(k), b, q) <=>
                \/ b = ":" /\ q = Trailing
                \/ k = Middles + 1 /\ b \in Plain \cup {" "} /\ q = Trailing
                \/ k <= Middles /\ b \in Plain /\ q = Middle(k)
  <2>1. k <= Middles <=> k \in 1 .. Middles
    BY <1>n
  <2>2. \A j \in 1 .. Middles : Blank(k) = Blank(j) <=> k = j
    OBVIOUS
  <2> QED
    BY <2>1, <2>2 DEF ParamsOn
<1>2. ASSUME NEW k \in 1 .. Middles
      PROVE  ParamsOn(Middle(k), b, q) <=>
                \/ b \in Plain \cup {":"} /\ q = Middle(k)
                \/ b = " " /\ q = Blank(k + 1)
  BY DEF ParamsOn
<1>3. ParamsOn(Trailing, b, q) <=> b \in ParamByte /\ q = Trailing
  BY DEF ParamsOn
<1> QED
  BY <1>1, <1>2, <1>3

\* Which word opens the last parameter, one byte later.
LEMMA TrailsMore ==
  ASSUME NEW x \in Seq(Byte), NEW b \in Byte
  PROVE  LET y == Append(x, b)
             n == WordCount(x)
         IN  /\ MiddlesBefore(y, n) <=> MiddlesBefore(x, n)
             /\ b = " " => (MiddlesBefore(y, n + 1) <=> MiddlesBefore(x, n) /\ IsMiddle(LastWord(x)))
             /\ Trails(y) <=>
                  \/ Trails(x)
                  \/ /\ MiddlesBefore(x, n) /\ LastWord(x) = <<>>
                     /\ n = Middles + 1 \/ (n <= Middles /\ b = ":")
<1> DEFINE y == Append(x, b)
           n == WordCount(x)
           z == LastWord(x)
           X == Words(x)
           Y == Words(y)
           m == WordCount(y)
<1>1. /\ n \in Nat \ {0} /\ z \in Seq(Byte) /\ X[n] = z
      /\ \A k \in 1 .. n : X[k] \in Seq(Byte)
      /\ b # " " => m = n /\ Y[n] = Append(z, b) /\ \A k \in 1 .. n - 1 : Y[k] = X[k]
      /\ b = " " => m = n + 1 /\ Y[n + 1] = <<>> /\ \A k \in 1 .. n : Y[k] = X[k]
  BY WordsGrow
<1>n. Middles \in Nat \ {0}
  BY GroupNumbers
<1>2. /\ \A k : MiddlesBefore(x, k) <=> \A j \in 1 .. k - 1 : IsMiddle(X[j])
      /\ \A k : MiddlesBefore(y, k) <=> \A j \in 1 .. k - 1 : IsMiddle(Y[j])
      /\ \A k : Opens(x, k) <=>
           \/ k <= Middles /\ X[k] # <<>> /\ X[k][1] = ":"
           \/ k = Middles + 1 /\ (X[k] # <<>> \/ n > k)
      /\ \A k : Opens(y, k) <=>
           \/ k <= Middles /\ Y[k] # <<>> /\ Y[k][1] = ":"
           \/ k = Middles + 1 /\ (Y[k] # <<>> \/ m > k)
      /\ Trails(x) <=> \E k \in 1 .. n : MiddlesBefore(x, k) /\ Opens(x, k)
      /\ Trails(y) <=> \E k \in 1 .. m : MiddlesBefore(y, k) /\ Opens(y, k)
  BY DEF MiddlesBefore, Opens, Trails
<1>3. /\ Append(z, b) # <<>> /\ ~IsMiddle(<<>>)
      /\ Append(z, b)[1] = ":" <=> (z = <<>> /\ b = ":") \/ (z # <<>> /\ z[1] = ":")
  BY <1>1, MiddleGrows
<1>a. n \in Nat \ {0} /\ (m = n \/ m = n + 1)
  BY <1>1
<1>b. \A k \in 1 .. n - 1 : Y[k] = X[k]
  <2>1. \A k \in 1 .. n - 1 : k \in 1 .. n
    BY <1>a
  <2> QED
    BY <1>1, <2>1
<1> HIDE DEF y, n, z, X, Y, m
<1>c. \A k \in 1 .. n - 1 : m > k /\ n > k
  BY <1>a
<1>4. \A k \in 1 .. n - 1 : Y[k] = X[k] /\ m > k /\ n > k
  BY <1>b, <1>c
<1>5. \A k \in 1 .. n : MiddlesBefore(y, k) <=> MiddlesBefore(x, k)
  <2>1. \A k \in 1 .. n : \A j \in 1 .. k - 1 : j \in 1 .. n - 1
    BY <1>a
  <2> QED
    BY <1>2, <1>4, <2>1
<1>d. (n + 1) - 1 = n /\ \A j : j \in 1 .. n <=> j \in 1 .. n - 1 \/ j = n
  <2>1. (n + 1) - 1 = n
    BY <1>a
  <2>2. \A j : j \in 1 .. n <=> j \in 1 .. n - 1 \/ j = n
    BY <1>a
  <2> QED
    BY <2>1, <2>2
<1>6. b = " " => (MiddlesBefore(y, n + 1) <=> MiddlesBefore(x, n) /\ IsMiddle(z))
  <2> SUFFICES ASSUME b = " "
               PROVE  MiddlesBefore(y, n + 1) <=> MiddlesBefore(x, n) /\ IsMiddle(z)
    OBVIOUS
  <2>1. (n + 1) - 1 = n /\ \A j : j \in 1 .. n <=> j \in 1 .. n - 1 \/ j = n
    BY <1>d
  <2>2. \A j \in 1 .. n : Y[j] = X[j]
    BY <1>1
  <2>4. MiddlesBefore(y, n + 1) <=> \A j \in 1 .. n : IsMiddle(Y[j])
    BY <1>2, <2>1
  <2> QED
    BY <1>1, <1>2, <2>1, <2>2, <2>4
<1>7. \A k \in 1 .. n - 1 : Opens(y, k) <=> Opens(x, k)
  BY <1>2, <1>4
<1>8. Opens(y, n) <=> Opens(x, n) \/ (z = <<>> /\ (n = Middles + 1 \/ (n <= Middles /\ b = ":")))
  <2>1. CASE b = " "
    <3>1. Y[n] = X[n] /\ m > n /\ b # ":"
      <4>0. n \in Nat \ {0}
        BY <1>a
      <4>3. n \in 1 .. n
        BY <4>0
      <4>1. m = n + 1 /\ n \in 1 .. n
        BY <1>1, <2>1, <4>3
      <4>2. m > n
        BY <1>a, <4>1
      <4> QED
        BY <1>1, <2>1, <4>1, <4>2
    <3> QED
      BY <1>1, <1>2, <1>n, <3>1
  <2>2. CASE b # " "
    <3>1. Y[n] = Append(z, b) /\ m = n
      BY <1>1, <2>2
    <3> QED
      BY <1>1, <1>2, <1>3, <1>n, <3>1
  <2> QED
    BY <2>1, <2>2
<1>9. b = " " => ~Opens(y, n + 1)
  <2>1. b = " " => Y[n + 1] = <<>> /\ m = n + 1
    BY <1>1
  <2>2. /\ ~(n + 1 > n + 1)
    BY <1>a
  <2> QED
    BY <1>2, <2>1, <2>2
<1>10. Trails(y) <=> (\E k \in 1 .. n - 1 : MiddlesBefore(y, k) /\ Opens(y, k)) \/ (MiddlesBefore(y, n) /\ Opens(y, n))
  <2>1. CASE b = " "
    <3>1. m = n + 1
      BY <1>1, <2>1
    <3>2. \A k : k \in 1 .. n + 1 <=> k \in 1 .. n - 1 \/ k = n \/ k = n + 1
      BY <1>a
    <3> QED
      BY <1>2, <1>9, <2>1, <3>1, <3>2
  <2>2. CASE b # " "
    <3>1. m = n
      BY <1>1, <2>2
    <3>2. \A k : k \in 1 .. n <=> k \in 1 .. n - 1 \/ k = n
      BY <1>a
    <3> QED
      BY <1>2, <3>1, <3>2
  <2> QED
    BY <2>1, <2>2
<1>11. Trails(x) <=> (\E k \in 1 .. n - 1 : MiddlesBefore(x, k) /\ Opens(x, k)) \/ (MiddlesBefore(x, n) /\ Opens(x, n))
  <2>1. \A k : k \in 1 .. n <=> k \in 1 .. n - 1 \/ k = n
    BY <1>a
  <2> QED
    BY <1>2, <2>1
<1>12. n \in 1 .. n /\ \A k \in 1 .. n - 1 : k \in 1 .. n
  BY <1>a
<1>13. Trails(y) <=>
         \/ Trails(x)
         \/ /\ MiddlesBefore(x, n) /\ z = <<>>
            /\ n = Middles + 1 \/ (n <= Middles /\ b = ":")
  <2>1. (\E k \in 1 .. n - 1 : MiddlesBefore(y, k) /\ Opens(y, k))
          <=> \E k \in 1 .. n - 1 : MiddlesBefore(x, k) /\ Opens(x, k)
    BY <1>5, <1>7, <1>12
  <2> QED
    BY <1>5, <1>8, <1>10, <1>11, <1>12, <2>1
<1>14. MiddlesBefore(y, n) <=> MiddlesBefore(x, n)
  BY <1>5, <1>12
<1> QED
  BY <1>6, <1>13, <1>14 DEF y, n, z

\* Where parameters lead, one byte later.
LEMMA ParamsMore ==
  ASSUME NEW x \in Seq(Byte), NEW b \in Byte, NEW q
  PROVE  ParamsLeads(Append(x, b), q) <=> \E p : ParamsLeads(x, p) /\ ParamsOn(p, b, q)
<1> DEFINE y == Append(x, b)
           n == WordCount(x)
           z == LastWord(x)
           m == WordCount(y)
           w == LastWord(y)
           before == MiddlesBefore(x, n)
<1>1. /\ n \in Nat \ {0} /\ z \in Seq(Byte)
      /\ b # " " => m = n /\ w = Append(z, b)
      /\ b = " " => m = n + 1 /\ w = <<>>
  BY WordsGrow
<1>n. Middles \in Nat \ {0}
  BY GroupNumbers
<1>2. /\ MiddlesBefore(y, n) <=> before
      /\ b = " " => (MiddlesBefore(y, n + 1) <=> before /\ IsMiddle(z))
      /\ Trails(y) <=>
           \/ Trails(x)
           \/ /\ before /\ z = <<>>
              /\ n = Middles + 1 \/ (n <= Middles /\ b = ":")
  BY TrailsMore
<1>3. /\ IsMiddle(Append(z, b)) <=> IsMiddle(z) \/ (z = <<>> /\ b # ":")
      /\ Append(z, b) # <<>> /\ ~IsMiddle(<<>>)
  BY <1>1, MiddleGrows
<1>4. Only(y, ParamByte) <=> Only(x, ParamByte) /\ b \in ParamByte
  BY OnlyMore
<1>5. \A p : ParamsLeads(x, p) <=>
        /\ Only(x, ParamByte)
        /\ \/ n <= Middles + 1 /\ before /\ z = <<>> /\ p = Blank(n)
           \/ n <= Middles /\ before /\ IsMiddle(z) /\ p = Middle(n)
           \/ Trails(x) /\ p = Trailing
  BY DEF ParamsLeads, Trails
<1>6. ParamsLeads(y, q) <=>
        /\ Only(y, ParamByte)
        /\ \/ m <= Middles + 1 /\ MiddlesBefore(y, m) /\ w = <<>> /\ q = Blank(m)
           \/ m <= Middles /\ MiddlesBefore(y, m) /\ IsMiddle(w) /\ q = Middle(m)
           \/ Trails(y) /\ q = Trailing
  BY DEF ParamsLeads, Trails
<1>a. n \in Nat \ {0}
  BY <1>1
<1> HIDE DEF y, n, z, m, w, before
<1>7. (\E p : ParamsLeads(x, p) /\ ParamsOn(p, b, q)) <=>
        /\ Only(x, ParamByte)
        /\ \/ n <= Middles + 1 /\ before /\ z = <<>> /\ ParamsOn(Blank(n), b, q)
           \/ n <= Middles /\ before /\ IsMiddle(z) /\ ParamsOn(Middle(n), b, q)
           \/ Trails(x) /\ ParamsOn(Trailing, b, q)
  BY <1>5
<1>8. /\ n <= Middles + 1 => (ParamsOn(Blank(n), b, q) <=>
                \/ b = ":" /\ q = Trailing
                \/ n = Middles + 1 /\ b \in Plain \cup {" "} /\ q = Trailing
                \/ n <= Middles /\ b \in Plain /\ q = Middle(n))
      /\ n <= Middles => (ParamsOn(Middle(n), b, q) <=>
                \/ b \in Plain \cup {":"} /\ q = Middle(n)
                \/ b = " " /\ q = Blank(n + 1))
      /\ ParamsOn(Trailing, b, q) <=> b \in ParamByte /\ q = Trailing
  <2>1. /\ n <= Middles + 1 => n \in 1 .. Middles + 1
        /\ n <= Middles => n \in 1 .. Middles
    BY <1>a, <1>n
  <2> QED
    BY <2>1, ParamsOnFrom
<1>9. b \in ParamByte <=> b \in Plain \/ b = " " \/ b = ":"
  BY DEF ParamByte
<1>10. " " \notin Plain /\ ":" \notin Plain
  BY DEF Plain
<1>11. CASE b = " "
  <2>1. m = n + 1 /\ w = <<>> /\ b # ":" /\ b \notin Plain /\ b \in ParamByte
    BY <1>1, <1>9, <1>10, <1>11
  <2>2. n + 1 <= Middles + 1 <=> n <= Middles
    BY <1>a, <1>n
  <2>3. ParamsLeads(y, q) <=>
          /\ Only(x, ParamByte)
          /\ \/ n <= Middles /\ before /\ IsMiddle(z) /\ q = Blank(n + 1)
             \/ (Trails(x) \/ (before /\ z = <<>> /\ n = Middles + 1)) /\ q = Trailing
    BY <1>2, <1>3, <1>4, <1>6, <1>11, <2>1, <2>2
  <2>4. n <= Middles => n <= Middles + 1 /\ n # Middles + 1
    BY <1>a, <1>n
  <2>5. n = Middles + 1 => n <= Middles + 1
    BY <1>a, <1>n
  <2> QED
    BY <1>7, <1>8, <1>11, <2>1, <2>3, <2>4, <2>5 DEF y
<1>12. CASE b # " "
  <2>1. m = n /\ w = Append(z, b)
    BY <1>1, <1>12
  <2>2. ParamsLeads(y, q) <=>
          /\ Only(x, ParamByte) /\ b \in ParamByte
          /\ \/ /\ n <= Middles /\ before
                /\ IsMiddle(z) \/ (z = <<>> /\ b # ":")
                /\ q = Middle(n)
             \/ /\ \/ Trails(x)
                   \/ before /\ z = <<>> /\ (n = Middles + 1 \/ (n <= Middles /\ b = ":"))
                /\ q = Trailing
    BY <1>2, <1>3, <1>4, <1>6, <2>1
  <2>3. n <= Middles + 1 <=> n <= Middles \/ n = Middles + 1
    BY <1>a, <1>n
  <2>4. n = Middles + 1 => ~(n <= Middles)
    BY <1>n
  <2> QED
    BY <1>7, <1>8, <1>9, <1>10, <1>12, <2>2, <2>3, <2>4 DEF y
<1> QED
  BY <1>11, <1>12 DEF y

\* Before the first byte.
LEMMA ParamsNothing == \A p : ParamsLeads(<<>>, p) <=> p = Blank(1)
<1>1. WordCount(<<>>) = 1 /\ LastWord(<<>>) = <<>>
  BY PartsNothing DEF WordCount, LastWord
<1>2. Words(<<>>)[1] = <<>>
  BY <1>1 DEF Words, WordCount, LastWord, LastPart
<1>3. Middles \in Nat \ {0}
  BY GroupNumbers
<1>4. Only(<<>>, ParamByte) /\ ~IsMiddle(<<>>) /\ MiddlesBefore(<<>>, 1)
  BY DEF Only, ToSet, IsMiddle, MiddlesBefore
<1>5. ~Opens(<<>>, 1)
  BY <1>1, <1>2, <1>3 DEF Opens
<1>6. \A k \in 1 .. 1 : k = 1
  OBVIOUS
<1>7. 1 <= Middles + 1
  BY <1>3
<1> QED
  BY <1>1, <1>4, <1>5, <1>6, <1>7 DEF ParamsLeads

\* The least of a set of numbers is a member of it, and no member is less.
LEMMA LeastOf ==
  ASSUME NEW S \in SUBSET Nat, S # {}
  PROVE  Min(S) \in S /\ \A k \in S : Min(S) <= k
<1>1. \E k \in S : \A j \in S : k <= j
  BY LeastMember
<1> QED
  BY <1>1 DEF Min

\* Where parameters may end.
ParamsEnds == {Middle(k) : k \in 1 .. Middles} \cup {Blank(Middles + 1), Trailing}

\* Parameters are what leads to an end of them.
LEMMA ParamsAtEnd ==
  ASSUME NEW x \in Seq(Byte)
  PROVE  IsParams(x) <=> \E p \in ParamsEnds : ParamsLeads(x, p)
<1> DEFINE n == WordCount(x)
           z == LastWord(x)
           X == Words(x)
           stops(k) == k > n \/ k > Middles \/ (X[k] # <<>> /\ X[k][1] = ":")
           S == {k \in 1 .. n + 1 : stops(k)}
           L == Min(S)
<1>1. /\ n \in Nat \ {0} /\ X[n] = z /\ n = Len(X)
  <2>1. Len(Parts(x, {" "})) \in Nat \ {0}
    BY PartsType
  <2> QED
    BY <2>1 DEF Words, WordCount, LastWord, LastPart, NumParts
<1>2. IsParams(x) <=> Only(x, ParamByte) /\ \A j \in 1 .. L - 1 : X[j] # <<>>
  BY <1>1 DEF IsParams, ParamByte, Words
<1>n. Middles \in Nat \ {0}
  BY GroupNumbers
<1>a. n \in Nat \ {0}
  BY <1>1
<1>3. /\ L \in 1 .. n + 1 /\ stops(L)
      /\ \A k \in 1 .. n + 1 : stops(k) => L <= k
  <2>1. S \in SUBSET Nat
    BY <1>a
  <2>2. n + 1 \in 1 .. n + 1 /\ n + 1 > n
    BY <1>a
  <2>3. n + 1 \in S
    BY <2>2
  <2>4. S # {}
    BY <2>3
  <2> HIDE DEF S
  <2>5. L \in S /\ \A k \in S : L <= k
    BY <2>1, <2>4, LeastOf
  <2> QED
    BY <2>5 DEF S
<1>4. \A p : ParamsLeads(x, p) <=>
        /\ Only(x, ParamByte)
        /\ \/ n <= Middles + 1 /\ MiddlesBefore(x, n) /\ z = <<>> /\ p = Blank(n)
           \/ n <= Middles /\ MiddlesBefore(x, n) /\ IsMiddle(z) /\ p = Middle(n)
           \/ Trails(x) /\ p = Trailing
  BY DEF ParamsLeads, Trails
<1>5. /\ \A k : MiddlesBefore(x, k) <=> \A j \in 1 .. k - 1 : IsMiddle(X[j])
      /\ \A k : Opens(x, k) <=>
           \/ k <= Middles /\ X[k] # <<>> /\ X[k][1] = ":"
           \/ k = Middles + 1 /\ (X[k] # <<>> \/ n > k)
      /\ Trails(x) <=> \E k \in 1 .. n : MiddlesBefore(x, k) /\ Opens(x, k)
  BY DEF MiddlesBefore, Opens, Trails
<1>6. \A w : IsMiddle(w) <=> w # <<>> /\ w[1] # ":"
  BY DEF IsMiddle
<1> HIDE DEF n, z, X, S, L
<1>7. (\A j \in 1 .. L - 1 : X[j] # <<>>) <=> MiddlesBefore(x, L)
  <2>1. \A j \in 1 .. L - 1 : j \in 1 .. n + 1 /\ ~(L <= j)
    <3>1. L \in 1 .. n + 1
      BY <1>3
    <3> QED
      BY <1>a, <3>1
  <2>2. \A j \in 1 .. L - 1 : ~stops(j)
    BY <1>3, <2>1
  <2> QED
    BY <1>5, <1>6, <2>2
<1>8. L \in 1 .. n + 1
  BY <1>3
<1>9. ASSUME IsParams(x)
      PROVE  \E p \in ParamsEnds : ParamsLeads(x, p)
  <2>0. Only(x, ParamByte) /\ MiddlesBefore(x, L)
    BY <1>2, <1>7, <1>9
  <2>1. CASE L <= n /\ L <= Middles
    <3>1. X[L] # <<>> /\ X[L][1] = ":"
      BY <1>3, <1>8, <1>a, <1>n, <2>1
    <3>2. L \in 1 .. n /\ Opens(x, L)
      BY <1>5, <1>8, <1>a, <2>1, <3>1
    <3>3. ParamsLeads(x, Trailing)
      BY <1>4, <1>5, <2>0, <3>2
    <3> QED
      BY <3>3 DEF ParamsEnds
  <2>2. CASE L <= n /\ ~(L <= Middles)
    <3>1. L = Middles + 1
      <4>1. Middles + 1 \in 1 .. n + 1 /\ Middles + 1 > Middles
        BY <1>8, <1>a, <1>n, <2>2
      <4>2. L <= Middles + 1
        BY <1>3, <4>1
      <4> QED
        BY <1>8, <1>a, <1>n, <2>2, <4>2
    <3>2. CASE n = L /\ z = <<>>
      <4>1. n <= Middles + 1
        BY <1>a, <1>n, <3>1, <3>2
      <4>2. ParamsLeads(x, Blank(Middles + 1))
        BY <1>4, <2>0, <3>1, <3>2, <4>1
      <4> QED
        BY <4>2 DEF ParamsEnds
    <3>3. CASE n # L \/ z # <<>>
      <4>1. X[L] # <<>> \/ n > L
        BY <1>1, <1>8, <1>a, <2>2, <3>3
      <4>2. L \in 1 .. n /\ Opens(x, L)
        BY <1>5, <1>8, <1>a, <2>2, <3>1, <4>1
      <4>3. ParamsLeads(x, Trailing)
        BY <1>4, <1>5, <2>0, <4>2
      <4> QED
        BY <4>3 DEF ParamsEnds
    <3> QED
      BY <3>2, <3>3
  <2>3. CASE ~(L <= n)
    <3>1. L = n + 1
      BY <1>8, <1>a, <2>3
    <3>2. n \in 1 .. n + 1 /\ ~(L <= n) /\ n \in 1 .. L - 1 /\ \A j \in 1 .. n - 1 : j \in 1 .. L - 1
      BY <1>a, <3>1
    <3>3. ~stops(n)
      BY <1>3, <3>2
    <3>4. n <= Middles
      BY <1>a, <1>n, <3>3
    <3>5. MiddlesBefore(x, n) /\ IsMiddle(z)
      BY <1>1, <1>5, <2>0, <3>2
    <3>6. ParamsLeads(x, Middle(n)) /\ n \in 1 .. Middles
      BY <1>4, <1>a, <1>n, <2>0, <3>4, <3>5
    <3> QED
      BY <3>6 DEF ParamsEnds
  <2> QED
    BY <2>1, <2>2, <2>3
<1>10. ASSUME NEW p \in ParamsEnds, ParamsLeads(x, p)
       PROVE  IsParams(x)
  <2>0. Only(x, ParamByte)
    BY <1>4, <1>10
  <2>1. ASSUME NEW k \in 1 .. n + 1, L <= k, MiddlesBefore(x, k)
        PROVE  MiddlesBefore(x, L)
    <3>1. \A j \in 1 .. L - 1 : j \in 1 .. k - 1
      BY <1>8, <1>a, <2>1
    <3> QED
      BY <1>5, <2>1, <3>1
  <2>2. CASE \E k \in 1 .. Middles : p = Middle(k)
    <3>1. n <= Middles /\ MiddlesBefore(x, n) /\ IsMiddle(z)
      BY <1>4, <1>10, <2>2, ParamsPlaces
    <3>2. \A j \in 1 .. (n + 1) - 1 : j \in 1 .. n - 1 \/ j = n
      BY <1>a
    <3>3. MiddlesBefore(x, n + 1)
      BY <1>1, <1>5, <3>1, <3>2
    <3>4. n + 1 \in 1 .. n + 1 /\ L <= n + 1
      BY <1>8, <1>a
    <3> QED
      BY <1>2, <1>7, <2>0, <2>1, <3>3, <3>4
  <2>3. CASE p = Blank(Middles + 1)
    <3>1. MiddlesBefore(x, n) /\ n = Middles + 1
      BY <1>4, <1>10, <2>3, ParamsPlaces
    <3>2. n \in 1 .. n + 1 /\ n > Middles
      BY <1>a, <1>n, <3>1
    <3>3. L <= n
      BY <1>3, <3>2
    <3> QED
      BY <1>2, <1>7, <2>0, <2>1, <3>1, <3>2, <3>3
  <2>4. CASE p = Trailing
    <3>1. Trails(x)
      BY <1>4, <1>10, <2>4, ParamsPlaces
    <3>2. PICK k \in 1 .. n : MiddlesBefore(x, k) /\ Opens(x, k)
      BY <1>5, <3>1
    <3>3. k \in 1 .. n + 1 /\ Middles + 1 > Middles
      BY <1>a, <1>n
    <3>4. stops(k)
      BY <1>5, <3>2, <3>3
    <3>5. L <= k
      BY <1>3, <3>3, <3>4
    <3> QED
      BY <1>2, <1>7, <2>0, <2>1, <3>2, <3>3, <3>5
  <2> QED
    BY <1>10, <2>2, <2>3, <2>4 DEF ParamsEnds
<1> QED
  BY <1>9, <1>10

-----------------------------------------------------------------------------
(* Edges as moves.                                                          *)

\* Does some edge of E lead from p over b to q?
Joins(E, p, b, q) == \E e \in E : e.from = p /\ b \in e.on /\ e.to = q

\* An edge of two sets is one of either.
LEMMA JoinsUnion ==
  ASSUME NEW A, NEW B, NEW p, NEW b, NEW q
  PROVE  Joins(A \cup B, p, b, q) <=> Joins(A, p, b, q) \/ Joins(B, p, b, q)
BY DEF Joins

\* One edge joins what it says.
LEMMA JoinsOne ==
  ASSUME NEW from, NEW on, NEW to, NEW does, NEW p, NEW b, NEW q
  PROVE  Joins({Edge(from, on, to, does)}, p, b, q) <=> p = from /\ b \in on /\ q = to
BY EdgeFields DEF Joins

\* An edge from each of some positions joins what they say.
FromEach(A, S, on, to, does) == A = {Edge(e, on, to, does) : e \in S}

\* That is all it joins.
LEMMA JoinsEach ==
  ASSUME NEW A, NEW S, NEW on, NEW to, NEW does, NEW p, NEW b, NEW q, FromEach(A, S, on, to, does)
  PROVE  Joins(A, p, b, q) <=> p \in S /\ b \in on /\ q = to
<1> DEFINE E(e) == Edge(e, on, to, does)
<1>1. \A e : E(e).from = e /\ E(e).on = on /\ E(e).to = to
  BY EdgeFields
<1> HIDE DEF E
<1>2. Joins({E(e) : e \in S}, p, b, q) <=> p \in S /\ b \in on /\ q = to
  BY <1>1 DEF Joins
<1>3. A = {E(e) : e \in S}
  BY DEF E, FromEach
<1> QED
  BY <1>2, <1>3

\* The edges of a host name.
LEMMA HostnameMoves ==
  ASSUME NEW begin, NEW where, NEW first, NEW rest, NEW p, NEW b, NEW q
  PROVE  Joins(Hostname(begin, where, first, rest), p, b, q) <=>
           (p = begin /\ HostEnter(where, b, q)) \/ HostOn(where, p, b, q)
<1> DEFINE label(n) == <<where, "label", n>>
           star(n) == <<where, "star", n>>
           dot(n) == <<where, "dot", n>>
           B == {Edge(begin, Alnum, label(1), first), Edge(begin, {"*"}, star(1), first)}
           W(n) == {Edge(label(n), Alnum \cup {"-"}, label(n), rest),
                    Edge(label(n), {".", "/"}, dot(n), rest),
                    Edge(star(n), {".", "/"}, dot(n), rest),
                    Edge(dot(n), Alnum, label(2), rest),
                    Edge(dot(n), {"*"}, star(2), rest)}
           U == UNION {W(n) : n \in 1 .. 2}
<1>1. Hostname(begin, where, first, rest) = B \cup U
  BY DEF Hostname
<1>2. HostEnter(where, b, q) <=> (b \in Alnum /\ q = label(1)) \/ (b = "*" /\ q = star(1))
  BY DEF HostEnter
<1>3. HostOn(where, p, b, q) <=>
        \E n \in 1 .. 2 :
          \/ p = label(n) /\ b \in Alnum \cup {"-"} /\ q = label(n)
          \/ p = label(n) /\ b \in {".", "/"} /\ q = dot(n)
          \/ p = star(n) /\ b \in {".", "/"} /\ q = dot(n)
          \/ p = dot(n) /\ b \in Alnum /\ q = label(2)
          \/ p = dot(n) /\ b = "*" /\ q = star(2)
  BY DEF HostOn
<1> HIDE DEF label, star, dot
<1>4. Joins(B, p, b, q) <=> p = begin /\ HostEnter(where, b, q)
  BY <1>2, EdgeFields DEF Joins
<1>5. \A n : Joins(W(n), p, b, q) <=>
        \/ p = label(n) /\ b \in Alnum \cup {"-"} /\ q = label(n)
        \/ p = label(n) /\ b \in {".", "/"} /\ q = dot(n)
        \/ p = star(n) /\ b \in {".", "/"} /\ q = dot(n)
        \/ p = dot(n) /\ b \in Alnum /\ q = label(2)
        \/ p = dot(n) /\ b = "*" /\ q = star(2)
  BY EdgeFields DEF Joins
<1> HIDE DEF W, B
<1>6. Joins(U, p, b, q) <=> \E n \in 1 .. 2 : Joins(W(n), p, b, q)
  BY DEF Joins
<1> HIDE DEF U
<1> QED
  BY <1>1, <1>3, <1>4, <1>5, <1>6, JoinsUnion

\* The edges of an address.
LEMMA AddressMoves ==
  ASSUME NEW begin, NEW first, NEW rest, NEW p, NEW b, NEW q
  PROVE  Joins(Address(begin, first, rest), p, b, q) <=>
           (p = begin /\ AddressEnter(b, q)) \/ AddressOn(p, b, q)
<1> DEFINE part(k) == <<"ip4", "digit", k>>
           dot(i) == <<"ip4", "dot", i>>
           group(g) == <<"ip6", "group", g>>
           colon(g) == <<"ip6", "colon", g>>
           zero(g) == <<"mapped", "zero", g>>
           f(k) == <<"mapped", "f", k>>
           after(g) == <<"mapped", "colon", g>>
           Hexes == Digit \cup HexLetter
           A1 == {Edge(begin, Digit, part(1), first), Edge(begin, Hexes, group(1), first),
                  Edge(begin, {"0"}, zero(1), first)}
           A2 == {Edge(part(k), Digit, part(k + 1), rest) :
                    k \in {j \in 1 .. PartDigits * AddressParts : j % PartDigits # 0}}
           A3 == {Edge(part(PartDigits * (i - 1) + d), {"."}, dot(i), rest) :
                    i \in 1 .. AddressParts - 1, d \in 1 .. PartDigits}
           A4 == {Edge(dot(i), Digit, part(PartDigits * i + 1), rest) : i \in 1 .. AddressParts - 1}
           A5 == {Edge(group(g), Hexes, group(g), rest) : g \in 1 .. Groups}
           A6 == {Edge(group(g), {":"}, colon(g), rest) : g \in 1 .. Groups - 1}
           A7 == {Edge(colon(g), Hexes, group(g + 1), rest) : g \in 1 .. Groups - 1}
           A8 == {Edge(zero(g), {":"}, after(g), rest) : g \in 1 .. Zeros + 1}
           A9 == {Edge(after(g), {"0"}, zero(g + 1), rest) : g \in 1 .. Zeros}
           A10 == {Edge(after(Zeros), {"f", "F"}, f(1), rest),
                   Edge(f(4), {":"}, after(Zeros + 1), rest)}
           A11 == {Edge(f(k), {"f", "F"}, f(k + 1), rest) : k \in 1 .. 3}
           A12 == {Edge(after(Zeros + 1), Digit, part(1), rest)}
<1>1. Address(begin, first, rest) =
        A1 \cup A2 \cup A3 \cup A4 \cup A5 \cup A6 \cup A7 \cup A8 \cup A9 \cup A10 \cup A11 \cup A12
  BY DEF Address
<1>2. /\ \A i, d : Ip4Digit(i, d) = part(3 * (i - 1) + d)
      /\ \A i : Ip4Dot(i) = dot(i)
      /\ \A g : Ip6Group(g) = group(g) /\ Ip6Colon(g) = colon(g)
      /\ \A g : MappedZero(g) = zero(g) /\ MappedF(g) = f(g) /\ MappedColon(g) = after(g)
      /\ Hex = Hexes
  BY DEF Ip4Digit, Ip4Dot, Ip6Group, Ip6Colon, MappedZero, MappedF, MappedColon, Hex
<1> HIDE DEF part, dot, group, colon, zero, f, after, Hexes
<1>3. Ip4Digit(1, 1) = part(1)
  BY <1>2
<1>e. Joins(A1, p, b, q) <=> p = begin /\ AddressEnter(b, q)
  <2>1. Joins(A1, p, b, q) <=>
          /\ p = begin
          /\ (b \in Digit /\ q = part(1)) \/ (b \in Hexes /\ q = group(1)) \/ (b = "0" /\ q = zero(1))
    BY EdgeFields DEF Joins
  <2> QED
    BY <1>2, <1>3, <2>1 DEF AddressEnter, Ip4Enter, GroupEnter, MappedEnter
<1>4. Joins(A2, p, b, q) <=>
        \E i \in 1 .. 4, d \in 1 .. 2 : p = Ip4Digit(i, d) /\ b \in Digit /\ q = Ip4Digit(i, d + 1)
  <2> DEFINE K == {j \in 1 .. PartDigits * AddressParts : j % PartDigits # 0}
  <2> DEFINE E2(k) == Edge(part(k), Digit, part(k + 1), rest)
  <2>22. \A k : E2(k).from = part(k) /\ E2(k).on = Digit /\ E2(k).to = part(k + 1)
    BY EdgeFields
  <2> HIDE DEF E2
  <2>23. A2 = {E2(k) : k \in K}
    BY DEF E2
  <2>1. Joins(A2, p, b, q) <=> \E k \in K : p = part(k) /\ b \in Digit /\ q = part(k + 1)
    <3> HIDE DEF K
    <3> QED
      BY <2>22, <2>23 DEF Joins
  <2>2. K = {1, 2, 4, 5, 7, 8, 10, 11}
    BY DEF PartDigits, AddressParts
  <2>3. (\E k \in K : p = part(k) /\ b \in Digit /\ q = part(k + 1)) <=>
          \/ p = part(1) /\ b \in Digit /\ q = part(2)
          \/ p = part(2) /\ b \in Digit /\ q = part(3)
          \/ p = part(4) /\ b \in Digit /\ q = part(5)
          \/ p = part(5) /\ b \in Digit /\ q = part(6)
          \/ p = part(7) /\ b \in Digit /\ q = part(8)
          \/ p = part(8) /\ b \in Digit /\ q = part(9)
          \/ p = part(10) /\ b \in Digit /\ q = part(11)
          \/ p = part(11) /\ b \in Digit /\ q = part(12)
    <3>1. 1 + 1 = 2 /\ 2 + 1 = 3 /\ 4 + 1 = 5 /\ 5 + 1 = 6 /\ 7 + 1 = 8 /\ 8 + 1 = 9
          /\ 10 + 1 = 11 /\ 11 + 1 = 12
      OBVIOUS
    <3> DEFINE M(k) == p = part(k) /\ b \in Digit /\ q = part(k + 1)
    <3>2. /\ M(1) <=> p = part(1) /\ b \in Digit /\ q = part(2)
          /\ M(2) <=> p = part(2) /\ b \in Digit /\ q = part(3)
          /\ M(4) <=> p = part(4) /\ b \in Digit /\ q = part(5)
          /\ M(5) <=> p = part(5) /\ b \in Digit /\ q = part(6)
          /\ M(7) <=> p = part(7) /\ b \in Digit /\ q = part(8)
          /\ M(8) <=> p = part(8) /\ b \in Digit /\ q = part(9)
          /\ M(10) <=> p = part(10) /\ b \in Digit /\ q = part(11)
          /\ M(11) <=> p = part(11) /\ b \in Digit /\ q = part(12)
      BY <3>1
    <3> HIDE DEF K, M
    <3>3. (\E k \in K : M(k)) <=>
            M(1) \/ M(2) \/ M(4) \/ M(5) \/ M(7) \/ M(8) \/ M(10) \/ M(11)
      BY <2>2
    <3>4. (\E k \in K : p = part(k) /\ b \in Digit /\ q = part(k + 1)) <=> \E k \in K : M(k)
      BY DEF M
    <3> QED
      BY <3>2, <3>3, <3>4
  <2>4. (\E i \in 1 .. 4, d \in 1 .. 2 : p = Ip4Digit(i, d) /\ b \in Digit /\ q = Ip4Digit(i, d + 1)) <=>
          \/ p = Ip4Digit(1, 1) /\ b \in Digit /\ q = Ip4Digit(1, 2)
          \/ p = Ip4Digit(1, 2) /\ b \in Digit /\ q = Ip4Digit(1, 3)
          \/ p = Ip4Digit(2, 1) /\ b \in Digit /\ q = Ip4Digit(2, 2)
          \/ p = Ip4Digit(2, 2) /\ b \in Digit /\ q = Ip4Digit(2, 3)
          \/ p = Ip4Digit(3, 1) /\ b \in Digit /\ q = Ip4Digit(3, 2)
          \/ p = Ip4Digit(3, 2) /\ b \in Digit /\ q = Ip4Digit(3, 3)
          \/ p = Ip4Digit(4, 1) /\ b \in Digit /\ q = Ip4Digit(4, 2)
          \/ p = Ip4Digit(4, 2) /\ b \in Digit /\ q = Ip4Digit(4, 3)
    <3>1. 1 + 1 = 2 /\ 2 + 1 = 3 /\ 1 .. 4 = {1, 2, 3, 4} /\ 1 .. 2 = {1, 2}
      OBVIOUS
    <3> QED
      BY <3>1
  <2>5. /\ Ip4Digit(1, 1) = part(1) /\ Ip4Digit(1, 2) = part(2) /\ Ip4Digit(1, 3) = part(3)
        /\ Ip4Digit(2, 1) = part(4) /\ Ip4Digit(2, 2) = part(5) /\ Ip4Digit(2, 3) = part(6)
        /\ Ip4Digit(3, 1) = part(7) /\ Ip4Digit(3, 2) = part(8) /\ Ip4Digit(3, 3) = part(9)
        /\ Ip4Digit(4, 1) = part(10) /\ Ip4Digit(4, 2) = part(11) /\ Ip4Digit(4, 3) = part(12)
    BY <1>2
  <2> QED
    BY <2>1, <2>3, <2>4, <2>5
<1>5. Joins(A3, p, b, q) <=>
        \E i \in 1 .. 3, d \in 1 .. 3 : p = Ip4Digit(i, d) /\ b = "." /\ q = Ip4Dot(i)
  <2>1. AddressParts - 1 = 3 /\ PartDigits = 3
    BY DEF AddressParts, PartDigits
  <2> DEFINE E3(i, d) == Edge(part(PartDigits * (i - 1) + d), {"."}, dot(i), rest)
             S3 == 1 .. AddressParts - 1
             T3 == 1 .. PartDigits
  <2>3. \A i, d : /\ E3(i, d).from = part(PartDigits * (i - 1) + d) /\ E3(i, d).on = {"."}
                  /\ E3(i, d).to = dot(i)
    BY EdgeFields
  <2> HIDE DEF E3, S3, T3
  <2>33. A3 = {E3(i, d) : i \in S3, d \in T3}
    BY DEF E3, S3, T3
  <2>2. Joins(A3, p, b, q) <=>
          \E i \in 1 .. AddressParts - 1, d \in 1 .. PartDigits :
            p = part(PartDigits * (i - 1) + d) /\ b = "." /\ q = dot(i)
    <3>1. Joins(A3, p, b, q) <=>
            \E i \in S3, d \in T3 : p = part(PartDigits * (i - 1) + d) /\ b \in {"."} /\ q = dot(i)
      BY <2>3, <2>33 DEF Joins
    <3> QED
      BY <3>1 DEF S3, T3
  <2> QED
    BY <1>2, <2>1, <2>2
<1>6. Joins(A4, p, b, q) <=>
        \E i \in 1 .. 3 : p = Ip4Dot(i) /\ b \in Digit /\ q = Ip4Digit(i + 1, 1)
  <2>1. AddressParts - 1 = 3 /\ PartDigits = 3
    BY DEF AddressParts, PartDigits
  <2> DEFINE E4(i) == Edge(dot(i), Digit, part(PartDigits * i + 1), rest)
             S4 == 1 .. AddressParts - 1
  <2>4. \A i : E4(i).from = dot(i) /\ E4(i).on = Digit /\ E4(i).to = part(PartDigits * i + 1)
    BY EdgeFields
  <2> HIDE DEF E4, S4
  <2>44. A4 = {E4(i) : i \in S4}
    BY DEF E4, S4
  <2>2. Joins(A4, p, b, q) <=>
          \E i \in 1 .. AddressParts - 1 : p = dot(i) /\ b \in Digit /\ q = part(PartDigits * i + 1)
    <3>1. Joins(A4, p, b, q) <=> \E i \in S4 : p = dot(i) /\ b \in Digit /\ q = part(PartDigits * i + 1)
      BY <2>4, <2>44 DEF Joins
    <3> QED
      BY <3>1 DEF S4
  <2>3. \A i \in 1 .. 3 : part(3 * i + 1) = Ip4Digit(i + 1, 1)
    <3>1. \A i \in 1 .. 3 : 3 * ((i + 1) - 1) + 1 = 3 * i + 1
      OBVIOUS
    <3> QED
      BY <1>2, <3>1
  <2> QED
    BY <1>2, <2>1, <2>2, <2>3
<1>7. Ip4On(p, b, q) <=> Joins(A2, p, b, q) \/ Joins(A3, p, b, q) \/ Joins(A4, p, b, q)
  BY <1>4, <1>5, <1>6 DEF Ip4On
<1>8. GroupOn(p, b, q) <=> Joins(A5, p, b, q) \/ Joins(A6, p, b, q) \/ Joins(A7, p, b, q)
  <2> DEFINE E5(g) == Edge(group(g), Hexes, group(g), rest)
             S5 == 1 .. Groups
  <2>5. \A g : E5(g).from = group(g) /\ E5(g).on = Hexes /\ E5(g).to = group(g)
    BY EdgeFields
  <2> HIDE DEF E5, S5
  <2>55. A5 = {E5(g) : g \in S5}
    BY DEF E5, S5
  <2>1. Joins(A5, p, b, q) <=> \E g \in 1 .. Groups : p = group(g) /\ b \in Hexes /\ q = group(g)
    <3>1. Joins(A5, p, b, q) <=> \E g \in S5 : p = group(g) /\ b \in Hexes /\ q = group(g)
      BY <2>5, <2>55 DEF Joins
    <3> QED
      BY <3>1 DEF S5
  <2> DEFINE E6(g) == Edge(group(g), {":"}, colon(g), rest)
             S6 == 1 .. Groups - 1
  <2>6. \A g : E6(g).from = group(g) /\ E6(g).on = {":"} /\ E6(g).to = colon(g)
    BY EdgeFields
  <2> HIDE DEF E6, S6
  <2>66. A6 = {E6(g) : g \in S6}
    BY DEF E6, S6
  <2>2. Joins(A6, p, b, q) <=> \E g \in 1 .. Groups - 1 : p = group(g) /\ b = ":" /\ q = colon(g)
    <3>1. Joins(A6, p, b, q) <=> \E g \in S6 : p = group(g) /\ b \in {":"} /\ q = colon(g)
      BY <2>6, <2>66 DEF Joins
    <3> QED
      BY <3>1 DEF S6
  <2> DEFINE E7(g) == Edge(colon(g), Hexes, group(g + 1), rest)
             S7 == 1 .. Groups - 1
  <2>7. \A g : E7(g).from = colon(g) /\ E7(g).on = Hexes /\ E7(g).to = group(g + 1)
    BY EdgeFields
  <2> HIDE DEF E7, S7
  <2>77. A7 = {E7(g) : g \in S7}
    BY DEF E7, S7
  <2>3. Joins(A7, p, b, q) <=> \E g \in 1 .. Groups - 1 : p = colon(g) /\ b \in Hexes /\ q = group(g + 1)
    <3>1. Joins(A7, p, b, q) <=> \E g \in S7 : p = colon(g) /\ b \in Hexes /\ q = group(g + 1)
      BY <2>7, <2>77 DEF Joins
    <3> QED
      BY <3>1 DEF S7
  <2> QED
    BY <1>2, <2>1, <2>2, <2>3 DEF GroupOn
<1>9. MappedOn(p, b, q) <=>
        \/ Joins(A8, p, b, q) \/ Joins(A9, p, b, q) \/ Joins(A10, p, b, q)
        \/ Joins(A11, p, b, q) \/ Joins(A12, p, b, q)
  <2> DEFINE E8(g) == Edge(zero(g), {":"}, after(g), rest)
             S8 == 1 .. Zeros + 1
  <2>8. \A g : E8(g).from = zero(g) /\ E8(g).on = {":"} /\ E8(g).to = after(g)
    BY EdgeFields
  <2> HIDE DEF E8, S8
  <2>88. A8 = {E8(g) : g \in S8}
    BY DEF E8, S8
  <2>1. Joins(A8, p, b, q) <=> \E g \in 1 .. Zeros + 1 : p = zero(g) /\ b = ":" /\ q = after(g)
    <3>1. Joins(A8, p, b, q) <=> \E g \in S8 : p = zero(g) /\ b \in {":"} /\ q = after(g)
      BY <2>8, <2>88 DEF Joins
    <3> QED
      BY <3>1 DEF S8
  <2> DEFINE E9(g) == Edge(after(g), {"0"}, zero(g + 1), rest)
             S9 == 1 .. Zeros
  <2>9. \A g : E9(g).from = after(g) /\ E9(g).on = {"0"} /\ E9(g).to = zero(g + 1)
    BY EdgeFields
  <2> HIDE DEF E9, S9
  <2>99. A9 = {E9(g) : g \in S9}
    BY DEF E9, S9
  <2>2. Joins(A9, p, b, q) <=> \E g \in 1 .. Zeros : p = after(g) /\ b = "0" /\ q = zero(g + 1)
    <3>1. Joins(A9, p, b, q) <=> \E g \in S9 : p = after(g) /\ b \in {"0"} /\ q = zero(g + 1)
      BY <2>9, <2>99 DEF Joins
    <3> QED
      BY <3>1 DEF S9
  <2>3. Joins(A10, p, b, q) <=>
          \/ p = after(Zeros) /\ b \in {"f", "F"} /\ q = f(1)
          \/ p = f(4) /\ b = ":" /\ q = after(Zeros + 1)
    <3> DEFINE z == Zeros + 1
    <3> HIDE DEF z
    <3>1. A10 = {Edge(after(Zeros), {"f", "F"}, f(1), rest)} \cup {Edge(f(4), {":"}, after(z), rest)}
      BY DEF z
    <3>2. Joins({Edge(after(Zeros), {"f", "F"}, f(1), rest)}, p, b, q)
            <=> p = after(Zeros) /\ b \in {"f", "F"} /\ q = f(1)
      BY JoinsOne
    <3>3. Joins({Edge(f(4), {":"}, after(z), rest)}, p, b, q) <=> p = f(4) /\ b \in {":"} /\ q = after(z)
      BY JoinsOne
    <3> HIDE DEF A10
    <3> QED
      BY <3>1, <3>2, <3>3, JoinsUnion DEF z
  <2> DEFINE E11(k) == Edge(f(k), {"f", "F"}, f(k + 1), rest)
             S11 == 1 .. 3
  <2>11. \A k : E11(k).from = f(k) /\ E11(k).on = {"f", "F"} /\ E11(k).to = f(k + 1)
    BY EdgeFields
  <2> HIDE DEF E11, S11
  <2>1111. A11 = {E11(k) : k \in S11}
    BY DEF E11, S11
  <2>4. Joins(A11, p, b, q) <=> \E k \in 1 .. 3 : p = f(k) /\ b \in {"f", "F"} /\ q = f(k + 1)
    <3>1. Joins(A11, p, b, q) <=> \E k \in S11 : p = f(k) /\ b \in {"f", "F"} /\ q = f(k + 1)
      BY <2>11, <2>1111 DEF Joins
    <3> QED
      BY <3>1 DEF S11
  <2>5. Joins(A12, p, b, q) <=> p = after(Zeros + 1) /\ b \in Digit /\ q = part(1)
    BY JoinsOne
  <2> QED
    BY <1>2, <1>3, <2>1, <2>2, <2>3, <2>4, <2>5 DEF MappedOn, Ip4Enter
<1> HIDE DEF A1, A2, A3, A4, A5, A6, A7, A8, A9, A10, A11, A12
<1> DEFINE B1 == A1 \cup A2 \cup A3
           B2 == B1 \cup A4 \cup A5
           B3 == B2 \cup A6 \cup A7
           B4 == B3 \cup A8 \cup A9
           B5 == B4 \cup A10 \cup A11
<1>j. /\ Joins(B1, p, b, q) <=> Joins(A1, p, b, q) \/ Joins(A2, p, b, q) \/ Joins(A3, p, b, q)
      /\ Joins(B2, p, b, q) <=> Joins(B1, p, b, q) \/ Joins(A4, p, b, q) \/ Joins(A5, p, b, q)
      /\ Joins(B3, p, b, q) <=> Joins(B2, p, b, q) \/ Joins(A6, p, b, q) \/ Joins(A7, p, b, q)
      /\ Joins(B4, p, b, q) <=> Joins(B3, p, b, q) \/ Joins(A8, p, b, q) \/ Joins(A9, p, b, q)
      /\ Joins(B5, p, b, q) <=> Joins(B4, p, b, q) \/ Joins(A10, p, b, q) \/ Joins(A11, p, b, q)
  <2>1. Joins(B1, p, b, q) <=> Joins(A1, p, b, q) \/ Joins(A2, p, b, q) \/ Joins(A3, p, b, q)
    BY DEF Joins
  <2>2. Joins(B2, p, b, q) <=> Joins(B1, p, b, q) \/ Joins(A4, p, b, q) \/ Joins(A5, p, b, q)
    <3> HIDE DEF B1
    <3> QED
      BY DEF Joins
  <2>3. Joins(B3, p, b, q) <=> Joins(B2, p, b, q) \/ Joins(A6, p, b, q) \/ Joins(A7, p, b, q)
    <3> HIDE DEF B2
    <3> QED
      BY DEF Joins
  <2>4. Joins(B4, p, b, q) <=> Joins(B3, p, b, q) \/ Joins(A8, p, b, q) \/ Joins(A9, p, b, q)
    <3> HIDE DEF B3
    <3> QED
      BY DEF Joins
  <2>5. Joins(B5, p, b, q) <=> Joins(B4, p, b, q) \/ Joins(A10, p, b, q) \/ Joins(A11, p, b, q)
    <3> HIDE DEF B4
    <3> QED
      BY DEF Joins
  <2> QED
    BY <2>1, <2>2, <2>3, <2>4, <2>5
<1>k. Joins(B5 \cup A12, p, b, q) <=> Joins(B5, p, b, q) \/ Joins(A12, p, b, q)
  BY DEF Joins
<1>10. Joins(Address(begin, first, rest), p, b, q) <=>
         \/ Joins(A1, p, b, q) \/ Joins(A2, p, b, q) \/ Joins(A3, p, b, q) \/ Joins(A4, p, b, q)
         \/ Joins(A5, p, b, q) \/ Joins(A6, p, b, q) \/ Joins(A7, p, b, q) \/ Joins(A8, p, b, q)
         \/ Joins(A9, p, b, q) \/ Joins(A10, p, b, q) \/ Joins(A11, p, b, q) \/ Joins(A12, p, b, q)
  BY <1>1, <1>j, <1>k
<1> QED
  BY <1>e, <1>7, <1>8, <1>9, <1>10 DEF AddressOn

\* Both ends of a prefix, and where a message may go on from each position.
PrefixEnds2 == HostnameEnds("server") \cup HostmaskEnds
Moves(p, b, q) ==
  \/ p = Start /\ b = ":" /\ q = Colon
  \/ PrefixOn(p, b, q)
  \/ p \in PrefixEnds2 /\ b = " " /\ q = Space
  \/ p \in {Start, Space} /\ CodeEnter(b, q)
  \/ CodeOn(p, b, q)
  \/ p \in CodeEnds /\ b = " " /\ q = Blank(1)
  \/ ParamsOn(p, b, q)
  \/ p \in MessageEnds /\ b = "\r" /\ q = Cr
  \/ p = Cr /\ b = "\n" /\ q = Done

\* The byte that ends a prefix.
Separates(b) == b = " "

\* The edges within a prefix, and out of it.
LEMMA PrefixMoves ==
  ASSUME NEW p, NEW b, NEW q
  PROVE  Joins(PrefixEdges, p, b, q) <=> PrefixOn(p, b, q) \/ (p \in PrefixEnds2 /\ Separates(b) /\ q = Space)
<1> DEFINE PS == {"prefix_start", "prefix"}
           D1 == PS \cup {"servername_start", "servername"}
           D2 == PS \cup {"hostmask_start", "nick_start", "nick"}
           D3 == {"prefix", "host_start", "host"}
           D4 == {"prefix", "host"}
           D5 == {"prefix", "servername"}
           D6 == {"prefix", "user_start", "user"}
           D7 == {"prefix", "user"}
           D8 == {"prefix"}
           D9 == {"prefix", "nick"}
           F1 == {"servername_finish"}
           F2 == {"hostmask_finish"}
           A1 == Hostname(Colon, "server", D1, D5)
           A2 == {Edge(Colon, Letter \cup Special, Nick(1), D2)}
           A3 == {Edge(Nick(k), NickByte, Nick(k + 1), D9) : k \in 1 .. NickBytes - 1}
           A4 == {Edge(Nick(k), {"!"}, Bang, D8) : k \in 1 .. NickBytes}
           A5 == {Edge(Nick(k), {"@"}, At, D8) : k \in 1 .. NickBytes}
           A6 == {Edge(Bang, UserByte, User, D6), Edge(User, UserByte, User, D7), Edge(User, {"@"}, At, D8)}
           A7 == Hostname(At, "host", D3, D4)
           A8 == Address(At, D3, D4)
           A9 == {Edge(e, {" "}, Space, F1) : e \in HostnameEnds("server")}
           A10 == {Edge(e, {" "}, Space, F2) : e \in HostmaskEnds}
<1>1. PrefixEdges = A1 \cup A2 \cup A3 \cup A4 \cup A5 \cup A6 \cup A7 \cup A8 \cup A9 \cup A10
  BY Zenon DEF PrefixEdges, NickByte
<1>2. Joins(A1, p, b, q) <=> (p = Colon /\ HostEnter("server", b, q)) \/ HostOn("server", p, b, q)
  <2> DEFINE s == "server"
  <2> HIDE DEF s, D1, D5
  <2>1. Joins(Hostname(Colon, s, D1, D5), p, b, q) <=> (p = Colon /\ HostEnter(s, b, q)) \/ HostOn(s, p, b, q)
    BY HostnameMoves
  <2> QED
    BY <2>1 DEF s
<1>3. Joins(A7, p, b, q) <=> (p = At /\ HostEnter("host", b, q)) \/ HostOn("host", p, b, q)
  <2> DEFINE s == "host"
  <2> HIDE DEF s, D3, D4
  <2>1. Joins(Hostname(At, s, D3, D4), p, b, q) <=> (p = At /\ HostEnter(s, b, q)) \/ HostOn(s, p, b, q)
    BY HostnameMoves
  <2> QED
    BY <2>1 DEF s
<1> HIDE DEF PS, D1, D2, D3, D4, D5, D6, D7, D8, D9, F1, F2
<1>4. Joins(A8, p, b, q) <=> (p = At /\ AddressEnter(b, q)) \/ AddressOn(p, b, q)
  BY AddressMoves
<1>5. Joins(A2, p, b, q) <=> p = Colon /\ b \in Letter \cup Special /\ q = Nick(1)
  BY JoinsOne
<1>6. Joins(A3, p, b, q) <=> \E k \in 1 .. NickBytes - 1 : p = Nick(k) /\ b \in NickByte /\ q = Nick(k + 1)
  <2> DEFINE E(k) == Edge(Nick(k), NickByte, Nick(k + 1), D9)
             S == 1 .. NickBytes - 1
  <2>1. \A k : E(k).from = Nick(k) /\ E(k).on = NickByte /\ E(k).to = Nick(k + 1)
    BY EdgeFields
  <2> HIDE DEF E, S
  <2>2. A3 = {E(k) : k \in S}
    BY DEF E, S
  <2>3. Joins(A3, p, b, q) <=> \E k \in S : p = Nick(k) /\ b \in NickByte /\ q = Nick(k + 1)
    BY <2>1, <2>2 DEF Joins
  <2> QED
    BY <2>3 DEF S
<1>7. /\ Joins(A4, p, b, q) <=> \E k \in 1 .. NickBytes : p = Nick(k) /\ b = "!" /\ q = Bang
      /\ Joins(A5, p, b, q) <=> \E k \in 1 .. NickBytes : p = Nick(k) /\ b = "@" /\ q = At
  <2> DEFINE S == 1 .. NickBytes
             E(k) == Edge(Nick(k), {"!"}, Bang, D8)
             F(k) == Edge(Nick(k), {"@"}, At, D8)
  <2>1. \A k : /\ E(k).from = Nick(k) /\ E(k).on = {"!"} /\ E(k).to = Bang
               /\ F(k).from = Nick(k) /\ F(k).on = {"@"} /\ F(k).to = At
    BY EdgeFields
  <2> HIDE DEF S, E, F
  <2>2. A4 = {E(k) : k \in S} /\ A5 = {F(k) : k \in S}
    BY DEF S, E, F
  <2> HIDE DEF A4, A5
  <2>3. Joins(A4, p, b, q) <=> \E k \in S : p = Nick(k) /\ b \in {"!"} /\ q = Bang
    BY <2>1, <2>2 DEF Joins
  <2>4. Joins(A5, p, b, q) <=> \E k \in S : p = Nick(k) /\ b \in {"@"} /\ q = At
    BY <2>1, <2>2 DEF Joins
  <2> QED
    BY <2>3, <2>4 DEF S
<1>8. Joins(A6, p, b, q) <=>
        \/ p = Bang /\ b \in UserByte /\ q = User
        \/ p = User /\ b \in UserByte /\ q = User
        \/ p = User /\ b = "@" /\ q = At
  BY EdgeFields DEF Joins
<1>9. Joins(A9, p, b, q) \/ Joins(A10, p, b, q) <=> p \in PrefixEnds2 /\ b = " " /\ q = Space
  <2>1. Joins(A9, p, b, q) <=> p \in HostnameEnds("server") /\ b = " " /\ q = Space
    <3> DEFINE w == " "
    <3>1. FromEach(A9, HostnameEnds("server"), {w}, Space, F1)
      BY DEF FromEach
    <3> HIDE DEF A9, w
    <3>2. Joins(A9, p, b, q) <=> p \in HostnameEnds("server") /\ b \in {w} /\ q = Space
      BY <3>1, JoinsEach
    <3> QED
      BY <3>2 DEF w
  <2>2. Joins(A10, p, b, q) <=> p \in HostmaskEnds /\ b = " " /\ q = Space
    <3> DEFINE w == " "
    <3>1. FromEach(A10, HostmaskEnds, {w}, Space, F2)
      BY DEF FromEach
    <3> HIDE DEF A10, w
    <3>2. Joins(A10, p, b, q) <=> p \in HostmaskEnds /\ b \in {w} /\ q = Space
      BY <3>1, JoinsEach
    <3> QED
      BY <3>2 DEF w
  <2> QED
    BY <2>1, <2>2 DEF PrefixEnds2
<1> HIDE DEF A1, A2, A3, A4, A5, A6, A7, A8, A9, A10
<1> DEFINE B1 == A1 \cup A2 \cup A3
           B2 == B1 \cup A4 \cup A5
           B3 == B2 \cup A6 \cup A7
           B4 == B3 \cup A8
<1>10. /\ Joins(B1, p, b, q) <=> Joins(A1, p, b, q) \/ Joins(A2, p, b, q) \/ Joins(A3, p, b, q)
       /\ Joins(B2, p, b, q) <=> Joins(B1, p, b, q) \/ Joins(A4, p, b, q) \/ Joins(A5, p, b, q)
       /\ Joins(B3, p, b, q) <=> Joins(B2, p, b, q) \/ Joins(A6, p, b, q) \/ Joins(A7, p, b, q)
       /\ Joins(B4, p, b, q) <=> Joins(B3, p, b, q) \/ Joins(A8, p, b, q)
       /\ Joins(B4 \cup A9 \cup A10, p, b, q)
            <=> Joins(B4, p, b, q) \/ Joins(A9, p, b, q) \/ Joins(A10, p, b, q)
  <2>1. Joins(B1, p, b, q) <=> Joins(A1, p, b, q) \/ Joins(A2, p, b, q) \/ Joins(A3, p, b, q)
    BY DEF Joins
  <2>2. Joins(B2, p, b, q) <=> Joins(B1, p, b, q) \/ Joins(A4, p, b, q) \/ Joins(A5, p, b, q)
    <3> HIDE DEF B1
    <3> QED
      BY DEF Joins
  <2>3. Joins(B3, p, b, q) <=> Joins(B2, p, b, q) \/ Joins(A6, p, b, q) \/ Joins(A7, p, b, q)
    <3> HIDE DEF B2
    <3> QED
      BY DEF Joins
  <2>4. Joins(B4, p, b, q) <=> Joins(B3, p, b, q) \/ Joins(A8, p, b, q)
    <3> HIDE DEF B3
    <3> QED
      BY DEF Joins
  <2>5. Joins(B4 \cup A9 \cup A10, p, b, q)
          <=> Joins(B4, p, b, q) \/ Joins(A9, p, b, q) \/ Joins(A10, p, b, q)
    <3> HIDE DEF B4
    <3> QED
      BY DEF Joins
  <2> QED
    BY <2>1, <2>2, <2>3, <2>4, <2>5
<1>11. PrefixEdges = B4 \cup A9 \cup A10
  BY <1>1
<1> HIDE DEF B1, B2, B3, B4
<1> QED
  BY <1>2, <1>3, <1>4, <1>5, <1>6, <1>7, <1>8, <1>9, <1>10, <1>11 DEF PrefixOn, MaskOn, Separates

\* The edges of a code.
LEMMA CodeMoves ==
  ASSUME NEW p, NEW b, NEW q
  PROVE  Joins(CodeEdges, p, b, q) <=> (p \in {Start, Space} /\ CodeEnter(b, q)) \/ CodeOn(p, b, q)
<1> DEFINE C == {"msg_start", "code_start", "code"}
           D == {"code_start", "code"}
           F == {"code"}
           A1 == {Edge(Start, Letter, Word, C), Edge(Start, Digit, Number(1), C),
                  Edge(Space, Letter, Word, D), Edge(Space, Digit, Number(1), D), Edge(Word, Letter, Word, F)}
           A2 == {Edge(Number(k), Digit, Number(k + 1), F) : k \in 1 .. CodeDigits - 1}
<1>1. CodeEdges = A1 \cup A2
  BY Zenon DEF CodeEdges
<1> HIDE DEF C, D, F
<1>2. Joins(A1, p, b, q) <=>
        \/ p = Start /\ b \in Letter /\ q = Word
        \/ p = Start /\ b \in Digit /\ q = Number(1)
        \/ p = Space /\ b \in Letter /\ q = Word
        \/ p = Space /\ b \in Digit /\ q = Number(1)
        \/ p = Word /\ b \in Letter /\ q = Word
  BY EdgeFields DEF Joins
<1>3. Joins(A2, p, b, q) <=> \E k \in 1 .. CodeDigits - 1 : p = Number(k) /\ b \in Digit /\ q = Number(k + 1)
  <2> DEFINE S == 1 .. CodeDigits - 1
             E(k) == Edge(Number(k), Digit, Number(k + 1), F)
  <2>1. \A k : E(k).from = Number(k) /\ E(k).on = Digit /\ E(k).to = Number(k + 1)
    BY EdgeFields
  <2> HIDE DEF S, E
  <2>2. A2 = {E(k) : k \in S}
    BY DEF S, E
  <2>3. Joins(A2, p, b, q) <=> \E k \in S : p = Number(k) /\ b \in Digit /\ q = Number(k + 1)
    BY <2>1, <2>2 DEF Joins
  <2> QED
    BY <2>3 DEF S
<1> HIDE DEF A1, A2
<1> QED
  BY <1>1, <1>2, <1>3, JoinsUnion DEF CodeEnter, CodeOn

\* The edges of parameters.
LEMMA ParamsMoves ==
  ASSUME NEW p, NEW b, NEW q
  PROVE  Joins(ParamsEdges, p, b, q) <=> (p \in CodeEnds /\ b = " " /\ q = Blank(1)) \/ ParamsOn(p, b, q)
<1> DEFINE D == {"params_start", "params"}
           F == {"params"}
           S == 1 .. Middles
           T == 1 .. Middles + 1
           V == Blank(Middles + 1)
           E1(e) == Edge(e, {" "}, Blank(1), D)
           E2(k) == Edge(Blank(k), {":"}, Trailing, F)
           E3(k) == Edge(Blank(k), Plain, Middle(k), F)
           E4(k) == Edge(Middle(k), Plain \cup {":"}, Middle(k), F)
           E5(k) == Edge(Middle(k), {" "}, Blank(k + 1), F)
           A1 == {E1(e) : e \in CodeEnds}
           A2 == {E2(k) : k \in T}
           A3 == {Edge(V, Plain \cup {" "}, Trailing, F),
                  Edge(Trailing, Plain \cup {":", " "}, Trailing, F)}
           A4 == UNION {{E3(k), E4(k), E5(k)} : k \in S}
<1>1. ParamsEdges = A1 \cup A2 \cup A3 \cup A4
  BY Zenon DEF ParamsEdges, ParamsBegin
<1>e. \A e : E1(e).from = e /\ E1(e).on = {" "} /\ E1(e).to = Blank(1)
  BY DEF Edge
<1>f. \A k : E2(k).from = Blank(k) /\ E2(k).on = {":"} /\ E2(k).to = Trailing
  BY DEF Edge
<1>g. \A k : E3(k).from = Blank(k) /\ E3(k).on = Plain /\ E3(k).to = Middle(k)
  BY DEF Edge
<1>h. \A k : E4(k).from = Middle(k) /\ E4(k).on = Plain \cup {":"} /\ E4(k).to = Middle(k)
  BY DEF Edge
<1>i. \A k : E5(k).from = Middle(k) /\ E5(k).on = {" "} /\ E5(k).to = Blank(k + 1)
  BY DEF Edge
<1>5. Joins(A3, p, b, q) <=>
        \/ p = V /\ b \in Plain \cup {" "} /\ q = Trailing
        \/ p = Trailing /\ b \in Plain \cup {":", " "} /\ q = Trailing
  <2> DEFINE X == Plain \cup {" "}
             Y == Plain \cup {":", " "}
  <2> HIDE DEF X, Y, V
  <2>1. A3 = {Edge(V, X, Trailing, F)} \cup {Edge(Trailing, Y, Trailing, F)}
    BY DEF X, Y
  <2>2. Joins({Edge(V, X, Trailing, F)}, p, b, q) <=> p = V /\ b \in X /\ q = Trailing
    BY JoinsOne
  <2>3. Joins({Edge(Trailing, Y, Trailing, F)}, p, b, q) <=> p = Trailing /\ b \in Y /\ q = Trailing
    BY JoinsOne
  <2> HIDE DEF A3
  <2> QED
    BY <2>1, <2>2, <2>3, JoinsUnion DEF X, Y
<1> HIDE DEF D, F, S, T, V, E1, E2, E3, E4, E5
<1>3. Joins(A1, p, b, q) <=> p \in CodeEnds /\ b = " " /\ q = Blank(1)
  <2>1. Joins(A1, p, b, q) <=> \E e \in CodeEnds : p = e /\ b \in {" "} /\ q = Blank(1)
    BY <1>e DEF Joins
  <2> QED
    BY <2>1
<1>4. Joins(A2, p, b, q) <=> \E k \in T : p = Blank(k) /\ b = ":" /\ q = Trailing
  <2>1. Joins(A2, p, b, q) <=> \E k \in T : p = Blank(k) /\ b \in {":"} /\ q = Trailing
    BY <1>f DEF Joins
  <2> QED
    BY <2>1
<1>6. Joins(A4, p, b, q) <=>
        \E k \in S : \/ p = Blank(k) /\ b \in Plain /\ q = Middle(k)
                     \/ p = Middle(k) /\ b \in Plain \cup {":"} /\ q = Middle(k)
                     \/ p = Middle(k) /\ b = " " /\ q = Blank(k + 1)
  <2> DEFINE W(k) == {E3(k), E4(k), E5(k)}
  <2>1. \A k : Joins(W(k), p, b, q) <=>
                     \/ p = Blank(k) /\ b \in Plain /\ q = Middle(k)
                     \/ p = Middle(k) /\ b \in Plain \cup {":"} /\ q = Middle(k)
                     \/ p = Middle(k) /\ b = " " /\ q = Blank(k + 1)
    <3> TAKE k
    <3>1. Joins(W(k), p, b, q) <=>
            \/ E3(k).from = p /\ b \in E3(k).on /\ E3(k).to = q
            \/ E4(k).from = p /\ b \in E4(k).on /\ E4(k).to = q
            \/ E5(k).from = p /\ b \in E5(k).on /\ E5(k).to = q
      BY DEF Joins
    <3> HIDE DEF W
    <3> QED
      BY <3>1, <1>g, <1>h, <1>i
  <2>2. A4 = UNION {W(k) : k \in S}
    OBVIOUS
  <2> HIDE DEF W
  <2>3. Joins(A4, p, b, q) <=> \E k \in S : Joins(W(k), p, b, q)
    BY <2>2 DEF Joins
  <2> QED
    BY <2>1, <2>3
<1>7. ParamByte = Plain \cup {":", " "}
  BY DEF ParamByte
<1>8. ParamsOn(p, b, q) <=>
        \/ \E k \in T : p = Blank(k) /\ b = ":" /\ q = Trailing
        \/ p = V /\ b \in Plain \cup {" "} /\ q = Trailing
        \/ p = Trailing /\ b \in ParamByte /\ q = Trailing
        \/ \E k \in S : p = Blank(k) /\ b \in Plain /\ q = Middle(k)
        \/ \E k \in S : p = Middle(k) /\ b \in Plain \cup {":"} /\ q = Middle(k)
        \/ \E k \in S : p = Middle(k) /\ b = " " /\ q = Blank(k + 1)
  BY DEF ParamsOn, S, T, V
<1> HIDE DEF A1, A2, A3, A4
<1>9. Joins(A1 \cup A2 \cup A3 \cup A4, p, b, q) <=>
        Joins(A1, p, b, q) \/ Joins(A2, p, b, q) \/ Joins(A3, p, b, q) \/ Joins(A4, p, b, q)
  BY DEF Joins
<1> QED
  BY <1>1, <1>3, <1>4, <1>5, <1>6, <1>7, <1>8, <1>9

\* All edges.
LEMMA EdgeMoves ==
  ASSUME NEW p, NEW b, NEW q
  PROVE  Joins(Edges, p, b, q) <=> Moves(p, b, q)
<1> DEFINE D == {"msg_start"}
           N == {}
           E1(e) == Edge(e, {"\r"}, Cr, N)
           A1 == {Edge(Start, {":"}, Colon, D)}
           A5 == {E1(e) : e \in MessageEnds}
           A6 == {Edge(Cr, {"\n"}, Done, N)}
<1>1. Edges = A1 \cup PrefixEdges \cup CodeEdges \cup ParamsEdges \cup A5 \cup A6
  BY Zenon DEF Edges
<1>2. \A e : E1(e).from = e /\ E1(e).on = {"\r"} /\ E1(e).to = Cr
  BY EdgeFields
<1> HIDE DEF D, N, E1
<1>3. Joins(A1, p, b, q) <=> p = Start /\ b = ":" /\ q = Colon
  BY EdgeFields DEF Joins
<1>4. Joins(A5, p, b, q) <=> p \in MessageEnds /\ b = "\r" /\ q = Cr
  BY <1>2 DEF Joins
<1>5. Joins(A6, p, b, q) <=> p = Cr /\ b = "\n" /\ q = Done
  BY EdgeFields DEF Joins
<1> HIDE DEF A1, A5, A6
<1>6. Joins(A1 \cup PrefixEdges \cup CodeEdges \cup ParamsEdges \cup A5 \cup A6, p, b, q) <=>
        \/ Joins(A1, p, b, q) \/ Joins(PrefixEdges, p, b, q) \/ Joins(CodeEdges, p, b, q)
        \/ Joins(ParamsEdges, p, b, q) \/ Joins(A5, p, b, q) \/ Joins(A6, p, b, q)
  BY DEF Joins
<1> QED
  BY <1>1, <1>3, <1>4, <1>5, <1>6, PrefixMoves, CodeMoves, ParamsMoves DEF Moves, Separates

-----------------------------------------------------------------------------
(* Whole messages.                                                          *)

\* Where what follows a prefix leads, and the edges there.
BodyLeads(s, p) ==
  \/ ~Has(s, " ") /\ CodeLeads(s, p)
  \/ Has(s, " ") /\ IsCode(Before(s, {" "})) /\ ParamsLeads(After(s, {" "}), p)
BodyOn(p, b, q) ==
  \/ CodeOn(p, b, q)
  \/ p \in CodeEnds /\ b = " " /\ q = Blank(1)
  \/ ParamsOn(p, b, q)

\* A text cut at its first space, one byte later.
LEMMA SpaceMore ==
  ASSUME NEW s \in Seq(Byte), NEW b \in Byte
  PROVE  LET t == Append(s, b) IN
         /\ Has(t, " ") <=> Has(s, " ") \/ b = " "
         /\ Has(s, " ") => /\ Before(t, {" "}) = Before(s, {" "})
                           /\ After(t, {" "}) = Append(After(s, {" "}), b)
         /\ ~Has(s, " ") /\ b = " " => Before(t, {" "}) = s /\ After(t, {" "}) = <<>>
         /\ ~Has(s, " ") /\ b # " " => Before(t, {" "}) = t /\ After(t, {" "}) = <<>>
         /\ Before(s, {" "}) \in Seq(Byte) /\ After(s, {" "}) \in Seq(Byte)
         /\ ~Has(s, " ") => Before(s, {" "}) = s /\ After(s, {" "}) = <<>>
<1> DEFINE c == " "
<1> HIDE DEF c
<1>1. LET t == Append(s, b) IN
      /\ Has(t, c) <=> Has(s, c) \/ b = c
      /\ Has(s, c) => /\ Before(t, {c}) = Before(s, {c})
                      /\ After(t, {c}) = Append(After(s, {c}), b)
      /\ ~Has(s, c) /\ b = c => Before(t, {c}) = s /\ After(t, {c}) = <<>>
      /\ ~Has(s, c) /\ b # c => Before(t, {c}) = t /\ After(t, {c}) = <<>>
  BY CutMore
<1>2. /\ Before(s, {c}) \in Seq(Byte) /\ After(s, {c}) \in Seq(Byte)
      /\ ~Has(s, c) => Before(s, {c}) = s /\ After(s, {c}) = <<>>
  BY CutType
<1> QED
  BY <1>1, <1>2 DEF c

\* The areas of codes and parameters.
LEMMA BodyAreas ==
  /\ \A x, p : CodeLeads(x, p) => p[1] = "code"
  /\ \A x, p : ParamsLeads(x, p) => p[1] = "params"
  /\ \A p, b, q : CodeOn(p, b, q) => p[1] = "code" /\ q[1] = "code"
  /\ \A p, b, q : ParamsOn(p, b, q) => p[1] = "params" /\ q[1] = "params"
  /\ \A b, q : CodeEnter(b, q) => q[1] = "code" /\ b # " " /\ b # ":"
  /\ \A p, b, q : CodeOn(p, b, q) => b # " "
  /\ \A p \in CodeEnds : p[1] = "code"
  /\ \A p \in ParamsEnds : p[1] = "params"
  /\ \A k : Blank(k)[1] = "params"
<1>1. \A c \in Letter \cup Digit : c # " " /\ c # ":"
  BY NoMarks DEF Alnum
<1> QED
  BY <1>1, Areas DEF CodeLeads, ParamsLeads, CodeOn, ParamsOn, CodeEnter, CodeEnds, ParamsEnds

\* Where code and parameters lead, one byte later.
LEMMA BodyMore ==
  ASSUME NEW s \in Seq(Byte), NEW b \in Byte, NEW q
  PROVE  BodyLeads(Append(s, b), q) <=>
           \/ s = <<>> /\ CodeEnter(b, q)
           \/ \E p : BodyLeads(s, p) /\ BodyOn(p, b, q)
<1> DEFINE t == Append(s, b)
           B == Before(s, {" "})
           A == After(s, {" "})
<1>1. /\ Has(t, " ") <=> Has(s, " ") \/ b = " "
      /\ Has(s, " ") => /\ Before(t, {" "}) = B
                        /\ After(t, {" "}) = Append(A, b)
      /\ ~Has(s, " ") /\ b = " " => Before(t, {" "}) = s /\ After(t, {" "}) = <<>>
      /\ B \in Seq(Byte) /\ A \in Seq(Byte)
  BY SpaceMore
<1>2. BodyLeads(t, q) <=>
        \/ ~Has(t, " ") /\ CodeLeads(t, q)
        \/ Has(t, " ") /\ IsCode(Before(t, {" "})) /\ ParamsLeads(After(t, {" "}), q)
  BY DEF BodyLeads
<1>3. \A p : BodyLeads(s, p) <=>
        \/ ~Has(s, " ") /\ CodeLeads(s, p)
        \/ Has(s, " ") /\ IsCode(B) /\ ParamsLeads(A, p)
  BY DEF BodyLeads
<1>4. \A p : BodyOn(p, b, q) <=>
        \/ CodeOn(p, b, q)
        \/ p \in CodeEnds /\ b = " " /\ q = Blank(1)
        \/ ParamsOn(p, b, q)
  BY DEF BodyOn
<1>5. s = <<>> => ~Has(s, " ")
  BY NothingHas
<1>6. /\ CodeLeads(t, q) <=> (s = <<>> /\ CodeEnter(b, q)) \/ \E p : CodeLeads(s, p) /\ CodeOn(p, b, q)
  BY CodeMore
<1>7. ParamsLeads(Append(A, b), q) <=> \E p : ParamsLeads(A, p) /\ ParamsOn(p, b, q)
  BY <1>1, ParamsMore
<1>8. ParamsLeads(<<>>, q) <=> q = Blank(1)
  BY ParamsNothing
<1>9. IsCode(s) <=> \E p \in CodeEnds : CodeLeads(s, p)
  BY CodeAtEnd
<1>10. "code" # "params"
  OBVIOUS
<1> HIDE DEF t, B, A
<1>11. CASE Has(s, " ")
  <2>1. BodyLeads(t, q) <=> IsCode(B) /\ \E p : ParamsLeads(A, p) /\ ParamsOn(p, b, q)
    BY <1>1, <1>2, <1>7, <1>11
  <2>2. \A p : ParamsLeads(A, p) => (BodyOn(p, b, q) <=> ParamsOn(p, b, q))
    BY <1>4, <1>10, BodyAreas
  <2> QED
    BY <1>3, <1>5, <1>11, <2>1, <2>2 DEF t
<1>12. CASE ~Has(s, " ") /\ b = " "
  <2>1. BodyLeads(t, q) <=> IsCode(s) /\ q = Blank(1)
    BY <1>1, <1>2, <1>8, <1>12
  <2>2. ~CodeEnter(b, q) /\ \A p : ~CodeOn(p, b, q)
    BY <1>12, BodyAreas
  <2>3. \A p : CodeLeads(s, p) => (BodyOn(p, b, q) <=> p \in CodeEnds /\ q = Blank(1))
    BY <1>4, <1>10, <1>12, <2>2, BodyAreas
  <2> QED
    BY <1>3, <1>9, <1>12, <2>1, <2>2, <2>3 DEF t
<1>13. CASE ~Has(s, " ") /\ b # " "
  <2>1. BodyLeads(t, q) <=> CodeLeads(t, q)
    BY <1>1, <1>2, <1>13
  <2>2. \A p : CodeLeads(s, p) => (BodyOn(p, b, q) <=> CodeOn(p, b, q))
    BY <1>4, <1>10, <1>13, BodyAreas
  <2> QED
    BY <1>3, <1>6, <1>13, <2>1, <2>2 DEF t
<1> QED
  BY <1>11, <1>12, <1>13

\* Code and parameters are what leads to the end of a message.
LEMMA BodyAtEnd ==
  ASSUME NEW s \in Seq(Byte)
  PROVE  (IsCode(Before(s, {" "})) /\ (Has(s, " ") => IsParams(After(s, {" "}))))
           <=> \E p \in MessageEnds : BodyLeads(s, p)
<1> DEFINE B == Before(s, {" "})
           A == After(s, {" "})
<1>1. B \in Seq(Byte) /\ A \in Seq(Byte) /\ (~Has(s, " ") => B = s)
  <2> DEFINE c == " "
  <2> HIDE DEF c
  <2>1. /\ Before(s, {c}) \in Seq(Byte) /\ After(s, {c}) \in Seq(Byte)
        /\ ~Has(s, c) => Before(s, {c}) = s /\ After(s, {c}) = <<>>
    BY CutType
  <2> QED
    BY <2>1 DEF c
<1>2. \A p : p \in MessageEnds <=> p \in CodeEnds \/ p \in ParamsEnds
  BY DEF MessageEnds, ParamsEnds
<1>3. \A p : BodyLeads(s, p) <=>
        \/ ~Has(s, " ") /\ CodeLeads(s, p)
        \/ Has(s, " ") /\ IsCode(B) /\ ParamsLeads(A, p)
  BY DEF BodyLeads
<1> HIDE DEF A, B
<1>4. CASE Has(s, " ")
  <2>1. IsParams(A) <=> \E p \in ParamsEnds : ParamsLeads(A, p)
    BY <1>1, ParamsAtEnd
  <2>2. \A p : ParamsLeads(A, p) => p \notin CodeEnds
    <3>1. "code" # "params"
      OBVIOUS
    <3> QED
      BY <3>1, BodyAreas
  <2> QED
    BY <1>2, <1>3, <1>4, <2>1, <2>2 DEF A, B
<1>5. CASE ~Has(s, " ")
  <2>1. IsCode(s) <=> \E p \in CodeEnds : CodeLeads(s, p)
    BY CodeAtEnd
  <2>2. \A p : CodeLeads(s, p) => p \notin ParamsEnds
    <3>1. "code" # "params"
      OBVIOUS
    <3> QED
      BY <3>1, BodyAreas
  <2> QED
    BY <1>1, <1>2, <1>3, <1>5, <2>1, <2>2 DEF A, B
<1> QED
  BY <1>4, <1>5

\* What a prefix may be.
PrefixOK(x) == IsHostname(x) \/ IsHostmask(x)

\* A text whose prefix, if it has one, is complete and right.
Fronted(t) == HasPrefix(t) => Has(t, " ") /\ PrefixOK(Prefix(t))

\* Where a text leads within a message, its end aside.
InnerLeads(t, p) ==
  \/ t = <<>> /\ p = Start
  \/ HasPrefix(t) /\ ~Has(t, " ") /\ PrefixLeads(Tail(t), p)
  \/ HasPrefix(t) /\ Fronted(t) /\ Body(t) = <<>> /\ p = Space
  \/ Fronted(t) /\ BodyLeads(Body(t), p)
InnerMoves(p, b, q) ==
  \/ p = Start /\ b = ":" /\ q = Colon
  \/ PrefixOn(p, b, q)
  \/ p \in PrefixEnds2 /\ b = " " /\ q = Space
  \/ p \in {Start, Space} /\ CodeEnter(b, q)
  \/ BodyOn(p, b, q)

\* The areas of a prefix, and that no space leads on within one.
LEMMA PrefixPlaces ==
  /\ \A x, p : PrefixLeads(x, p) => p[1] \notin {"message", "code", "params"} /\ p # Space
  /\ \A p, b, q : PrefixOn(p, b, q) =>
       /\ p[1] \notin {"message", "code", "params"} /\ p # Space
       /\ q[1] \notin {"message", "code", "params"} /\ b # " "
  /\ \A p \in PrefixEnds2 : p[1] \notin {"message", "code", "params", "prefix"}
  /\ Start[1] = "message" /\ Cr[1] = "message" /\ Done[1] = "message" /\ Space[1] = "prefix"
  /\ Start # Cr /\ Start # Done /\ Cr # Done
<1> DEFINE Others == {"message", "code", "params"}
<1>1. \A x, p : PrefixLeads(x, p) => p[1] \notin Others /\ p # Space
  <2>1. \A x, p : HostLeads("server", x, p) => p[1] = "server"
    BY HostAreas2
  <2>2. \A x, p : MaskLeads(x, p) => p[1] \notin Others /\ p # Space
    BY HostAreas2, PrefixAreas DEF MaskLeads, AddressParts3
  <2> QED
    BY <2>1, <2>2, PrefixAreas DEF PrefixLeads
<1>2. \A p, b, q : HostOn("server", p, b, q) \/ HostOn("host", p, b, q) =>
        p[1] \in {"server", "host"} /\ q[1] \in {"server", "host"}
  BY HostAreas2
<1>3. \A p, b, q : PrefixOn(p, b, q) => p[1] \notin Others /\ p # Space /\ q[1] \notin Others
  <2> SUFFICES ASSUME NEW p, NEW b, NEW q, PrefixOn(p, b, q)
               PROVE  p[1] \notin Others /\ p # Space /\ q[1] \notin Others
    OBVIOUS
  <2>1. CASE p = Colon /\ HostEnter("server", b, q)
    BY <2>1, HostAreas2, PrefixAreas
  <2>2. CASE HostOn("server", p, b, q)
    BY <1>2, <2>2, PrefixAreas
  <2>3. CASE MaskOn(p, b, q)
    BY <2>3, <1>2, HostAreas2, PrefixAreas DEF MaskOn, AddressParts3
  <2> QED
    BY <2>1, <2>2, <2>3 DEF PrefixOn
<1>4. \A where, p, b, q : HostEnter(where, b, q) \/ HostOn(where, p, b, q) => b # " "
  <2>1. \A c \in Alnum : c # " "
    BY NoMarks
  <2>2. \A where, b, q : HostEnter(where, b, q) => b # " "
    BY <2>1 DEF HostEnter
  <2>3. \A where, p, b, q : HostOn(where, p, b, q) => b \in Alnum \/ b \in {"-", ".", "/", "*"}
    BY DEF HostOn
  <2> QED
    BY <2>1, <2>2, <2>3
<1>5. \A p, b, q : AddressEnter(b, q) \/ AddressOn(p, b, q) => b # " "
  <2>1. /\ \A c \in Digit \cup HexLetter : c # " "
    BY NoMarks, IrcsmAssumption DEF Alnum
  <2>2. \A b : b \in Digit \/ b \in Hex \/ b \in {".", ":", "0", "f", "F"} => b # " "
    BY <2>1 DEF Hex
  <2>3. \A b, q : AddressEnter(b, q) => b \in Digit \/ b \in Hex \/ b \in {".", ":", "0", "f", "F"}
    BY DEF AddressEnter, Ip4Enter, GroupEnter, MappedEnter
  <2>4. /\ \A p, b, q : Ip4On(p, b, q) => b \in Digit \/ b = "."
        /\ \A p, b, q : GroupOn(p, b, q) => b \in Hex \/ b = ":"
        /\ \A p, b, q : MappedOn(p, b, q) => b \in Digit \/ b \in {":", "0", "f", "F"}
    BY DEF Ip4On, GroupOn, MappedOn, Ip4Enter
  <2>5. \A p, b, q : AddressOn(p, b, q) => b \in Digit \/ b \in Hex \/ b \in {".", ":", "0", "f", "F"}
    BY <2>4 DEF AddressOn
  <2> QED
    BY <2>2, <2>3, <2>5
<1>6. \A p, b, q : PrefixOn(p, b, q) => b # " "
  <2>1. \A c \in Letter \cup Special : c # " "
    BY NoMarks DEF Alnum
  <2>2. " " \notin NickByte /\ " " \notin UserByte
    BY NoMarks DEF NickByte, UserByte
  <2>3. \A p, b, q : MaskOn(p, b, q) => b # " "
    BY <1>4, <1>5, <2>1, <2>2 DEF MaskOn
  <2> QED
    BY <1>4, <2>3 DEF PrefixOn
<1>7. \A p \in PrefixEnds2 : p[1] \notin {"message", "code", "params", "prefix"}
  BY HostmaskEndAreas, HostnameEndAreas DEF PrefixEnds2, HostAreas
<1>8. /\ Start[1] = "message" /\ Cr[1] = "message" /\ Done[1] = "message" /\ Space[1] = "prefix"
      /\ Start # Cr /\ Start # Done /\ Cr # Done
  BY DEF Start, Cr, Done, Space
<1> QED
  BY <1>1, <1>3, <1>6, <1>7, <1>8

\* The places of code and parameters are no others.
LEMMA BodyPlaces ==
  /\ \A s, p : BodyLeads(s, p) => p[1] \in {"code", "params"} /\ s # <<>>
  /\ \A p, b, q : BodyOn(p, b, q) => p[1] \in {"code", "params"} /\ q[1] \in {"code", "params"}
<1>1. ~Has(<<>>, " ")
  BY NothingHas
<1>2. \A p : ~CodeLeads(<<>>, p)
  <2>1. ~Nonempty(<<>>, Letter) /\ ~Nonempty(<<>>, Digit)
    BY DEF Nonempty
  <2> QED
    BY <2>1 DEF CodeLeads
<1> QED
  BY <1>1, <1>2, BodyAreas DEF BodyLeads, BodyOn

\* The prefix and the body of a text, one byte later.
LEMMA FrontMore ==
  ASSUME NEW t \in Seq(Byte), NEW b \in Byte
  PROVE  LET u == Append(t, b) IN
         /\ t = <<>> => (HasPrefix(u) <=> b = ":") /\ ~HasPrefix(t)
         /\ t # <<>> => (HasPrefix(u) <=> HasPrefix(t))
         /\ HasPrefix(t) => Tail(u) = Append(Tail(t), b) /\ Tail(t) \in Seq(Byte)
         /\ Body(t) \in Seq(Byte)
         /\ ~HasPrefix(u) => Body(t) = t /\ Body(u) = Append(t, b)
         /\ HasPrefix(t) /\ Has(t, " ") => /\ Prefix(u) = Prefix(t)
                                           /\ Body(u) = Append(Body(t), b)
         /\ HasPrefix(t) /\ ~Has(t, " ") => Body(t) = <<>>
         /\ HasPrefix(t) /\ ~Has(t, " ") /\ b = " " => Prefix(u) = Tail(t) /\ Body(u) = <<>>
         /\ u # <<>>
<1> DEFINE u == Append(t, b)
<1>1. /\ Has(u, " ") <=> Has(t, " ") \/ b = " "
      /\ Has(t, " ") => /\ Before(u, {" "}) = Before(t, {" "})
                        /\ After(u, {" "}) = Append(After(t, {" "}), b)
      /\ ~Has(t, " ") /\ b = " " => Before(u, {" "}) = t /\ After(u, {" "}) = <<>>
      /\ Before(t, {" "}) \in Seq(Byte) /\ After(t, {" "}) \in Seq(Byte)
      /\ ~Has(t, " ") => Before(t, {" "}) = t /\ After(t, {" "}) = <<>>
  BY SpaceMore
<1>2. u # <<>> /\ u \in Seq(Byte)
  BY AppendType
<1>3. /\ t = <<>> => u[1] = b
      /\ t # <<>> => u[1] = t[1]
  BY FirstMore
<1>4. t # <<>> => Tail(u) = Append(Tail(t), b) /\ Tail(t) \in Seq(Byte)
  BY TailMore
<1>5. \A x : /\ HasPrefix(x) <=> x # <<>> /\ x[1] = ":"
             /\ Prefix(x) = Tail(Before(x, {" "}))
             /\ HasPrefix(x) => Body(x) = After(x, {" "})
             /\ ~HasPrefix(x) => Body(x) = x
  BY DEF HasPrefix, Prefix, Body
<1> HIDE DEF u
<1>6. /\ t = <<>> => (HasPrefix(u) <=> b = ":") /\ ~HasPrefix(t)
      /\ t # <<>> => (HasPrefix(u) <=> HasPrefix(t))
  BY <1>2, <1>3, <1>5
<1>7. HasPrefix(t) => Tail(u) = Append(Tail(t), b) /\ Tail(t) \in Seq(Byte)
  BY <1>4, <1>5
<1>8. ~HasPrefix(u) => Body(t) = t /\ Body(u) = Append(t, b)
  BY <1>5, <1>6 DEF u
<1>9. HasPrefix(t) => HasPrefix(u)
  BY <1>5, <1>6
<1>10. HasPrefix(t) /\ Has(t, " ") => /\ Prefix(u) = Prefix(t)
                                      /\ Body(u) = Append(Body(t), b)
  BY <1>1, <1>5, <1>9
<1>11. /\ HasPrefix(t) /\ ~Has(t, " ") => Body(t) = <<>>
       /\ HasPrefix(t) /\ ~Has(t, " ") /\ b = " " => Prefix(u) = Tail(t) /\ Body(u) = <<>>
  BY <1>1, <1>5, <1>9
<1>12. Body(t) \in Seq(Byte)
  BY <1>1, <1>5
<1> QED
  BY <1>2, <1>6, <1>7, <1>8, <1>10, <1>11, <1>12 DEF u

\* Where a message leads, one byte later.
LEMMA InnerMore ==
  ASSUME NEW t \in Seq(Byte), NEW b \in Byte, NEW q
  PROVE  InnerLeads(Append(t, b), q) <=> \E p : InnerLeads(t, p) /\ InnerMoves(p, b, q)
<1> DEFINE u == Append(t, b)
           B == Body(t)
<1>1. /\ t = <<>> => (HasPrefix(u) <=> b = ":") /\ ~HasPrefix(t)
      /\ t # <<>> => (HasPrefix(u) <=> HasPrefix(t))
      /\ HasPrefix(t) => Tail(u) = Append(Tail(t), b) /\ Tail(t) \in Seq(Byte)
      /\ B \in Seq(Byte)
      /\ ~HasPrefix(u) => B = t /\ Body(u) = Append(t, b)
      /\ HasPrefix(t) /\ Has(t, " ") => /\ Prefix(u) = Prefix(t)
                                        /\ Body(u) = Append(B, b)
      /\ HasPrefix(t) /\ ~Has(t, " ") => B = <<>>
      /\ HasPrefix(t) /\ ~Has(t, " ") /\ b = " " => Prefix(u) = Tail(t) /\ Body(u) = <<>>
      /\ u # <<>>
  BY FrontMore
<1>2. Has(u, " ") <=> Has(t, " ") \/ b = " "
  BY HasMore
<1>3. \A s : /\ \A p : InnerLeads(s, p) <=>
                  \/ s = <<>> /\ p = Start
                  \/ HasPrefix(s) /\ ~Has(s, " ") /\ PrefixLeads(Tail(s), p)
                  \/ HasPrefix(s) /\ Fronted(s) /\ Body(s) = <<>> /\ p = Space
                  \/ Fronted(s) /\ BodyLeads(Body(s), p)
             /\ Fronted(s) <=> (HasPrefix(s) => Has(s, " ") /\ PrefixOK(Prefix(s)))
  BY DEF InnerLeads, Fronted
<1>4. \A p : InnerMoves(p, b, q) <=>
        \/ p = Start /\ b = ":" /\ q = Colon
        \/ PrefixOn(p, b, q)
        \/ p \in PrefixEnds2 /\ b = " " /\ q = Space
        \/ p \in {Start, Space} /\ CodeEnter(b, q)
        \/ BodyOn(p, b, q)
  BY DEF InnerMoves
<1>5. \A s, p : BodyLeads(s, p) => p[1] \in {"code", "params"} /\ s # <<>>
  BY BodyPlaces
<1>6. \A p : BodyOn(p, b, q) => p[1] \in {"code", "params"}
  BY BodyPlaces
<1>7. /\ \A x, p : PrefixLeads(x, p) => p[1] \notin {"message", "code", "params"} /\ p # Space
      /\ \A p : PrefixOn(p, b, q) => /\ p[1] \notin {"message", "code", "params"} /\ p # Space
                                     /\ b # " "
      /\ \A p \in PrefixEnds2 : p[1] \notin {"message", "code", "params", "prefix"}
      /\ Start[1] = "message" /\ Space[1] = "prefix"
  BY PrefixPlaces
<1>8. CodeEnter(b, q) => b # " " /\ b # ":"
  BY BodyAreas
<1>9. BodyLeads(Append(B, b), q) <=>
           \/ B = <<>> /\ CodeEnter(b, q)
           \/ \E p : BodyLeads(B, p) /\ BodyOn(p, b, q)
  BY <1>1, BodyMore
<1> HIDE DEF u, B
<1>10. InnerMoves(Start, b, q) <=> (b = ":" /\ q = Colon) \/ CodeEnter(b, q)
  <2>1. Start # Space /\ "message" \notin {"code", "params"}
    BY <1>7
  <2> QED
    BY <1>4, <1>6, <1>7, <2>1
<1>11. InnerMoves(Space, b, q) <=> CodeEnter(b, q)
  <2>1. Start # Space /\ "prefix" \notin {"code", "params"}
    BY <1>7
  <2> QED
    BY <1>4, <1>6, <1>7, <2>1
<1>12. \A s, p : BodyLeads(s, p) => (InnerMoves(p, b, q) <=> BodyOn(p, b, q))
  <2>1. \A s, p : BodyLeads(s, p) => p # Start /\ p # Space /\ ~PrefixOn(p, b, q) /\ p \notin PrefixEnds2
    BY <1>5, <1>7
  <2> QED
    BY <1>4, <2>1
<1>13. \A x, p : PrefixLeads(x, p) => (InnerMoves(p, b, q) <=>
                    PrefixOn(p, b, q) \/ (p \in PrefixEnds2 /\ b = " " /\ q = Space))
  <2>1. \A x, p : PrefixLeads(x, p) => p # Start /\ p # Space /\ ~BodyOn(p, b, q)
    BY <1>6, <1>7
  <2> QED
    BY <1>4, <2>1
<1>14. CASE t = <<>>
  <2>1. ~HasPrefix(t) /\ Fronted(t)
    BY <1>1, <1>3, <1>14
  <2>2. B = <<>>
    BY <1>14, <2>1 DEF Body, B
  <2>3. \A p : InnerLeads(t, p) <=> p = Start
    BY <1>3, <1>5, <1>14, <2>1, <2>2 DEF B
  <2>4. CASE b = ":"
    <3>1. HasPrefix(u) /\ ~Has(u, " ")
      <4>1. ~Has(t, " ")
        BY <1>14, NothingHas
      <4> QED
        BY <1>1, <1>2, <1>14, <2>4, <4>1
    <3>2. Tail(u) = <<>>
      BY <1>14 DEF u
    <3>3. PrefixLeads(<<>>, q) <=> q = Colon
      <4>1. MaskLeads(<<>>, q) <=> q = Colon
        <5>1. ~Has(<<>>, "@") /\ ~Has(<<>>, "!")
          BY NothingHas
        <5>2. ~IsNick(<<>>)
          BY DEF IsNick, Nonempty
        <5> QED
          BY <5>1, <5>2 DEF MaskLeads
      <4>2. ~HostLeads("server", <<>>, q)
        BY HostNothing
      <4> QED
        BY <4>1, <4>2 DEF PrefixLeads
    <3>4. InnerLeads(u, q) <=> q = Colon
      BY <1>1, <1>3, <3>1, <3>2, <3>3
    <3> QED
      BY <1>8, <1>10, <2>3, <2>4, <3>4 DEF u
  <2>5. CASE b # ":"
    <3>1. ~HasPrefix(u) /\ Fronted(u) /\ Body(u) = Append(B, b)
      BY <1>1, <1>3, <1>14, <2>5
    <3>2. InnerLeads(u, q) <=> BodyLeads(Append(B, b), q)
      BY <1>1, <1>3, <3>1
    <3>3. \A p : ~BodyLeads(B, p)
      BY <1>5, <2>2
    <3> QED
      BY <1>9, <1>10, <2>2, <2>3, <2>5, <3>2, <3>3 DEF u
  <2> QED
    BY <2>4, <2>5
<1>15. CASE HasPrefix(t) /\ ~Has(t, " ")
  <2>0. t # <<>> /\ HasPrefix(u) /\ ~Fronted(t) /\ B = <<>>
    BY <1>1, <1>3, <1>15
  <2>1. \A p : InnerLeads(t, p) <=> PrefixLeads(Tail(t), p)
    BY <1>3, <1>15, <2>0
  <2>2. CASE b = " "
    <3>1. Has(u, " ") /\ Prefix(u) = Tail(t) /\ Body(u) = <<>>
      BY <1>1, <1>2, <1>15, <2>2
    <3>2. InnerLeads(u, q) <=> PrefixOK(Tail(t)) /\ q = Space
      BY <1>1, <1>3, <1>5, <2>0, <3>1
    <3>3. PrefixOK(Tail(t)) <=> \E p \in PrefixEnds2 : PrefixLeads(Tail(t), p)
      <4>1. Tail(t) \in Seq(Byte)
        BY <1>1, <1>15
      <4> HIDE DEF PrefixOK
      <4>2. \A x \in Seq(Byte) : PrefixOK(x) <=> \E p \in PrefixEnds2 : PrefixLeads(x, p)
        BY PrefixAtEnd DEF PrefixOK, PrefixEnds2
      <4> QED
        BY <4>1, <4>2
    <3>4. \A p : PrefixLeads(Tail(t), p) => (InnerMoves(p, b, q) <=> p \in PrefixEnds2 /\ q = Space)
      BY <1>7, <1>13, <2>2
    <3> QED
      BY <2>1, <3>2, <3>3, <3>4 DEF u
  <2>3. CASE b # " "
    <3>1. ~Has(u, " ") /\ Tail(u) = Append(Tail(t), b) /\ ~Fronted(u) /\ Tail(t) \in Seq(Byte)
      BY <1>1, <1>2, <1>3, <1>15, <2>0, <2>3
    <3>2. InnerLeads(u, q) <=> PrefixLeads(Append(Tail(t), b), q)
      BY <1>1, <1>3, <2>0, <3>1
    <3>3. PrefixLeads(Append(Tail(t), b), q) <=> \E p : PrefixLeads(Tail(t), p) /\ PrefixOn(p, b, q)
      <4> DEFINE x == Tail(t)
      <4>1. x \in Seq(Byte)
        BY <3>1
      <4> HIDE DEF x
      <4>2. PrefixLeads(Append(x, b), q) <=> \E p : PrefixLeads(x, p) /\ PrefixOn(p, b, q)
        BY <4>1, PrefixMore
      <4> QED
        BY <4>2 DEF x
    <3>4. \A p : PrefixLeads(Tail(t), p) => (InnerMoves(p, b, q) <=> PrefixOn(p, b, q))
      BY <1>13, <2>3
    <3> QED
      BY <2>1, <3>2, <3>3, <3>4 DEF u
  <2> QED
    BY <2>2, <2>3
<1>16. CASE t # <<>> /\ ~Fronted(t) /\ Has(t, " ")
  <2>1. HasPrefix(t) /\ HasPrefix(u) /\ Has(u, " ") /\ Prefix(u) = Prefix(t) /\ ~Fronted(u)
    BY <1>1, <1>2, <1>3, <1>16
  <2>2. ~InnerLeads(u, q) /\ \A p : ~InnerLeads(t, p)
    BY <1>1, <1>3, <1>16, <2>1
  <2> QED
    BY <2>2 DEF u
<1>17. CASE t # <<>> /\ Fronted(t)
  <2>1. Fronted(u) /\ Body(u) = Append(B, b) /\ ~(HasPrefix(u) /\ ~Has(u, " "))
    BY <1>1, <1>2, <1>3, <1>17
  <2>2. Body(u) # <<>>
    BY <1>1, <2>1, AppendType
  <2>3. InnerLeads(u, q) <=> BodyLeads(Append(B, b), q)
    BY <1>1, <1>3, <2>1, <2>2
  <2>4. ~HasPrefix(t) => B # <<>>
    BY <1>17 DEF B, Body
  <2>5. \A p : InnerLeads(t, p) <=> (B = <<>> /\ p = Space) \/ BodyLeads(B, p)
    BY <1>3, <1>17, <2>4 DEF B
  <2> QED
    BY <1>9, <1>11, <1>12, <2>3, <2>5 DEF u
<1>18. ~Fronted(t) => HasPrefix(t)
  BY <1>3
<1> QED
  BY <1>14, <1>15, <1>16, <1>17, <1>18

\* A message is what leads to its end.
LEMMA InnerAtEnd ==
  ASSUME NEW t \in Seq(Byte)
  PROVE  IsMessage(t) <=> \E p \in MessageEnds : InnerLeads(t, p)
<1>1. Body(t) \in Seq(Byte)
  BY CutType DEF Body
<1>2. (IsCode(Before(Body(t), {" "})) /\ (Has(Body(t), " ") => IsParams(After(Body(t), {" "}))))
           <=> \E p \in MessageEnds : BodyLeads(Body(t), p)
  <2> DEFINE s == Body(t)
  <2>1. s \in Seq(Byte)
    BY <1>1
  <2> HIDE DEF s
  <2>2. (IsCode(Before(s, {" "})) /\ (Has(s, " ") => IsParams(After(s, {" "}))))
           <=> \E p \in MessageEnds : BodyLeads(s, p)
    BY <2>1, BodyAtEnd
  <2> QED
    BY <2>2 DEF s
<1>3. \A p \in MessageEnds : p[1] \in {"code", "params"}
  BY BodyAreas, Areas DEF MessageEnds, ParamsEnds
<1>4. \A p \in MessageEnds : InnerLeads(t, p) <=> Fronted(t) /\ BodyLeads(Body(t), p)
  <2>1. \A p \in MessageEnds : p # Start /\ p # Space /\ \A x : ~PrefixLeads(x, p)
    BY <1>3, PrefixPlaces
  <2> QED
    BY <2>1 DEF InnerLeads
<1>5. (\E p \in MessageEnds : InnerLeads(t, p)) <=> Fronted(t) /\ \E p \in MessageEnds : BodyLeads(Body(t), p)
  BY <1>4
<1>6. HasPrefix(t) /\ ~Has(t, " ") => \A p : ~BodyLeads(Body(t), p)
  <2>1. HasPrefix(t) /\ ~Has(t, " ") => Body(t) = <<>>
    <3> DEFINE c == " "
    <3> HIDE DEF c
    <3>1. ~Has(t, c) => Before(t, {c}) = t /\ After(t, {c}) = <<>>
      BY CutType
    <3> QED
      BY <3>1 DEF Body, c
  <2> QED
    BY <2>1, BodyPlaces
<1>7. IsMessage(t) <=>
        /\ HasPrefix(t) => PrefixOK(Prefix(t))
        /\ \E p \in MessageEnds : BodyLeads(Body(t), p)
  BY <1>2 DEF IsMessage, PrefixOK
<1> QED
  BY <1>5, <1>6, <1>7 DEF Fronted

\* A line with the first, and with both, of the bytes that end it.
Returned(t) == \E u \in Seq(Byte) : t = Append(u, "\r") /\ IsMessage(u)
Ended(t) == \E u \in Seq(Byte) : t = Append(u, "\n") /\ Returned(u)

\* Where a text leads that is no longer than a line with its end.
TopLeads(t, p) ==
  \/ InnerLeads(t, p)
  \/ p = Cr /\ Returned(t)
  \/ p = Done /\ Ended(t)

\* The last byte of a text is its own.
LEMMA LastByte ==
  ASSUME NEW t \in Seq(Byte), NEW u \in Seq(Byte), NEW b \in Byte, NEW c \in Byte,
         Append(t, b) = Append(u, c)
  PROVE  t = u /\ b = c
OBVIOUS

\* The positions within a message are those before its end.
LEMMA InnerPlaces ==
  /\ \A t, p : InnerLeads(t, p) => p # Cr /\ p # Done
  /\ \A p, b, q : InnerMoves(p, b, q) => p # Cr /\ p # Done /\ q # Cr /\ q # Done
  /\ Cr \notin MessageEnds /\ Done \notin MessageEnds
<1>1. /\ Cr[1] = "message" /\ Done[1] = "message" /\ Start # Cr /\ Start # Done /\ Cr # Done
      /\ Space[1] = "prefix"
  BY PrefixPlaces
<1>2. Colon[1] = "prefix"
  BY DEF Colon
<1>3. \A b, q : CodeEnter(b, q) => q[1] = "code"
  BY BodyAreas
<1>4. \A p \in PrefixEnds2 : p[1] # "message"
  BY PrefixPlaces
<1>5. \A x, p : PrefixLeads(x, p) => p[1] # "message"
  BY PrefixPlaces
<1>6. \A p, b, q : PrefixOn(p, b, q) => p[1] # "message" /\ q[1] # "message"
  BY PrefixPlaces
<1>7. "message" \notin {"code", "params"} /\ "message" # "prefix"
  OBVIOUS
<1>8. \A t, p : InnerLeads(t, p) => p # Cr /\ p # Done
  BY <1>1, <1>5, <1>7, BodyPlaces DEF InnerLeads
<1>9. \A p, b, q : BodyOn(p, b, q) => p[1] # "message" /\ q[1] # "message"
  BY <1>7, BodyPlaces
<1>10. \A p, b, q : InnerMoves(p, b, q) => p # Cr /\ p # Done
  <2>1. Space # Cr /\ Space # Done
    BY <1>1, <1>7
  <2> QED
    BY <1>1, <1>4, <1>6, <1>9, <2>1 DEF InnerMoves
<1>11. \A p, b, q : InnerMoves(p, b, q) => q # Cr /\ q # Done
  <2>1. Space # Cr /\ Space # Done /\ Colon # Cr /\ Colon # Done
    BY <1>1, <1>2, <1>7
  <2>2. \A b, q : CodeEnter(b, q) => q # Cr /\ q # Done
    BY <1>1, <1>3, <1>7
  <2> QED
    BY <1>1, <1>6, <1>9, <2>1, <2>2 DEF InnerMoves
<1>12. \A p \in MessageEnds : p[1] \in {"code", "params"}
  BY BodyAreas, Areas DEF MessageEnds, ParamsEnds
<1>13. Cr \notin MessageEnds /\ Done \notin MessageEnds
  BY <1>1, <1>7, <1>12
<1> QED
  BY <1>8, <1>10, <1>11, <1>13

\* Where a text leads, one byte later: along the edges of the grammar.
LEMMA TopMore ==
  ASSUME NEW t \in Seq(Byte), NEW b \in Byte, NEW q
  PROVE  TopLeads(Append(t, b), q) <=> \E p : TopLeads(t, p) /\ Moves(p, b, q)
<1> DEFINE u == Append(t, b)
<1>1. \A p : Moves(p, b, q) <=>
        \/ InnerMoves(p, b, q)
        \/ p \in MessageEnds /\ b = "\r" /\ q = Cr
        \/ p = Cr /\ b = "\n" /\ q = Done
  BY DEF Moves, InnerMoves, BodyOn
<1>2. InnerLeads(u, q) <=> \E p : InnerLeads(t, p) /\ InnerMoves(p, b, q)
  BY InnerMore
<1>3. Returned(u) <=> b = "\r" /\ \E p \in MessageEnds : InnerLeads(t, p)
  <2>1. "\r" \in Byte
    BY DEF Byte, Marks
  <2>2. Returned(u) <=> b = "\r" /\ IsMessage(t)
    BY <2>1, LastByte DEF Returned
  <2> QED
    BY <2>2, InnerAtEnd
<1>4. Ended(u) <=> b = "\n" /\ Returned(t)
  <2>1. "\n" \in Byte
    BY DEF Byte, Marks
  <2> QED
    BY <2>1, LastByte DEF Ended
<1> HIDE DEF u
<1>5. \A p : TopLeads(t, p) <=> InnerLeads(t, p) \/ (p = Cr /\ Returned(t)) \/ (p = Done /\ Ended(t))
  BY DEF TopLeads
<1>6. TopLeads(u, q) <=> InnerLeads(u, q) \/ (q = Cr /\ Returned(u)) \/ (q = Done /\ Ended(u))
  BY DEF TopLeads
<1>7. Cr # Done
  BY PrefixPlaces
<1>8. ASSUME TopLeads(u, q)
      PROVE  \E p : TopLeads(t, p) /\ Moves(p, b, q)
  <2>1. CASE InnerLeads(u, q)
    BY <1>1, <1>2, <1>5, <2>1
  <2>2. CASE q = Cr /\ Returned(u)
    BY <1>1, <1>3, <1>5, <2>2
  <2>3. CASE q = Done /\ Ended(u)
    <3>1. TopLeads(t, Cr)
      BY <1>4, <1>5, <2>3
    <3>2. Moves(Cr, b, q)
      BY <1>1, <1>4, <2>3
    <3> QED
      BY <3>1, <3>2
  <2> QED
    BY <1>6, <1>8, <2>1, <2>2, <2>3
<1>9. ASSUME NEW p, TopLeads(t, p), Moves(p, b, q)
      PROVE  TopLeads(u, q)
  <2>1. CASE InnerMoves(p, b, q)
    BY <1>2, <1>5, <1>6, <1>9, <2>1, InnerPlaces
  <2>2. CASE p \in MessageEnds /\ b = "\r" /\ q = Cr
    BY <1>3, <1>5, <1>6, <1>9, <2>2, InnerPlaces
  <2>3. CASE p = Cr /\ b = "\n" /\ q = Done
    BY <1>4, <1>5, <1>6, <1>7, <1>9, <2>3, InnerPlaces
  <2> QED
    BY <1>1, <1>9, <2>1, <2>2, <2>3
<1> QED
  BY <1>8, <1>9 DEF u

\* The positions a text leads to.
Reached(t) == {p \in Position : TopLeads(t, p)}

\* The edges a machine at cs takes on a byte.
Taken(C, b) == {e \in UNION {EdgesFrom[p] : p \in C} : b \in e.on}

\* Nothing leads to the start, and only there.
LEMMA NothingReached ==
  /\ \A p : TopLeads(<<>>, p) <=> p = Start
  /\ Reached(<<>>) = {Start}
<1>1. ~HasPrefix(<<>>)
  BY DEF HasPrefix
<1>2. Body(<<>>) = <<>> /\ Fronted(<<>>)
  BY <1>1 DEF Body, Fronted
<1>3. \A p : ~BodyLeads(<<>>, p)
  BY BodyPlaces
<1>4. \A p : InnerLeads(<<>>, p) <=> p = Start
  BY <1>1, <1>2, <1>3 DEF InnerLeads
<1>5. ~Returned(<<>>) /\ ~Ended(<<>>)
  <2>1. \A u \in Seq(Byte) : \A c \in Byte : Append(u, c) # <<>>
    BY AppendType
  <2>2. "\r" \in Byte /\ "\n" \in Byte
    BY DEF Byte, Marks
  <2> QED
    BY <2>1, <2>2 DEF Returned, Ended
<1>6. \A p : TopLeads(<<>>, p) <=> p = Start
  BY <1>4, <1>5 DEF TopLeads
<1>7. Start \in Position
  <2>1. Edge(Start, {":"}, Colon, {"msg_start"}) \in Edges
    BY DEF Edges
  <2>2. Edge(Start, {":"}, Colon, {"msg_start"}).from = Start
    BY EdgeFields
  <2> QED
    BY <2>1, <2>2 DEF Position
<1> QED
  BY <1>6, <1>7 DEF Reached

\* The edges taken, by where the text leads.
LEMMA TakenEdges ==
  ASSUME NEW t \in Seq(Byte), NEW b \in Byte
  PROVE  /\ \A e : e \in Taken(Reached(t), b) <=> e \in Edges /\ TopLeads(t, e.from) /\ b \in e.on
         /\ \A e \in Taken(Reached(t), b) : Moves(e.from, b, e.to)
         /\ \A q : TopLeads(Append(t, b), q) <=> \E e \in Taken(Reached(t), b) : e.to = q
<1>1. \A p \in Position : \A e : e \in EdgesFrom[p] <=> e \in Edges /\ e.from = p
  BY DEF EdgesFrom
<1>2. \A e \in Edges : e.from \in Position /\ e.to \in Position
  BY DEF Position
<1>3. \A p, q : Moves(p, b, q) <=> \E e \in Edges : e.from = p /\ b \in e.on /\ e.to = q
  BY EdgeMoves DEF Joins
<1> DEFINE u == Append(t, b)
<1>4. \A q : TopLeads(u, q) <=> \E p : TopLeads(t, p) /\ Moves(p, b, q)
  BY TopMore
<1>5. \A e : e \in Taken(Reached(t), b) <=> e \in Edges /\ TopLeads(t, e.from) /\ b \in e.on
  BY <1>1, <1>2 DEF Taken, Reached
<1> HIDE DEF u
<1>6. \A e \in Taken(Reached(t), b) : Moves(e.from, b, e.to)
  BY <1>3, <1>5
<1>7. \A q : TopLeads(u, q) <=> \E e \in Edges : TopLeads(t, e.from) /\ b \in e.on /\ e.to = q
  BY <1>3, <1>4
<1>8. \A q : TopLeads(u, q) <=> \E e \in Taken(Reached(t), b) : e.to = q
  BY <1>5, <1>7
<1> QED
  BY <1>5, <1>6, <1>8 DEF u

\* The edges taken from there lead to where the text leads with that byte.
LEMMA ReachedMore ==
  ASSUME NEW t \in Seq(Byte), NEW b \in Byte
  PROVE  /\ {e.to : e \in Taken(Reached(t), b)} = Reached(Append(t, b))
         /\ Reached(Append(t, b)) = {} <=> Taken(Reached(t), b) = {}
<1> DEFINE u == Append(t, b)
           T == Taken(Reached(t), b)
<1>1. /\ T \subseteq Edges
      /\ \A q : TopLeads(u, q) <=> \E e \in T : e.to = q
  BY TakenEdges
<1>2. \A e \in Edges : e.to \in Position
  BY DEF Position
<1> HIDE DEF u, T
<1>3. \A q : q \in Reached(u) <=> \E e \in T : e.to = q
  BY <1>1, <1>2 DEF Reached
<1> QED
  BY <1>3 DEF u, T

\* A message and its end is what leads to the end.
LEMMA DoneReached ==
  ASSUME NEW t \in Seq(Byte)
  PROVE  Done \in Reached(t) <=> Ended(t)
<1>1. Done \in Position
  <2>1. Edge(Cr, {"\n"}, Done, {}) \in Edges
    BY DEF Edges
  <2>2. Edge(Cr, {"\n"}, Done, {}).to = Done
    BY EdgeFields
  <2> QED
    BY <2>1, <2>2 DEF Position
<1>2. TopLeads(t, Done) <=> Ended(t)
  <2>1. ~InnerLeads(t, Done) /\ Done # Cr
    BY InnerPlaces, PrefixPlaces
  <2> QED
    BY <2>1 DEF TopLeads
<1> QED
  BY <1>1, <1>2 DEF Reached

\* No byte that ends a line leads on within a message.
LEMMA NoEndInside ==
  ASSUME NEW p, NEW b, NEW q, InnerMoves(p, b, q)
  PROVE  b # "\r" /\ b # "\n"
<1> DEFINE Inside == Byte \ {"\r", "\n"}
<1>1. /\ Alnum \cup Special \subseteq Inside /\ Letter \subseteq Inside /\ Digit \subseteq Inside
      /\ HexLetter \subseteq Inside
  BY NoMarks, IrcsmAssumption DEF Byte, Alnum
<1>2. {":", " ", "!", "@", "-", ".", "/", "*"} \subseteq Inside
  BY DEF Byte, Marks
<1>3. Hex \subseteq Inside /\ NickByte \subseteq Inside /\ UserByte \subseteq Inside
  BY <1>1, <1>2 DEF Hex, NickByte, UserByte
<1>4. {"0", "f", "F"} \cap {"\r", "\n"} = {}
  OBVIOUS
<1>5. Plain \cap {"\r", "\n"} = {} /\ ParamByte \cap {"\r", "\n"} = {}
  BY DEF Plain, ParamByte
<1> DEFINE Good == b # "\r" /\ b # "\n"
<1>6. Good <=> b \notin {"\r", "\n"}
  OBVIOUS
<1>7. \A c : c \in Inside => c \notin {"\r", "\n"}
  OBVIOUS
<1> HIDE DEF Inside, Good
<1>8. \A where : HostEnter(where, b, q) \/ HostOn(where, p, b, q) => Good
  <2>1. b \in Alnum \/ b \in {"-", ".", "/", "*"} => Good
    BY <1>1, <1>2, <1>6, <1>7
  <2> QED
    BY <2>1 DEF HostEnter, HostOn
<1>9. AddressEnter(b, q) \/ AddressOn(p, b, q) => Good
  <2>1. b \in Digit \/ b \in Hex \/ b \in {".", ":"} \/ b \in {"0", "f", "F"} => Good
    BY <1>1, <1>2, <1>3, <1>4, <1>6, <1>7
  <2> QED
    BY <2>1 DEF AddressEnter, AddressOn, Ip4Enter, Ip4On, GroupEnter, GroupOn, MappedEnter, MappedOn
<1>10. PrefixOn(p, b, q) => Good
  <2>1. /\ b \in Letter \cup Special => Good
        /\ b \in NickByte \/ b \in UserByte \/ b \in {"!", "@"} => Good
    BY <1>1, <1>2, <1>3, <1>6, <1>7
  <2>2. MaskOn(p, b, q) => Good
    BY <1>8, <1>9, <2>1 DEF MaskOn
  <2> QED
    BY <1>8, <2>2 DEF PrefixOn
<1>11. CodeEnter(b, q) \/ CodeOn(p, b, q) => Good
  BY <1>1, <1>6, <1>7 DEF CodeEnter, CodeOn
<1>12. ParamsOn(p, b, q) => Good
  <2>1. b \in {":", " "} \/ b \in Plain \/ b \in ParamByte => Good
    BY <1>2, <1>5, <1>6, <1>7
  <2> QED
    BY <2>1 DEF ParamsOn
<1>13. b = ":" \/ b = " " => Good
  BY <1>2, <1>6, <1>7
<1>14. Good
  BY <1>10, <1>11, <1>12, <1>13 DEF InnerMoves, BodyOn
<1> QED
  BY <1>14 DEF Good

\* The edges taken within a message lead from and to positions within it.
LEMMA InnerTaken ==
  ASSUME NEW t \in Seq(Byte), NEW b \in Byte, b # "\r", b # "\n"
  PROVE  /\ \A e \in Taken(Reached(t), b) :
              /\ e \in Edges /\ b \in e.on
              /\ InnerLeads(t, e.from) /\ InnerMoves(e.from, b, e.to) /\ InnerLeads(Append(t, b), e.to)
         /\ \A q : InnerLeads(Append(t, b), q) => \E e \in Taken(Reached(t), b) : e.to = q
<1> DEFINE u == Append(t, b)
<1>1. /\ \A e : e \in Taken(Reached(t), b) <=> e \in Edges /\ TopLeads(t, e.from) /\ b \in e.on
      /\ \A e \in Taken(Reached(t), b) : Moves(e.from, b, e.to)
      /\ \A q : TopLeads(u, q) <=> \E e \in Taken(Reached(t), b) : e.to = q
  BY TakenEdges
<1>2. \A p, q : Moves(p, b, q) => InnerMoves(p, b, q)
  BY DEF Moves, InnerMoves, BodyOn
<1>3. \A q : InnerLeads(u, q) <=> \E p : InnerLeads(t, p) /\ InnerMoves(p, b, q)
  BY InnerMore
<1> HIDE DEF u
<1>4. ASSUME NEW e \in Taken(Reached(t), b)
      PROVE  /\ e \in Edges /\ b \in e.on
             /\ InnerLeads(t, e.from) /\ InnerMoves(e.from, b, e.to) /\ InnerLeads(u, e.to)
  <2>1. e \in Edges /\ b \in e.on /\ TopLeads(t, e.from) /\ InnerMoves(e.from, b, e.to)
    BY <1>1, <1>2, <1>4
  <2>2. e.from # Cr /\ e.from # Done
    BY <2>1, InnerPlaces
  <2>3. InnerLeads(t, e.from)
    BY <2>1, <2>2 DEF TopLeads
  <2> QED
    BY <1>3, <2>1, <2>3
<1>5. \A q : InnerLeads(u, q) => TopLeads(u, q)
  BY DEF TopLeads
<1> QED
  BY <1>1, <1>4, <1>5 DEF u

\* The edges that end a message do nothing.
LEMMA EndTaken ==
  ASSUME NEW t \in Seq(Byte), NEW b \in {"\r", "\n"}
  PROVE  \A e \in Taken(Reached(t), b) : e.does = {}
<1>1. "\r" \in Byte /\ "\n" \in Byte
  BY DEF Byte, Marks
<1>2. SUFFICES ASSUME NEW e \in Taken(Reached(t), b) PROVE e.does = {}
  OBVIOUS
<1>3. b \in Byte /\ e \in Edges /\ b \in e.on
  BY <1>1, TakenEdges
<1>4. ~InnerMoves(e.from, b, e.to)
  BY NoEndInside
<1>5. \A f : f \in Edges <=>
        \/ f \in {Edge(Start, {":"}, Colon, {"msg_start"})} \cup PrefixEdges \cup CodeEdges \cup ParamsEdges
        \/ \E p \in MessageEnds : f = Edge(p, {"\r"}, Cr, {})
        \/ f = Edge(Cr, {"\n"}, Done, {})
  BY DEF Edges
<1>6. e \notin PrefixEdges /\ e \notin CodeEdges /\ e \notin ParamsEdges
  <2>1. /\ e \in PrefixEdges => Joins(PrefixEdges, e.from, b, e.to)
        /\ e \in CodeEdges => Joins(CodeEdges, e.from, b, e.to)
        /\ e \in ParamsEdges => Joins(ParamsEdges, e.from, b, e.to)
    BY <1>3 DEF Joins
  <2> QED
    BY <1>4, <2>1, PrefixMoves, CodeMoves, ParamsMoves DEF InnerMoves, BodyOn, Separates
<1>7. e # Edge(Start, {":"}, Colon, {"msg_start"})
  BY <1>3, EdgeFields
<1> QED
  BY <1>3, <1>5, <1>6, <1>7, EdgeFields

-----------------------------------------------------------------------------
(* What is recorded of a prefix.                                            *)

\* The parts of a hostmask.
NameOf(x) == Before(x, {"@"})
NickOf(x) == Before(NameOf(x), {"!"})
UserOf(x) == After(NameOf(x), {"!"})
HostOf(x) == After(x, {"@"})

\* The bytes that come before a hostmask's user, or host.
Plainly(x, b) == ~Has(x, "@") /\ ~Has(x, "!") /\ b # "!" /\ b # "@"
Bangs(x, b) == ~Has(x, "@") /\ ~Has(x, "!") /\ b = "!"
InsideUser(x, b) == ~Has(x, "@") /\ Has(x, "!") /\ b # "@"
Ats(x, b) == ~Has(x, "@") /\ b = "@"

\* These parts, one byte later.
LEMMA MaskPartsMore ==
  ASSUME NEW x \in Seq(Byte), NEW b \in Byte
  PROVE  LET y == Append(x, b) IN
         /\ NickOf(x) \in Seq(Byte) /\ UserOf(x) \in Seq(Byte) /\ HostOf(x) \in Seq(Byte)
         /\ NameOf(x) \in Seq(Byte)
         /\ Plainly(x, b) => /\ NickOf(x) = x /\ UserOf(x) = <<>> /\ HostOf(x) = <<>>
                             /\ NickOf(y) = y /\ UserOf(y) = <<>> /\ HostOf(y) = <<>>
         /\ Bangs(x, b) => /\ NickOf(x) = x /\ UserOf(x) = <<>> /\ HostOf(x) = <<>>
                           /\ NickOf(y) = x /\ UserOf(y) = <<>> /\ HostOf(y) = <<>>
         /\ InsideUser(x, b) => /\ NickOf(y) = NickOf(x) /\ UserOf(y) = Append(UserOf(x), b)
                                /\ HostOf(x) = <<>> /\ HostOf(y) = <<>>
                                /\ Len(NickOf(x)) + 1 + Len(UserOf(x)) = Len(x)
         /\ Ats(x, b) => /\ NickOf(y) = NickOf(x) /\ UserOf(y) = UserOf(x)
                         /\ HostOf(x) = <<>> /\ HostOf(y) = <<>>
         /\ Has(x, "@") => /\ NickOf(y) = NickOf(x) /\ UserOf(y) = UserOf(x)
                           /\ NameOf(y) = NameOf(x) /\ HostOf(y) = Append(HostOf(x), b)
                           /\ Len(NameOf(x)) + 1 + Len(HostOf(x)) = Len(x)
<1> DEFINE c == "@"
           d == "!"
           y == Append(x, b)
           n == Before(x, {c})
<1>0. c # d
  OBVIOUS
<1> HIDE DEF c, d
<1>1. /\ Has(y, c) <=> Has(x, c) \/ b = c
      /\ Has(x, c) => Before(y, {c}) = n /\ After(y, {c}) = Append(After(x, {c}), b)
      /\ ~Has(x, c) /\ b = c => Before(y, {c}) = x /\ After(y, {c}) = <<>>
      /\ ~Has(x, c) /\ b # c => Before(y, {c}) = y /\ After(y, {c}) = <<>>
  BY CutMore
<1>2. /\ n \in Seq(Byte) /\ After(x, {c}) \in Seq(Byte)
      /\ ~Has(x, c) => n = x /\ After(x, {c}) = <<>>
      /\ Has(x, c) => Len(n) + 1 + Len(After(x, {c})) = Len(x)
  BY CutType
<1>3. /\ Has(y, d) <=> Has(x, d) \/ b = d
      /\ Has(x, d) => Before(y, {d}) = Before(x, {d}) /\ After(y, {d}) = Append(After(x, {d}), b)
      /\ ~Has(x, d) /\ b = d => Before(y, {d}) = x /\ After(y, {d}) = <<>>
      /\ ~Has(x, d) /\ b # d => Before(y, {d}) = y /\ After(y, {d}) = <<>>
  BY CutMore
<1>4. \A s \in Seq(Byte) :
        /\ Before(s, {d}) \in Seq(Byte) /\ After(s, {d}) \in Seq(Byte)
        /\ ~Has(s, d) => Before(s, {d}) = s /\ After(s, {d}) = <<>>
        /\ Has(s, d) => Len(Before(s, {d})) + 1 + Len(After(s, {d})) = Len(s)
  BY CutType
<1>5. y \in Seq(Byte)
  BY AppendType
<1> HIDE DEF y, n
<1> DEFINE nk(s) == Before(Before(s, {c}), {d})
           us(s) == After(Before(s, {c}), {d})
           ho(s) == After(s, {c})
<1>6. /\ nk(x) \in Seq(Byte) /\ us(x) \in Seq(Byte) /\ ho(x) \in Seq(Byte)
  BY <1>2, <1>4 DEF n
<1>7. ~Has(x, c) /\ ~Has(x, d) /\ b # d /\ b # c =>
        /\ nk(x) = x /\ us(x) = <<>> /\ ho(x) = <<>>
        /\ nk(y) = y /\ us(y) = <<>> /\ ho(y) = <<>>
  BY <1>1, <1>2, <1>3, <1>4, <1>5 DEF n
<1>8. ~Has(x, c) /\ ~Has(x, d) /\ b = d =>
        /\ nk(x) = x /\ us(x) = <<>> /\ ho(x) = <<>>
        /\ nk(y) = x /\ us(y) = <<>> /\ ho(y) = <<>>
  BY <1>0, <1>1, <1>2, <1>3, <1>4, <1>5 DEF n
<1>9. ~Has(x, c) /\ Has(x, d) /\ b # c =>
        /\ nk(y) = nk(x) /\ us(y) = Append(us(x), b)
        /\ ho(x) = <<>> /\ ho(y) = <<>>
        /\ Len(nk(x)) + 1 + Len(us(x)) = Len(x)
  BY <1>1, <1>2, <1>3, <1>4, <1>5 DEF n
<1>10. ~Has(x, c) /\ b = c =>
        /\ nk(y) = nk(x) /\ us(y) = us(x) /\ ho(x) = <<>> /\ ho(y) = <<>>
  BY <1>1, <1>2 DEF n
<1>11. Has(x, c) =>
        /\ nk(y) = nk(x) /\ us(y) = us(x)
        /\ Before(y, {c}) = Before(x, {c}) /\ ho(y) = Append(ho(x), b)
        /\ Len(Before(x, {c})) + 1 + Len(ho(x)) = Len(x)
  BY <1>1, <1>2 DEF n
<1>12. \A s : /\ NickOf(s) = nk(s) /\ UserOf(s) = us(s) /\ HostOf(s) = ho(s)
              /\ NameOf(s) = Before(s, {c})
  BY DEF NickOf, UserOf, HostOf, NameOf, c, d
<1>13. /\ Plainly(x, b) <=> ~Has(x, c) /\ ~Has(x, d) /\ b # d /\ b # c
       /\ Bangs(x, b) <=> ~Has(x, c) /\ ~Has(x, d) /\ b = d
       /\ InsideUser(x, b) <=> ~Has(x, c) /\ Has(x, d) /\ b # c
       /\ Ats(x, b) <=> ~Has(x, c) /\ b = c
       /\ Has(x, "@") <=> Has(x, c)
  BY DEF Plainly, Bangs, InsideUser, Ats, c, d
<1> HIDE DEF nk, us, ho
<1>14. Before(x, {c}) \in Seq(Byte)
  BY <1>2 DEF n
<1> QED
  BY <1>6, <1>7, <1>8, <1>9, <1>10, <1>11, <1>12, <1>13, <1>14 DEF y

\* Where in a hostmask a text leads, by its parts.
LEMMA MaskPlace ==
  ASSUME NEW x \in Seq(Byte), NEW p, MaskLeads(x, p)
  PROVE  /\ ~Has(x, "@") /\ ~Has(x, "!") => (x = <<>> /\ p = Colon) \/ p[1] = "nick"
         /\ ~Has(x, "@") /\ Has(x, "!") => p = IF UserOf(x) = <<>> THEN Bang ELSE User
         /\ Has(x, "@") => IF HostOf(x) = <<>> THEN p = At ELSE p[1] \in HostAreas
<1>1. ~Has(x, "@") => NameOf(x) = x
  <2> DEFINE c == "@"
  <2> HIDE DEF c
  <2>1. ~Has(x, c) => Before(x, {c}) = x
    BY CutType
  <2> QED
    BY <2>1 DEF c, NameOf
<1>2. ~Has(x, "@") => UserOf(x) = After(x, {"!"})
  BY <1>1 DEF UserOf
<1>3. ~Has(<<>>, "@") /\ ~Has(<<>>, "!")
  BY NothingHas
<1>4. \A k : Nick(k)[1] = "nick"
  BY PrefixAreas
<1>5. \A z, q : HostLeads("host", z, q) \/ AddressLeads(z, q) => z # <<>> /\ q[1] \in HostAreas
  BY HostAreas2, HostNothing DEF HostAreas, AddressParts3
<1>6. Nonempty(After(x, {"!"}), UserByte) => After(x, {"!"}) # <<>>
  BY DEF Nonempty
<1>7. CASE ~Has(x, "@") /\ ~Has(x, "!")
  BY <1>4, <1>7 DEF MaskLeads
<1>8. CASE ~Has(x, "@") /\ Has(x, "!")
  BY <1>2, <1>3, <1>6, <1>8 DEF MaskLeads
<1>9. CASE Has(x, "@")
  BY <1>3, <1>5, <1>9 DEF MaskLeads, HostOf
<1> QED
  BY <1>7, <1>8, <1>9

\* Edges within a server name, and within a hostmask, and what they do.
ServerEdge(x, b, e) ==
  /\ HostLeads("server", x, e.from) /\ HostLeads("server", Append(x, b), e.to)
  /\ e.does = ServerMore
MaskEdge(x, b, e) ==
  /\ MaskLeads(x, e.from) /\ MaskLeads(Append(x, b), e.to)
  /\ Plainly(x, b) => e.does = NickMore
  /\ Bangs(x, b) \/ Ats(x, b) => e.does = PrefixOnly
  /\ InsideUser(x, b) => e.does = IF UserOf(x) = <<>> THEN UserStart ELSE UserMore
  /\ Has(x, "@") => e.does = IF HostOf(x) = <<>> THEN HostStart ELSE HostMore

\* The edges taken within a prefix are such edges.
LEMMA PrefixTaken ==
  ASSUME NEW x \in Seq(Byte), NEW b \in Byte, x # <<>>, b # " ", NEW e \in Edges, b \in e.on,
         PrefixLeads(x, e.from), PrefixLeads(Append(x, b), e.to)
  PROVE  \/ ServerEdge(x, b, e) /\ b # "!" /\ b # "@"
         \/ MaskEdge(x, b, e)
<1> DEFINE y == Append(x, b)
<1>0. y \in Seq(Byte) /\ y # <<>>
  BY AppendType
<1>1. /\ PrefixLeads(x, e.from) <=> HostLeads("server", x, e.from) \/ MaskLeads(x, e.from)
      /\ PrefixLeads(y, e.to) <=> HostLeads("server", y, e.to) \/ MaskLeads(y, e.to)
  BY DEF PrefixLeads
<1>2. \A z, p : HostLeads("server", z, p) => p[1] = "server"
  BY HostAreas2
<1>3. \A z, p : MaskLeads(z, p) => p[1] # "server"
  <2>1. \A z, p : MaskLeads(z, p) => p[1] \in MaskAreas
    BY MaskPlaces
  <2>2. "server" \notin MaskAreas
    BY DEF MaskAreas, AddressParts3
  <2> QED
    BY <2>1, <2>2
<1>4. Has(y, "@") <=> Has(x, "@") \/ b = "@"
  BY HasMore
<1>5. Ats(x, b) => HostOf(y) = <<>>
  BY MaskPartsMore
<1>6. /\ MaskLeads(x, e.from) =>
           /\ ~Has(x, "@") /\ ~Has(x, "!") => e.from[1] = "nick"
           /\ ~Has(x, "@") /\ Has(x, "!") => e.from = IF UserOf(x) = <<>> THEN Bang ELSE User
           /\ Has(x, "@") => IF HostOf(x) = <<>> THEN e.from = At ELSE e.from[1] \in HostAreas
      /\ MaskLeads(y, e.to) => (Has(y, "@") /\ HostOf(y) = <<>> => e.to = At)
  BY <1>0, MaskPlace
<1> HIDE DEF y
<1>7. /\ User # At /\ User[1] # "server" /\ At[1] # "server" /\ Bang[1] # "server"
      /\ Bang # User
  BY DEF User, At, Bang
<1>8. /\ \A z : z = "nick" \/ z \in HostAreas => z # "server"
      /\ "!" # "@"
  BY DEF HostAreas
<1>9. CASE HostLeads("server", x, e.from)
  <2>1. InServer(e)
    BY <1>2, <1>9, KindFrom DEF ServerEnds, OnlyOn
  <2>2. e.to[1] = "server" /\ e.does = ServerMore /\ b # "!" /\ b # "@"
    BY <2>1 DEF InServer, Quiet
  <2>3. HostLeads("server", y, e.to)
    BY <1>1, <1>3, <2>2 DEF y
  <2> QED
    BY <1>9, <2>2, <2>3 DEF ServerEdge, y
<1>10. CASE MaskLeads(x, e.from)
  <2>1. ASSUME e.to[1] # "server"
        PROVE  MaskLeads(y, e.to)
    BY <1>1, <1>2, <2>1 DEF y
  <2>2. ASSUME Plainly(x, b)
        PROVE  e.does = NickMore /\ e.to[1] # "server"
    <3>1. e.from[1] = "nick" /\ b # "!" /\ b # "@"
      BY <1>6, <1>10, <2>2 DEF Plainly
    <3>2. InNick(e)
      BY <3>1, KindFrom DEF NickToUser, NickToHost, MaskEnds, OnlyOn
    <3> QED
      BY <3>2, <1>8 DEF InNick
  <2>3. ASSUME Bangs(x, b)
        PROVE  e.does = PrefixOnly /\ e.to[1] # "server"
    <3>1. e.from[1] = "nick" /\ b = "!"
      BY <1>6, <1>10, <2>3 DEF Bangs
    <3>2. NickToUser(e)
      BY <1>8, <3>1, KindFrom DEF InNick, Quiet, NickToHost, MaskEnds, OnlyOn
    <3> QED
      BY <3>2, <1>7 DEF NickToUser
  <2>4. ASSUME Ats(x, b)
        PROVE  e.does = PrefixOnly /\ e.to[1] # "server"
    <3>1. b = "@" /\ ~Has(x, "@") /\ Has(y, "@") /\ HostOf(y) = <<>>
      BY <1>4, <1>5, <2>4 DEF Ats
    <3>2. CASE e.from[1] = "nick"
      <4>1. NickToHost(e)
        BY <1>8, <3>1, <3>2, KindFrom DEF InNick, Quiet, NickToUser, MaskEnds, OnlyOn
      <4> QED
        BY <4>1, <1>7 DEF NickToHost
    <3>3. CASE e.from = Bang
      <4>1. e.to = User
        BY <3>3, KindFrom DEF ToUser
      <4>2. e.to = At
        BY <1>6, <1>7, <2>1, <3>1, <4>1
      <4> QED
        BY <1>7, <4>1, <4>2
    <3>4. CASE e.from = User
      <4>1. UserToHost(e)
        BY <3>1, <3>4, KindFrom DEF InUser
      <4> QED
        BY <4>1, <1>7 DEF UserToHost
    <3> QED
      BY <1>6, <1>10, <3>1, <3>2, <3>3, <3>4
  <2>5. ASSUME InsideUser(x, b)
        PROVE  e.does = (IF UserOf(x) = <<>> THEN UserStart ELSE UserMore) /\ e.to[1] # "server"
    <3>1. b # "@" /\ e.from = IF UserOf(x) = <<>> THEN Bang ELSE User
      BY <1>6, <1>10, <2>5 DEF InsideUser
    <3>2. CASE UserOf(x) = <<>>
      <4>1. ToUser(e)
        BY <3>1, <3>2, KindFrom
      <4> QED
        BY <1>7, <3>2, <4>1 DEF ToUser
    <3>3. CASE UserOf(x) # <<>>
      <4>1. InUser(e)
        BY <3>1, <3>3, KindFrom DEF UserToHost, OnlyOn
      <4> QED
        BY <1>7, <3>3, <4>1 DEF InUser
    <3> QED
      BY <3>2, <3>3
  <2>6. ASSUME Has(x, "@")
        PROVE  e.does = (IF HostOf(x) = <<>> THEN HostStart ELSE HostMore) /\ e.to[1] # "server"
    <3>1. CASE HostOf(x) = <<>>
      <4>1. ToHost(e)
        BY <1>6, <1>10, <2>6, <3>1, KindFrom
      <4> QED
        BY <1>8, <3>1, <4>1 DEF ToHost
    <3>2. CASE HostOf(x) # <<>>
      <4>1. InHost(e)
        BY <1>6, <1>10, <2>6, <3>2, KindFrom DEF MaskEnds, OnlyOn
      <4> QED
        BY <1>8, <3>2, <4>1 DEF InHost
    <3> QED
      BY <3>1, <3>2
  <2>7. Plainly(x, b) \/ Bangs(x, b) \/ Ats(x, b) \/ InsideUser(x, b) \/ Has(x, "@")
    BY DEF Plainly, Bangs, Ats, InsideUser
  <2>8. MaskLeads(y, e.to)
    BY <2>1, <2>2, <2>3, <2>4, <2>5, <2>6, <2>7
  <2> QED
    BY <1>10, <2>2, <2>3, <2>4, <2>5, <2>6, <2>8 DEF MaskEdge, y
<1> QED
  BY <1>1, <1>9, <1>10

\* What is recorded of a prefix so far: where the name of a server, or the parts
\* of a hostmask, are in it.
Masked(m, x) ==
  /\ m.nick = Slice(0, Len(NickOf(x)))
  /\ m.user.len = Len(UserOf(x))
  /\ UserOf(x) # <<>> => m.user.at = Len(NickOf(x)) + 1
  /\ m.host.len = Len(HostOf(x))
  /\ HostOf(x) # <<>> => m.host.at = Len(NameOf(x)) + 1
Named(m, x) ==
  x # <<>> =>
    /\ m.prefix = x
    /\ (\E p : HostLeads("server", x, p)) => m.servername = Slice(0, Len(x))
    /\ (\E p : MaskLeads(x, p)) => Masked(m, x)

\* The edges a byte takes within a prefix.
PrefixTakes(T, x, b) ==
  /\ T \subseteq Edges /\ T # {}
  /\ \A e \in T : b \in e.on /\ PrefixLeads(x, e.from) /\ PrefixLeads(Append(x, b), e.to)
  /\ \A q : PrefixLeads(Append(x, b), q) => \E e \in T : e.to = q

\* Server names and hostmasks are apart.
LEMMA ServerOrMask ==
  /\ \A z, p : HostLeads("server", z, p) => p[1] = "server"
  /\ \A z, p : MaskLeads(z, p) => p[1] # "server"
<1>1. \A z, p : MaskLeads(z, p) => p[1] \in MaskAreas
  BY MaskPlaces
<1>2. "server" \notin MaskAreas
  BY DEF MaskAreas, AddressParts3
<1> QED
  BY <1>1, <1>2, HostAreas2

\* What is recorded with the first byte of a prefix.
LEMMA NamedFirst ==
  ASSUME NEW b \in Byte, NEW m \in Msg, NEW T, PrefixTakes(T, <<>>, b)
  PROVE  /\ Named(Perform(m, b, Acts(T)), <<b>>)
         /\ "prefix" \in Acts(T) /\ Perform(m, b, Acts(T)).prefix = <<b>>
<1> DEFINE out == Perform(m, b, Acts(T))
           y == <<b>>
<1>0. /\ y = Append(<<>>, b) /\ <<>> \in Seq(Byte) /\ Len(y) = 1 /\ Len(<<>>) = 0 /\ y # <<>>
      /\ y \in Seq(Byte)
  OBVIOUS
<1>1. \A p : PrefixLeads(<<>>, p) => p = Colon
  <2>1. ~Has(<<>>, "@") /\ ~Has(<<>>, "!") /\ ~IsNick(<<>>)
    BY NothingHas DEF IsNick, Nonempty
  <2> QED
    BY <2>1, HostNothing DEF PrefixLeads, MaskLeads
<1>2. ASSUME NEW e \in T
      PROVE  /\ e.to[1] = "server" => e.does = ServerStart
             /\ e.to[1] # "server" => e.does = NickStart
  <2>1. e \in Edges /\ e.from = Colon
    BY <1>1, <1>2 DEF PrefixTakes
  <2>2. ToServer(e) \/ ToNick(e)
    BY <2>1, KindFrom
  <2> QED
    BY <2>2 DEF ToServer, ToNick
<1>3. \A e \in T : e.does = ServerStart \/ e.does = NickStart
  BY <1>2
<1>4. /\ "prefix" \in Acts(T) /\ "prefix_start" \in Acts(T)
      /\ Acts(T) \cap {"user", "user_start", "host", "host_start"} = {}
  BY <1>3 DEF Acts, ServerStart, NickStart, PrefixTakes
<1>5. out.prefix = y
  BY <1>4, PerformPrefix
<1>6. \A q : PrefixLeads(y, q) => \E e \in T : e.to = q
  BY <1>0 DEF PrefixTakes
<1>7. ASSUME NEW q, HostLeads("server", y, q)
      PROVE  out.servername = Slice(0, Len(y))
  <2>1. PICK e \in T : e.to = q
    BY <1>6, <1>7 DEF PrefixLeads
  <2>2. e.does = ServerStart
    BY <1>2, <1>7, <2>1, ServerOrMask
  <2>3. "servername_start" \in Acts(T) /\ "servername" \in Acts(T)
    BY <2>2 DEF Acts, ServerStart
  <2> QED
    BY <1>0, <1>4, <2>3, PerformServername
<1>8. ASSUME NEW q, MaskLeads(y, q)
      PROVE  Masked(out, y)
  <2>1. PICK e \in T : e.to = q
    BY <1>6, <1>8 DEF PrefixLeads
  <2>2. e.does = NickStart
    BY <1>2, <1>8, <2>1, ServerOrMask
  <2>3. {"nick_start", "nick", "hostmask_start"} \subseteq Acts(T)
    BY <2>2 DEF Acts, NickStart
  <2>4. out.nick = Slice(0, 1) /\ out.user.len = 0 /\ out.host.len = 0
    BY <1>4, <2>3, PerformNick, PerformUser, PerformHost
  <2>5. Plainly(<<>>, b)
    <3>1. b \in Letter \cup Special
      <4>1. PICK p : MaskLeads(<<>>, p) /\ MaskOn(p, b, q)
        BY <1>0, <1>8, MaskMore
      <4>2. p = Colon
        BY <1>1, <4>1 DEF PrefixLeads
      <4> QED
        BY <4>1, <4>2, MaskOnFrom
    <3>2. b # "!" /\ b # "@"
      BY <3>1, NoMarks DEF Alnum
    <3> QED
      BY <3>2, NothingHas DEF Plainly
  <2>6. NickOf(y) = y /\ UserOf(y) = <<>> /\ HostOf(y) = <<>>
    <3>1. LET z == Append(<<>>, b) IN NickOf(z) = z /\ UserOf(z) = <<>> /\ HostOf(z) = <<>>
      BY <1>0, <2>5, MaskPartsMore
    <3> QED
      BY <1>0, <3>1
  <2> HIDE DEF out, y
  <2> QED
    BY <1>0, <2>4, <2>6 DEF Masked
<1> HIDE DEF out, y
<1>9. Named(out, y)
  BY <1>5, <1>7, <1>8 DEF Named
<1> QED
  BY <1>4, <1>5, <1>9 DEF out, y

\* What a byte within a prefix does to the parts of a hostmask.
LEMMA MaskedMore ==
  ASSUME NEW x \in Seq(Byte), NEW b \in Byte, NEW m \in Msg, NEW T, NEW e \in T,
         MaskEdge(x, b, e),
         \A f \in T : (ServerEdge(x, b, f) /\ b # "!" /\ b # "@") \/ MaskEdge(x, b, f),
         m.prefix = x, Masked(m, x)
  PROVE  Masked(Perform(m, b, Acts(T)), Append(x, b))
<1> DEFINE out == Perform(m, b, Acts(T))
           y == Append(x, b)
           acts == Acts(T)
<1>0. Len(y) = Len(x) + 1 /\ Len(x) \in Nat
  BY AppendType
<1>1. /\ NickOf(x) \in Seq(Byte) /\ UserOf(x) \in Seq(Byte) /\ HostOf(x) \in Seq(Byte)
      /\ NameOf(x) \in Seq(Byte)
      /\ Plainly(x, b) => /\ NickOf(x) = x /\ UserOf(x) = <<>> /\ HostOf(x) = <<>>
                          /\ NickOf(y) = y /\ UserOf(y) = <<>> /\ HostOf(y) = <<>>
      /\ Bangs(x, b) => /\ NickOf(x) = x /\ UserOf(x) = <<>> /\ HostOf(x) = <<>>
                        /\ NickOf(y) = x /\ UserOf(y) = <<>> /\ HostOf(y) = <<>>
      /\ InsideUser(x, b) => /\ NickOf(y) = NickOf(x) /\ UserOf(y) = Append(UserOf(x), b)
                             /\ HostOf(x) = <<>> /\ HostOf(y) = <<>>
                             /\ Len(NickOf(x)) + 1 + Len(UserOf(x)) = Len(x)
      /\ Ats(x, b) => /\ NickOf(y) = NickOf(x) /\ UserOf(y) = UserOf(x)
                      /\ HostOf(x) = <<>> /\ HostOf(y) = <<>>
      /\ Has(x, "@") => /\ NickOf(y) = NickOf(x) /\ UserOf(y) = UserOf(x)
                        /\ NameOf(y) = NameOf(x) /\ HostOf(y) = Append(HostOf(x), b)
                        /\ Len(NameOf(x)) + 1 + Len(HostOf(x)) = Len(x)
  BY MaskPartsMore
<1>2. \A f \in T : f.does \in {ServerMore, NickMore, PrefixOnly, UserStart, UserMore, HostStart, HostMore}
  <2>1. Plainly(x, b) \/ Bangs(x, b) \/ Ats(x, b) \/ InsideUser(x, b) \/ Has(x, "@")
    BY DEF Plainly, Bangs, Ats, InsideUser
  <2> QED
    BY <2>1 DEF ServerEdge, MaskEdge
<1>3. acts \cap {"prefix_start", "nick_start", "hostmask_start"} = {}
  BY <1>2 DEF Acts, ServerMore, NickMore, PrefixOnly, UserStart, UserMore, HostStart, HostMore
<1>4. /\ "nick" \in acts => out.nick = Slice(m.nick.at, m.nick.len + 1)
      /\ "nick" \notin acts => out.nick = m.nick
      /\ "user_start" \in acts /\ "user" \in acts => out.user = Slice(Len(x), 1)
      /\ "user_start" \notin acts /\ "user" \in acts => out.user = Slice(m.user.at, m.user.len + 1)
      /\ "user_start" \notin acts /\ "user" \notin acts => out.user = m.user
      /\ "host_start" \in acts /\ "host" \in acts => out.host = Slice(Len(x), 1)
      /\ "host_start" \notin acts /\ "host" \in acts => out.host = Slice(m.host.at, m.host.len + 1)
      /\ "host_start" \notin acts /\ "host" \notin acts => out.host = m.host
  BY <1>3, PerformNick, PerformUser, PerformHost
<1>5. \A a : a \in acts <=> \E f \in T : a \in f.does
  BY DEF Acts
<1>6. /\ m.nick.at = 0 /\ m.nick.len = Len(NickOf(x)) /\ m.nick = Slice(0, Len(NickOf(x)))
      /\ m.user.len = Len(UserOf(x)) /\ m.host.len = Len(HostOf(x))
      /\ UserOf(x) # <<>> => m.user.at = Len(NickOf(x)) + 1
      /\ HostOf(x) # <<>> => m.host.at = Len(NameOf(x)) + 1
  BY DEF Masked, Slice
<1>7. \A i, j : Slice(i, j).at = i /\ Slice(i, j).len = j
  BY DEF Slice
<1>8. \A z \in Seq(Byte) : /\ Len(Append(z, b)) = Len(z) + 1 /\ Len(z) \in Nat /\ Append(z, b) # <<>>
                           /\ z = <<>> => Len(z) = 0
  BY AppendType
<1> HIDE DEF out, y, acts
<1> SUFFICES Masked(out, y)
  BY DEF out, y
<1>10. CASE Plainly(x, b)
  <2>1. \A f \in T : f.does = ServerMore \/ f.does = NickMore
    BY <1>10 DEF ServerEdge, MaskEdge
  <2>2. e.does = NickMore
    BY <1>10 DEF MaskEdge
  <2>3. "nick" \in acts /\ acts \cap {"user", "user_start", "host", "host_start"} = {}
    BY <1>5, <2>1, <2>2 DEF ServerMore, NickMore
  <2>4. out.nick = Slice(0, Len(x) + 1) /\ out.user = m.user /\ out.host = m.host
    BY <1>1, <1>4, <1>6, <1>10, <2>3
  <2> QED
    BY <1>0, <1>1, <1>6, <1>8, <1>10, <2>4 DEF Masked
<1>11. CASE Bangs(x, b) \/ Ats(x, b)
  <2>1. b = "!" \/ b = "@"
    BY <1>11 DEF Bangs, Ats
  <2>2. \A f \in T : f.does = PrefixOnly
    BY <1>11, <2>1 DEF MaskEdge
  <2>3. acts \cap {"nick", "user", "user_start", "host", "host_start"} = {}
    BY <1>5, <2>2 DEF PrefixOnly
  <2>4. out.nick = m.nick /\ out.user = m.user /\ out.host = m.host
    BY <1>4, <2>3
  <2>5. NickOf(y) = NickOf(x) /\ UserOf(y) = UserOf(x) /\ HostOf(y) = <<>> /\ HostOf(x) = <<>>
    BY <1>1, <1>11
  <2> QED
    BY <1>6, <2>4, <2>5 DEF Masked
<1>12. CASE InsideUser(x, b)
  <2>1. \A f \in T : f.does \in {ServerMore, UserStart, UserMore}
    BY <1>12 DEF ServerEdge, MaskEdge
  <2>2. acts \cap {"nick", "host", "host_start"} = {}
    BY <1>5, <2>1 DEF ServerMore, UserStart, UserMore
  <2>3. out.nick = m.nick /\ out.host = m.host
    BY <1>4, <2>2
  <2>4. HostOf(y) = <<>> /\ HostOf(x) = <<>> /\ NickOf(y) = NickOf(x) /\ UserOf(y) = Append(UserOf(x), b)
    BY <1>1, <1>12
  <2>5. out.user.len = Len(UserOf(y)) /\ out.user.at = Len(NickOf(y)) + 1
    <3>1. CASE UserOf(x) = <<>>
      <4>1. e.does = UserStart
        BY <1>12, <3>1 DEF MaskEdge
      <4>2. "user" \in acts /\ "user_start" \in acts
        BY <1>5, <4>1 DEF UserStart
      <4>3. out.user = Slice(Len(x), 1)
        BY <1>4, <4>2
      <4>4. Len(NickOf(x)) + 1 + Len(UserOf(x)) = Len(x) /\ Len(UserOf(x)) = 0 /\ Len(NickOf(x)) \in Nat
        BY <1>1, <1>8, <1>12, <3>1
      <4>5. Len(UserOf(y)) = Len(UserOf(x)) + 1
        BY <1>1, <1>8, <2>4
      <4> QED
        BY <1>7, <2>4, <4>3, <4>4, <4>5
    <3>2. CASE UserOf(x) # <<>>
      <4>1. \A f \in T : f.does \in {ServerMore, UserMore}
        BY <1>12, <3>2 DEF ServerEdge, MaskEdge
      <4>2. e.does = UserMore
        BY <1>12, <3>2 DEF MaskEdge
      <4>3. "user" \in acts /\ "user_start" \notin acts
        BY <1>5, <4>1, <4>2 DEF UserMore, ServerMore
      <4>4. out.user = Slice(m.user.at, m.user.len + 1)
        BY <1>4, <4>3
      <4>5. Len(UserOf(y)) = Len(UserOf(x)) + 1
        BY <1>1, <1>8, <2>4
      <4> QED
        BY <1>6, <1>7, <2>4, <3>2, <4>4, <4>5
    <3> QED
      BY <3>1, <3>2
  <2> QED
    BY <1>6, <2>3, <2>4, <2>5 DEF Masked
<1>13. CASE Has(x, "@")
  <2>1. \A f \in T : f.does \in {ServerMore, HostStart, HostMore}
    BY <1>13 DEF ServerEdge, MaskEdge
  <2>2. acts \cap {"nick", "user", "user_start"} = {}
    BY <1>5, <2>1 DEF ServerMore, HostStart, HostMore
  <2>3. out.nick = m.nick /\ out.user = m.user
    BY <1>4, <2>2
  <2>4. /\ NickOf(y) = NickOf(x) /\ UserOf(y) = UserOf(x) /\ NameOf(y) = NameOf(x)
        /\ HostOf(y) = Append(HostOf(x), b)
    BY <1>1, <1>13
  <2>5. out.host.len = Len(HostOf(y)) /\ out.host.at = Len(NameOf(y)) + 1
    <3>1. CASE HostOf(x) = <<>>
      <4>1. e.does = HostStart
        BY <1>13, <3>1 DEF MaskEdge
      <4>2. "host" \in acts /\ "host_start" \in acts
        BY <1>5, <4>1 DEF HostStart
      <4>3. out.host = Slice(Len(x), 1)
        BY <1>4, <4>2
      <4>4. Len(NameOf(x)) + 1 + Len(HostOf(x)) = Len(x) /\ Len(HostOf(x)) = 0 /\ Len(NameOf(x)) \in Nat
        BY <1>1, <1>8, <1>13, <3>1
      <4>5. Len(HostOf(y)) = Len(HostOf(x)) + 1
        BY <1>1, <1>8, <2>4
      <4> QED
        BY <1>7, <2>4, <4>3, <4>4, <4>5
    <3>2. CASE HostOf(x) # <<>>
      <4>1. \A f \in T : f.does \in {ServerMore, HostMore}
        BY <1>13, <3>2 DEF ServerEdge, MaskEdge
      <4>2. e.does = HostMore
        BY <1>13, <3>2 DEF MaskEdge
      <4>3. "host" \in acts /\ "host_start" \notin acts
        BY <1>5, <4>1, <4>2 DEF HostMore, ServerMore
      <4>4. out.host = Slice(m.host.at, m.host.len + 1)
        BY <1>4, <4>3
      <4>5. Len(HostOf(y)) = Len(HostOf(x)) + 1
        BY <1>1, <1>8, <2>4
      <4> QED
        BY <1>6, <1>7, <2>4, <3>2, <4>4, <4>5
    <3> QED
      BY <3>1, <3>2
  <2> QED
    BY <1>6, <2>3, <2>4, <2>5 DEF Masked
<1>14. Plainly(x, b) \/ Bangs(x, b) \/ Ats(x, b) \/ InsideUser(x, b) \/ Has(x, "@")
  BY DEF Plainly, Bangs, Ats, InsideUser
<1> QED
  BY <1>10, <1>11, <1>12, <1>13, <1>14

\* One byte appended to none.
LEMMA AppendNothing == ASSUME NEW b \in Byte PROVE Append(<<>>, b) = <<b>>
OBVIOUS

\* What is recorded of a prefix, one byte later.
LEMMA NamedMore ==
  ASSUME NEW x \in Seq(Byte), NEW b \in Byte, NEW m \in Msg, NEW T, b # " ",
         PrefixTakes(T, x, b), Named(m, x), NoFlags(m)
  PROVE  /\ Named(Perform(m, b, Acts(T)), Append(x, b))
         /\ NoFlags(Perform(m, b, Acts(T)))
         /\ "prefix" \in Acts(T) /\ Perform(m, b, Acts(T)).prefix = Append(x, b)
<1> DEFINE out == Perform(m, b, Acts(T))
           y == Append(x, b)
           acts == Acts(T)
<1>1. T \subseteq Edges /\ T # {}
  BY DEF PrefixTakes
<1>2. acts \cap {"servername_finish", "hostmask_finish"} = {}
  <2>1. SUFFICES ASSUME NEW e \in T PROVE e.does \cap {"servername_finish", "hostmask_finish"} = {}
    BY DEF Acts
  <2>2. e \in Edges /\ b \in e.on /\ PrefixLeads(y, e.to)
    BY DEF PrefixTakes
  <2>3. e.to # Space
    BY <2>2, PrefixPlaces
  <2>4. Kind(e)
    BY <2>2, EdgeKinds
  <2> QED
    BY <2>3, <2>4 DEF Kind, ToPrefix, ToServer, ToNick, InServer, InNick, NickToUser, NickToHost, ToUser,
      InUser, UserToHost, ToHost, InHost, ServerEnds, MaskEnds, StartToCode, SpaceToCode, InRest,
      Begins, ServerStart, ServerMore, NickStart, NickMore, UserStart, UserMore, HostStart, HostMore,
      PrefixOnly, CodeFirst, CodeNext
<1>3. NoFlags(out)
  BY <1>2, PerformFlags DEF NoFlags
<1>4. CASE x = <<>>
  <2>1. y = <<b>>
    <3>1. Append(<<>>, b) = <<b>>
      BY AppendNothing
    <3> QED
      BY <1>4, <3>1
  <2>2. Named(out, <<b>>) /\ "prefix" \in acts /\ out.prefix = <<b>>
    BY <1>4, NamedFirst
  <2> QED
    BY <1>3, <2>1, <2>2
<1>5. CASE x # <<>>
  <2>0. m.prefix = x
    BY <1>5 DEF Named
  <2>1. \A e \in T : (ServerEdge(x, b, e) /\ b # "!" /\ b # "@") \/ MaskEdge(x, b, e)
    BY <1>5, PrefixTaken DEF PrefixTakes
  <2>2. \A e \in T : e.does \in {ServerMore, NickMore, PrefixOnly, UserStart, UserMore, HostStart, HostMore}
    <3>1. Plainly(x, b) \/ Bangs(x, b) \/ Ats(x, b) \/ InsideUser(x, b) \/ Has(x, "@")
      BY DEF Plainly, Bangs, Ats, InsideUser
    <3> QED
      BY <2>1, <3>1 DEF ServerEdge, MaskEdge
  <2>3. "prefix" \in acts /\ acts \cap {"prefix_start", "servername_start"} = {}
    BY <1>1, <2>2 DEF Acts, ServerMore, NickMore, PrefixOnly, UserStart, UserMore, HostStart, HostMore
  <2>4. out.prefix = y
    BY <2>0, <2>3, PerformPrefix
  <2>5. \A q : PrefixLeads(y, q) => \E e \in T : e.to = q
    BY DEF PrefixTakes
  <2>6. ASSUME NEW q, HostLeads("server", y, q)
        PROVE  out.servername = Slice(0, Len(y))
    <3>1. PICK e \in T : e.to = q
      BY <2>5, <2>6 DEF PrefixLeads
    <3>2. ServerEdge(x, b, e)
      BY <2>1, <2>6, <3>1, ServerOrMask DEF MaskEdge
    <3>3. m.servername = Slice(0, Len(x))
      BY <1>5, <3>2 DEF Named, ServerEdge
    <3>4. "servername" \in acts
      BY <3>2 DEF Acts, ServerEdge, ServerMore
    <3>5. out.servername = Slice(m.servername.at, m.servername.len + 1)
      BY <2>3, <3>4, PerformServername
    <3>6. m.servername.at = 0 /\ m.servername.len = Len(x)
      <4> DEFINE l == Len(x)
      <4> HIDE DEF l
      <4>1. Slice(0, l).at = 0 /\ Slice(0, l).len = l
        BY DEF Slice
      <4>2. m.servername = Slice(0, l)
        BY <3>3 DEF l
      <4>3. m.servername.at = 0 /\ m.servername.len = l
        BY <4>1, <4>2
      <4> QED
        BY <4>3 DEF l
    <3>7. Len(y) = Len(x) + 1
      BY AppendType
    <3> QED
      BY <3>5, <3>6, <3>7
  <2>7. ASSUME NEW q, MaskLeads(y, q)
        PROVE  Masked(out, y)
    <3>1. PICK e \in T : e.to = q
      BY <2>5, <2>7 DEF PrefixLeads
    <3>2. MaskEdge(x, b, e)
      BY <2>1, <2>7, <3>1, ServerOrMask DEF ServerEdge
    <3>3. Masked(m, x)
      BY <1>5, <3>2 DEF Named, MaskEdge
    <3> QED
      BY <2>0, <2>1, <3>2, <3>3, MaskedMore
  <2>8. Named(out, y)
    <3> HIDE DEF out, y
    <3> QED
      BY <2>4, <2>6, <2>7 DEF Named
  <2> QED
    BY <1>3, <2>3, <2>4, <2>8
<1> QED
  BY <1>4, <1>5

\* What comes before the first c is the beginning of a text.
LEMMA BeforeStarts ==
  ASSUME NEW s \in Seq(Byte), NEW c
  PROVE  /\ Before(s, {c}) = SubSeq(s, 1, Len(Before(s, {c})))
         /\ Len(Before(s, {c})) \in 0 .. Len(s)
<1> DEFINE C == Cuts(s, {c})
           o == Orders(s, {c})
           p == Before(s, {c})
<1>1. /\ C \subseteq Nat /\ Counted(C) /\ Len(s) \in Nat /\ o \in Seq(0 .. Len(s)) /\ Len(o) \in Nat \ {0}
  BY CutsCounted
<1>2. p = PartAt(s, o, 1)
  BY <1>1, PartsForm DEF Before
<1>3. o[1] = 0
  <2>1. o[1] \in C /\ Count(C, o[1]) = 0
    <3>1. Len(o) = Cardinality(C) /\ \A k \in 1 .. Cardinality(C) : o[k] \in C /\ Count(C, o[k]) = k - 1
      BY <1>1, AscendingMembers DEF Orders
    <3>2. 1 \in 1 .. Len(o) /\ 1 - 1 = 0
      BY <1>1
    <3> HIDE DEF o, C
    <3> QED
      BY <3>1, <3>2
  <2>2. 0 \in C /\ IsFiniteSet(C)
    BY <1>1 DEF Counted, Cuts
  <2> HIDE DEF C
  <2>3. ~(0 < o[1])
    <3>1. 0 < o[1] => Count(C, 0) \in Nat /\ Count(C, 0) < Count(C, o[1])
      BY <1>1, <2>1, <2>2, CountGrows
    <3>2. \A n \in Nat : ~(n < 0)
      OBVIOUS
    <3> QED
      BY <2>1, <3>1, <3>2
  <2>4. o[1] \in Nat
    BY <1>1, <2>1
  <2> HIDE DEF o
  <2> QED
    BY <2>3, <2>4
<1> HIDE DEF o, p
<1> SUFFICES p = SubSeq(s, 1, Len(p)) /\ Len(p) \in 0 .. Len(s)
  BY DEF p
<1>4. PICK j \in -1 .. Len(s) : p = SubSeq(s, 1, j)
  <2>1. CASE Len(o) = 1
    <3>1. p = SubSeq(s, o[1] + 1, Len(s))
      <4> DEFINE r == (IF 1 = Len(o) THEN Len(s) + 1 ELSE o[1 + 1])
      <4>1. p = SubSeq(s, o[1] + 1, r - 1)
        BY <1>2 DEF PartAt
      <4>3. r = Len(s) + 1
        BY <2>1
      <4> HIDE DEF r
      <4>2. r - 1 = Len(s)
        BY <1>1, <4>3
      <4> QED
        BY <4>1, <4>2
    <3>2. 0 + 1 = 1 /\ Len(s) \in -1 .. Len(s)
      BY <1>1
    <3> QED
      BY <1>3, <3>1, <3>2
  <2>2. CASE Len(o) # 1
    <3>1. p = SubSeq(s, o[1] + 1, o[2] - 1)
      <4>1. p = SubSeq(s, o[1] + 1, o[1 + 1] - 1)
        BY <1>2, <2>2 DEF PartAt
      <4>2. 1 + 1 = 2
        OBVIOUS
      <4> QED
        BY <4>1, <4>2
    <3>2. o[2] \in 0 .. Len(s)
      <4>1. 2 \in 1 .. Len(o)
        <5> DEFINE l == Len(o)
        <5>1. l \in Nat \ {0} /\ l # 1
          BY <1>1, <2>2
        <5> HIDE DEF l
        <5>2. 2 \in 1 .. l
          BY <5>1
        <5> QED
          BY <5>2 DEF l
      <4> QED
        BY <1>1, <4>1
    <3>3. o[2] - 1 \in -1 .. Len(s) /\ 0 + 1 = 1
      BY <1>1, <3>2
    <3> QED
      BY <1>3, <3>1, <3>3
  <2> QED
    BY <2>1, <2>2
<1>5. CASE j = -1
  <2>1. SubSeq(s, 1, -1) = <<>> /\ SubSeq(s, 1, 0) = <<>> /\ Len(<<>>) = 0
    BY <1>1, SubSeqEmpty
  <2>2. p = <<>>
    BY <1>4, <1>5, <2>1
  <2> QED
    BY <1>1, <2>1, <2>2
<1>6. CASE j # -1
  <2>1. j \in 0 .. Len(s)
    BY <1>1, <1>4, <1>6
  <2>2. Len(SubSeq(s, 1, j)) = j
    BY <1>1, <2>1
  <2> QED
    BY <1>4, <2>1, <2>2
<1> QED
  BY <1>5, <1>6

\* A part of a part.
LEMMA PartOfPart ==
  ASSUME NEW x \in Seq(Byte), NEW n \in 0 .. Len(x), NEW i \in 1 .. n + 1, NEW j \in 0 .. n
  PROVE  SubSeq(SubSeq(x, 1, n), i, j) = SubSeq(x, i, j)
<1> DEFINE l == Len(x)
           y == SubSeq(x, 1, n)
<1>1. l \in Nat /\ n \in 0 .. l
  OBVIOUS
<1>2. y \in Seq(Byte) /\ Len(y) = n /\ \A k \in 1 .. n : y[k] = x[k]
  BY <1>1
<1> HIDE DEF l, y
<1>3. /\ Len(SubSeq(y, i, j)) = Len(SubSeq(x, i, j))
      /\ SubSeq(y, i, j) \in Seq(Byte) /\ SubSeq(x, i, j) \in Seq(Byte)
      /\ Len(SubSeq(y, i, j)) = IF i <= j THEN j - i + 1 ELSE 0
  BY <1>1, <1>2 DEF l
<1>4. ASSUME NEW k \in 1 .. Len(SubSeq(y, i, j))
      PROVE  SubSeq(y, i, j)[k] = SubSeq(x, i, j)[k]
  <2>1. i + k - 1 \in 1 .. n
    BY <1>1, <1>3
  <2>2. SubSeq(y, i, j)[k] = y[i + k - 1] /\ SubSeq(x, i, j)[k] = x[i + k - 1]
    BY <1>1, <1>2, <1>3 DEF l
  <2> QED
    BY <1>2, <2>1, <2>2
<1> QED
  BY <1>3, <1>4, SeqEqual DEF y

\* The parts of a hostmask are where they were recorded, whatever was put there.
LEMMA MaskedTexts ==
  ASSUME NEW m \in Msg, NEW x \in Seq(Byte), Masked(m, x),
         NEW y \in Seq(Byte), SeenPrefix(m) = y, Len(y) = Len(x)
  PROVE  /\ Text(m, "nick") = Ending(y, Len(NickOf(x)), NickOf(x))
         /\ Text(m, "user") = Ending(y, Len(NameOf(x)), UserOf(x))
         /\ Text(m, "host") = Ending(y, Len(x), HostOf(x))
<1> DEFINE c == "@"
           d == "!"
           name == Before(x, {c})
           nick == Before(name, {d})
           user == After(name, {d})
           host == After(x, {c})
           l == Len(x)
           n == Len(name)
           k == Len(nick)
           u == Len(user)
           h == Len(host)
<1> HIDE DEF c, d
<1>1. /\ name \in Seq(Byte) /\ host \in Seq(Byte)
      /\ name = SubSeq(x, 1, n) /\ n \in 0 .. l /\ l \in Nat
      /\ Has(x, c) => n + 1 + h = l
      /\ ~Has(x, c) => host = <<>>
      /\ host = SubSeq(x, n + 2, l)
  <2>1. /\ name \in Seq(Byte) /\ host \in Seq(Byte)
        /\ ~Has(x, c) => host = <<>>
        /\ Has(x, c) => n + 1 + h = l
    BY CutType
  <2>2. name = SubSeq(x, 1, n) /\ n \in 0 .. l
    BY BeforeStarts
  <2>3. host = SubSeq(x, n + 2, l)
    BY DEF After
  <2>4. l \in Nat
    OBVIOUS
  <2> QED
    BY <2>1, <2>2, <2>3, <2>4
<1> HIDE DEF name
<1>2. /\ nick \in Seq(Byte) /\ user \in Seq(Byte)
      /\ nick = SubSeq(name, 1, k) /\ k \in 0 .. n
      /\ Has(name, d) => k + 1 + u = n
      /\ ~Has(name, d) => user = <<>>
      /\ user = SubSeq(name, k + 2, n)
  <2>1. name \in Seq(Byte)
    BY <1>1
  <2>2. /\ nick \in Seq(Byte) /\ user \in Seq(Byte)
        /\ ~Has(name, d) => user = <<>>
        /\ Has(name, d) => k + 1 + u = n
    BY <2>1, CutType
  <2>3. nick = SubSeq(name, 1, k) /\ k \in 0 .. n
    BY <2>1, BeforeStarts
  <2>4. user = SubSeq(name, k + 2, n)
    BY DEF After
  <2> QED
    BY <2>2, <2>3, <2>4
<1>3. /\ Text(m, "nick") = SubSeq(y, m.nick.at + 1, m.nick.at + m.nick.len)
      /\ Text(m, "user") = SubSeq(y, m.user.at + 1, m.user.at + m.user.len)
      /\ Text(m, "host") = SubSeq(y, m.host.at + 1, m.host.at + m.host.len)
  BY DEF Text
<1>4. NickOf(x) = nick /\ UserOf(x) = user /\ HostOf(x) = host /\ NameOf(x) = name
  BY DEF NickOf, UserOf, HostOf, NameOf, name, c, d
<1>5. /\ m.nick.at = 0 /\ m.nick.len = k
      /\ m.user.len = u /\ (user # <<>> => m.user.at = k + 1)
      /\ m.host.len = h /\ (host # <<>> => m.host.at = n + 1)
  BY <1>4 DEF Masked, Slice
<1>6. m.user.at \in Nat /\ m.host.at \in Nat
  BY DEF Msg, Slices
<1>7. /\ u = 0 <=> user = <<>>
      /\ h = 0 <=> host = <<>>
      /\ u \in Nat /\ h \in Nat
  <2>1. \A z \in Seq(Byte) : (Len(z) = 0 <=> z = <<>>) /\ Len(z) \in Nat
    OBVIOUS
  <2> HIDE DEF user, host
  <2> QED
    BY <1>1, <1>2, <2>1
<1>8. \A a \in Nat : SubSeq(y, a + 1, a + 0) = <<>>
  <2>1. SUFFICES ASSUME NEW a \in Nat PROVE SubSeq(y, a + 1, a + 0) = <<>>
    OBVIOUS
  <2>2. a + 1 \in Int /\ a + 0 \in Int /\ a + 0 < a + 1
    OBVIOUS
  <2> QED
    BY <2>2, SubSeqEmpty
<1>a. /\ Ending(y, k, nick) = SubSeq(y, k - k + 1, k)
      /\ Ending(y, n, user) = SubSeq(y, n - u + 1, n)
      /\ Ending(y, l, host) = SubSeq(y, l - h + 1, l)
  BY DEF Ending
<1> HIDE DEF nick, user, host, l, n, k, u, h
<1>9. Text(m, "nick") = Ending(y, k, nick)
  <2>1. 0 + 1 = k - k + 1 /\ 0 + k = k
    BY <1>1, <1>2
  <2> QED
    BY <1>3, <1>5, <1>a, <2>1
<1>10. Text(m, "user") = Ending(y, n, user)
  <2>1. CASE user = <<>>
    <3>1. u = 0 /\ n \in Nat /\ n - 0 + 1 = n + 1 /\ n = n + 0
      BY <1>1, <1>7, <2>1
    <3> QED
      BY <1>3, <1>5, <1>6, <1>8, <1>a, <3>1
  <2>2. CASE user # <<>>
    <3>1. k + 1 + u = n /\ u > 0
      BY <1>2, <1>7, <2>2
    <3>2. k + 1 + 1 = n - u + 1
      BY <1>1, <1>2, <1>7, <3>1
    <3> QED
      BY <1>3, <1>5, <1>a, <2>2, <3>1, <3>2
  <2> QED
    BY <2>1, <2>2
<1>11. Text(m, "host") = Ending(y, l, host)
  <2>1. CASE host = <<>>
    <3>1. h = 0 /\ l \in Nat /\ l - 0 + 1 = l + 1 /\ l = l + 0
      BY <1>1, <1>7, <2>1
    <3> QED
      BY <1>3, <1>5, <1>6, <1>8, <1>a, <3>1
  <2>2. CASE host # <<>>
    <3>1. n + 1 + h = l
      BY <1>1, <2>2
    <3>2. n + 1 + 1 = l - h + 1
      BY <1>1, <1>7, <3>1
    <3> QED
      BY <1>3, <1>5, <1>a, <2>2, <3>1, <3>2
  <2> QED
    BY <2>1, <2>2
<1> QED
  BY <1>4, <1>9, <1>10, <1>11 DEF k, n, l

\* What is recorded of a prefix, once it is complete.
Shows(m, x) ==
  /\ m.is_servername <=> IsHostname(x)
  /\ m.is_hostmask <=> IsHostmask(x)
  /\ m.is_servername => m.prefix = x /\ m.servername = Slice(0, Len(x))
  /\ m.is_hostmask => m.prefix = x /\ Masked(m, x)

\* What is recorded of the prefix of a text.
FrontRight(m, t) ==
  /\ t # <<>> /\ ~HasPrefix(t) => NoFlags(m)
  /\ HasPrefix(t) /\ ~Has(t, " ") => NoFlags(m) /\ Named(m, Tail(t))
  /\ HasPrefix(t) /\ Has(t, " ") => Shows(m, Prefix(t))

\* The actions after a prefix leave what it shows.
LEMMA PrefixKept ==
  ASSUME NEW m \in Msg, NEW b \in Byte, NEW acts,
         acts \subseteq {"code_start", "code", "params_start", "params"}
  PROVE  LET out == Perform(m, b, acts) IN
         /\ \A x : Shows(m, x) => Shows(out, x)
         /\ NoFlags(m) => NoFlags(out)
<1> DEFINE out == Perform(m, b, acts)
<1>1. acts \cap {"prefix", "prefix_start", "msg_start", "servername_start", "servername", "servername_finish",
                 "hostmask_start", "hostmask_finish", "nick_start", "nick", "user_start", "user",
                 "host_start", "host"} = {}
  OBVIOUS
<1>2. out.prefix = m.prefix
  BY <1>1, PerformPrefix
<1>3. /\ out.servername = m.servername /\ out.nick = m.nick /\ out.user = m.user
      /\ out.host = m.host
  BY <1>1, PerformServername, PerformNick, PerformUser, PerformHost
<1>4. (out.is_hostmask <=> m.is_hostmask) /\ (out.is_servername <=> m.is_servername)
  BY <1>1, PerformFlags
<1> HIDE DEF out
<1>5. \A x : Masked(m, x) => Masked(out, x)
  BY <1>3 DEF Masked
<1>6. \A x : Shows(m, x) => Shows(out, x)
  BY <1>2, <1>3, <1>4, <1>5 DEF Shows
<1>7. NoFlags(m) => NoFlags(out)
  BY <1>4 DEF NoFlags
<1> QED
  BY <1>6, <1>7 DEF out

\* A name of a server is its whole prefix, whatever was put there.
LEMMA NameText ==
  ASSUME NEW y \in Seq(Byte), NEW m, SeenPrefix(m) = y, m.servername = Slice(0, Len(y))
  PROVE  Text(m, "servername") = y
<1>1. Text(m, "servername") = SubSeq(y, m.servername.at + 1, m.servername.at + m.servername.len)
  BY DEF Text
<1>2. m.servername.at = 0 /\ m.servername.len = Len(y)
  BY DEF Slice
<1>3. 0 + 1 = 1 /\ 0 + Len(y) = Len(y)
  OBVIOUS
<1> QED
  BY <1>1, <1>2, <1>3, SubSeqFull

\* The space after a prefix says of which kind it is.
LEMMA PrefixFinished ==
  ASSUME NEW x \in Seq(Byte), NEW m \in Msg, NEW T, T \subseteq Edges,
         NoFlags(m), Named(m, x), NEW b \in Byte, Separates(b),
         \A e : e \in T <=> /\ e \in Edges /\ PrefixLeads(x, e.from) /\ b \in e.on /\ e.to = Space
  PROVE  Shows(Perform(m, b, Acts(T)), x)
<1> DEFINE out == Perform(m, b, Acts(T))
           acts == Acts(T)
<1>1. ASSUME NEW e \in T
      PROVE  ServerEnds(e) \/ MaskEnds(e)
  <2>1. e \in Edges /\ e.to = Space
    BY <1>1
  <2>2. Kind(e)
    BY <2>1, EdgeKinds
  <2>3. /\ Space \notin {Colon, Bang, User, At, Done} /\ ~Rest(Space)
        /\ Space[1] = "prefix"
    BY DEF Space, Colon, Bang, User, At, Done, Rest, RestAreas, Cr
  <2>4. "prefix" \notin {"server", "nick", "code"} /\ "prefix" \notin HostAreas
    BY DEF HostAreas
  <2> QED
    BY <2>1, <2>2, <2>3, <2>4 DEF Kind, ToPrefix, ToServer, ToNick, InServer, InNick, NickToUser, NickToHost,
      ToUser, InUser, UserToHost, ToHost, InHost, StartToCode, SpaceToCode, InRest
<1>2. /\ \A e \in T : e.from[1] = "server" => e.does = ServerFinish
      /\ \A e \in T : e.from[1] # "server" => e.does = MaskFinish
      /\ \A e \in T : e.does = ServerFinish \/ e.does = MaskFinish
  BY <1>1 DEF ServerEnds, MaskEnds, HostAreas
<1>3. acts \subseteq {"servername_finish", "hostmask_finish"}
  BY <1>2 DEF Acts, ServerFinish, MaskFinish
<1>4. acts \cap {"prefix", "prefix_start", "msg_start", "servername_start", "servername",
                 "hostmask_start", "nick_start", "nick", "user_start", "user", "host_start", "host"} = {}
  BY <1>3
<1>5. out.prefix = m.prefix
  BY <1>4, PerformPrefix
<1>6. /\ out.servername = m.servername /\ out.nick = m.nick /\ out.user = m.user
      /\ out.host = m.host
  <2>1. {"servername_start", "servername"} \cap acts = {}
    BY <1>4
  <2>2. {"nick_start", "nick", "user_start", "user", "host_start", "host", "hostmask_start"} \cap acts = {}
    BY <1>4
  <2>3. out.servername = m.servername
    BY <2>1, PerformServername
  <2>4. out.nick = m.nick
    BY <2>2, PerformNick
  <2>5. out.user = m.user
    BY <2>2, PerformUser
  <2>6. out.host = m.host
    BY <2>2, PerformHost
  <2> QED
    BY <2>3, <2>4, <2>5, <2>6
<1>7. /\ out.is_hostmask <=> "hostmask_finish" \in acts
      /\ out.is_servername <=> "servername_finish" \in acts
  BY <1>4, PerformFlags DEF NoFlags
<1>8. /\ \A p \in HostnameEnds("server") : Edge(p, {b}, Space, ServerFinish) \in Edges
      /\ \A p \in HostmaskEnds : Edge(p, {b}, Space, MaskFinish) \in Edges
  <2>1. /\ \A p \in HostnameEnds("server") : Edge(p, {b}, Space, ServerFinish) \in PrefixEdges
        /\ \A p \in HostmaskEnds : Edge(p, {b}, Space, MaskFinish) \in PrefixEdges
    BY DEF PrefixEdges, ServerFinish, MaskFinish, Separates
  <2> QED
    BY <2>1 DEF Edges
<1>9. \A p \in HostnameEnds("server") : p[1] = "server"
  BY HostnameEndAreas
<1>10. \A p \in HostmaskEnds : p[1] # "server" /\ p[1] # "prefix"
  BY HostmaskEndAreas DEF HostAreas
<1>11. ASSUME NEW e \in T
       PROVE  /\ e.from[1] = "server" => e.from \in HostnameEnds("server")
              /\ e.from[1] # "server" => e.from \in HostmaskEnds
  <2>2. e \in Edges /\ e.to = Space /\ b \in e.on
    BY <1>11
  <2>3. Joins(Edges, e.from, b, Space)
    BY <2>2 DEF Joins
  <2>4. Moves(e.from, b, Space)
    BY <2>3, EdgeMoves
  <2>5. e.from \in PrefixEnds2
    <3>1. ~PrefixOn(e.from, b, Space)
      BY PrefixPlaces DEF Separates
    <3>2. Space[1] = "prefix" /\ Space # Cr /\ Space # Done /\ Space # Colon
      BY DEF Space, Cr, Done, Colon
    <3>3. ~CodeEnter(b, Space) /\ ~CodeOn(e.from, b, Space)
      BY BodyAreas DEF Separates
    <3>4. Space # Blank(1) /\ ~ParamsOn(e.from, b, Space)
      <4>1. "prefix" # "params"
        OBVIOUS
      <4> QED
        BY <3>2, <4>1, BodyAreas
    <3> QED
      BY <2>4, <3>1, <3>2, <3>3, <3>4 DEF Moves
  <2> QED
    BY <1>9, <1>10, <2>5 DEF PrefixEnds2
<1>12. /\ IsHostname(x) <=> \E p \in HostnameEnds("server") : PrefixLeads(x, p)
       /\ IsHostmask(x) <=> \E p \in HostmaskEnds : PrefixLeads(x, p)
  BY PrefixAtEnd
<1>13. \A p \in HostnameEnds("server") : PrefixLeads(x, p) =>
         \E e \in T : e.from = p /\ e.does = ServerFinish
  <2>1. SUFFICES ASSUME NEW p \in HostnameEnds("server"), PrefixLeads(x, p)
                 PROVE  \E e \in T : e.from = p /\ e.does = ServerFinish
    OBVIOUS
  <2> DEFINE e == Edge(p, {b}, Space, ServerFinish)
  <2>2. e \in Edges /\ e.from = p /\ b \in e.on /\ e.to = Space /\ e.does = ServerFinish
    <3>1. e \in Edges
      BY <1>8, <2>1
    <3>2. e.from = p /\ e.on = {b} /\ e.to = Space /\ e.does = ServerFinish
      BY DEF Edge
    <3> HIDE DEF e
    <3> QED
      BY <3>1, <3>2
  <2> HIDE DEF e
  <2> QED
    BY <2>1, <2>2
<1>14. \A p \in HostmaskEnds : PrefixLeads(x, p) => \E e \in T : e.from = p /\ e.does = MaskFinish
  <2>1. SUFFICES ASSUME NEW p \in HostmaskEnds, PrefixLeads(x, p)
                 PROVE  \E e \in T : e.from = p /\ e.does = MaskFinish
    OBVIOUS
  <2> DEFINE e == Edge(p, {b}, Space, MaskFinish)
  <2>2. e \in Edges /\ e.from = p /\ b \in e.on /\ e.to = Space /\ e.does = MaskFinish
    <3>1. e \in Edges
      BY <1>8, <2>1
    <3>2. e.from = p /\ e.on = {b} /\ e.to = Space /\ e.does = MaskFinish
      BY DEF Edge
    <3> HIDE DEF e
    <3> QED
      BY <3>1, <3>2
  <2> HIDE DEF e
  <2> QED
    BY <2>1, <2>2
<1>15. "servername_finish" \in acts <=> IsHostname(x)
  <2>1. "servername_finish" \in acts <=> \E e \in T : e.from[1] = "server"
    BY <1>2 DEF Acts, ServerFinish, MaskFinish
  <2> QED
    <3>1. ASSUME NEW e \in T, e.from[1] = "server"
          PROVE  IsHostname(x)
      BY <1>11, <1>12, <3>1
    <3>2. ASSUME IsHostname(x)
          PROVE  \E e \in T : e.from[1] = "server"
      <4>1. PICK p \in HostnameEnds("server") : PrefixLeads(x, p)
        BY <1>12, <3>2
      <4>2. PICK e \in T : e.from = p
        BY <1>13, <4>1
      <4> QED
        BY <1>9, <4>1, <4>2
    <3> QED
      BY <2>1, <3>1, <3>2
<1>16. "hostmask_finish" \in acts <=> IsHostmask(x)
  <2>1. "hostmask_finish" \in acts <=> \E e \in T : e.from[1] # "server"
    BY <1>2 DEF Acts, ServerFinish, MaskFinish
  <2> QED
    BY <1>10, <1>11, <1>12, <1>14, <2>1
<1>17. ASSUME IsHostname(x)
       PROVE  out.prefix = x /\ out.servername = Slice(0, Len(x))
  <2>1. PICK p : HostLeads("server", x, p)
    BY <1>9, <1>12, <1>17, ServerOrMask DEF PrefixLeads
  <2>2. x # <<>>
    BY <2>1, HostNothing
  <2>3. m.prefix = x /\ m.servername = Slice(0, Len(x))
    BY <2>1, <2>2 DEF Named
  <2> QED
    BY <1>5, <1>6, <2>3
<1>18. ASSUME IsHostmask(x)
       PROVE  out.prefix = x /\ Masked(out, x)
  <2>1. PICK p \in HostmaskEnds : MaskLeads(x, p)
    BY <1>10, <1>12, <1>18, ServerOrMask DEF PrefixLeads
  <2>2. x # <<>>
    <3>1. ~Has(<<>>, "@") /\ ~Has(<<>>, "!") /\ ~IsNick(<<>>)
      BY NothingHas DEF IsNick, Nonempty
    <3>2. MaskLeads(<<>>, p) => p = Colon
      BY <3>1 DEF MaskLeads
    <3>3. Colon[1] = "prefix"
      BY PrefixAreas
    <3> QED
      BY <1>10, <2>1, <3>2, <3>3
  <2>3. m.prefix = x /\ Masked(m, x)
    BY <2>1, <2>2 DEF Named
  <2> HIDE DEF out
  <2> QED
    BY <1>5, <1>6, <2>3 DEF Masked
<1> HIDE DEF out, acts
<1>19. Shows(out, x)
  BY <1>7, <1>15, <1>16, <1>17, <1>18 DEF Shows
<1> QED
  BY <1>19 DEF out, acts

\* Within a prefix, a text leads where its prefix leads.
LEMMA PrefixInner ==
  ASSUME NEW t, HasPrefix(t), ~Has(t, " "), NEW p
  PROVE  InnerLeads(t, p) <=> PrefixLeads(Tail(t), p)
<1>1. t # <<>> /\ ~Fronted(t)
  BY DEF HasPrefix, Fronted
<1> QED
  BY <1>1 DEF InnerLeads

\* The byte taken within a message is no end, and a message so far is a text of its own.
LEMMA InnerByte ==
  ASSUME NEW t \in Seq(Byte), NEW b \in Byte, NEW q, InnerLeads(Append(t, b), q)
  PROVE  b # "\r" /\ b # "\n" /\ \E p : InnerLeads(t, p)
<1>1. PICK p : InnerLeads(t, p) /\ InnerMoves(p, b, q)
  BY InnerMore
<1> QED
  BY <1>1, NoEndInside

\* What is recorded of the prefix with its first byte, or of a message without one.
LEMMA FrontFirst ==
  ASSUME NEW t \in Seq(Byte), NEW b \in Byte, NEW m \in Msg, t = <<>>,
         NEW q, InnerLeads(Append(t, b), q)
  PROVE  FrontRight(Perform(m, b, Acts(Taken(Reached(t), b))), Append(t, b))
<1> DEFINE u == Append(t, b)
           T == Taken(Reached(t), b)
           out == Perform(m, b, Acts(T))
<1>1. b # "\r" /\ b # "\n"
  BY InnerByte
<1>2. /\ \A e \in T : e \in Edges /\ b \in e.on /\ InnerLeads(t, e.from)
      /\ \E e \in T : e.to = q
  <2>1. /\ \A e \in T : e \in Edges /\ b \in e.on /\ InnerLeads(t, e.from)
        /\ \A p : InnerLeads(u, p) => \E e \in T : e.to = p
    BY <1>1, InnerTaken
  <2> QED
    BY <2>1
<1>3. \A p : TopLeads(t, p) <=> p = Start
  BY NothingReached
<1>4. \A e \in T : e.from = Start
  BY <1>2, <1>3 DEF TopLeads
<1>5. /\ HasPrefix(u) <=> b = ":"
      /\ u # <<>>
      /\ HasPrefix(t) => Tail(u) = Append(Tail(t), b)
  BY FrontMore
<1>6. b = ":" => Tail(u) = <<>> /\ ~Has(u, " ")
  <2>1. Append(<<>>, b) = <<b>> /\ Tail(<<b>>) = <<>>
    BY AppendNothing
  <2>2. Has(u, " ") <=> Has(t, " ") \/ b = " "
    BY HasMore
  <2>3. ~Has(t, " ")
    BY NothingHas
  <2> QED
    BY <2>1, <2>2, <2>3
<1> HIDE DEF u, T
<1>7. \A e \in T : e.does = Begins \/ e.does = CodeFirst
  BY <1>2, <1>4, KindFrom DEF ToPrefix, StartToCode
<1>8. /\ "msg_start" \in Acts(T)
      /\ "servername_finish" \notin Acts(T) /\ "hostmask_finish" \notin Acts(T)
  BY <1>2, <1>7 DEF Acts, Begins, CodeFirst
<1>9. NoFlags(out)
  BY <1>8, PerformFlags DEF NoFlags
<1> HIDE DEF out
<1>10. Named(out, <<>>)
  BY DEF Named
<1>11. FrontRight(out, u)
  BY <1>5, <1>6, <1>9, <1>10 DEF FrontRight
<1> QED
  BY <1>11 DEF out, T, u

\* What is recorded of the prefix, one byte later.
LEMMA FrontStep ==
  ASSUME NEW t \in Seq(Byte), NEW b \in Byte, NEW m \in Msg, FrontRight(m, t),
         NEW q, InnerLeads(Append(t, b), q)
  PROVE  FrontRight(Perform(m, b, Acts(Taken(Reached(t), b))), Append(t, b))
<1> DEFINE u == Append(t, b)
           T == Taken(Reached(t), b)
           out == Perform(m, b, Acts(T))
           x == Tail(t)
<1>1. b # "\r" /\ b # "\n" /\ \E p : InnerLeads(t, p)
  BY InnerByte
<1>2. /\ \A e \in T : /\ e \in Edges /\ b \in e.on
                      /\ InnerLeads(t, e.from) /\ InnerMoves(e.from, b, e.to) /\ InnerLeads(u, e.to)
      /\ \A p : InnerLeads(u, p) => \E e \in T : e.to = p
  BY <1>1, InnerTaken
<1>3. /\ t # <<>> => (HasPrefix(u) <=> HasPrefix(t))
      /\ HasPrefix(t) => Tail(u) = Append(Tail(t), b) /\ Tail(t) \in Seq(Byte)
      /\ HasPrefix(t) /\ Has(t, " ") => Prefix(u) = Prefix(t)
      /\ HasPrefix(t) /\ ~Has(t, " ") /\ b = " " => Prefix(u) = Tail(t) /\ Body(u) = <<>>
      /\ u # <<>>
  BY FrontMore
<1>4. Has(u, " ") <=> Has(t, " ") \/ b = " "
  BY HasMore
<1>5. \A e : e \in T <=> e \in Edges /\ TopLeads(t, e.from) /\ b \in e.on
  BY TakenEdges
<1>6. CASE t = <<>>
  BY <1>6, FrontFirst
<1> HIDE DEF u, T
<1>7. CASE HasPrefix(t) /\ ~Has(t, " ") /\ ~Separates(b)
  <2>1. b # " " /\ t # <<>>
    BY <1>7 DEF Separates, HasPrefix
  <2>2. HasPrefix(u) /\ ~Has(u, " ") /\ Tail(u) = Append(x, b) /\ x \in Seq(Byte)
    BY <1>3, <1>4, <1>7, <2>1
  <2>3. PrefixTakes(T, x, b)
    <3>1. \A p : InnerLeads(t, p) <=> PrefixLeads(x, p)
      BY <1>7, PrefixInner
    <3>2. \A p : InnerLeads(u, p) <=> PrefixLeads(Append(x, b), p)
      BY <2>2, PrefixInner
    <3> HIDE DEF x
    <3>3. T # {}
      BY <1>2 DEF u
    <3> QED
      BY <1>2, <3>1, <3>2, <3>3 DEF PrefixTakes
  <2>4. NoFlags(m) /\ Named(m, x)
    BY <1>7 DEF FrontRight
  <2>5. Named(out, Append(x, b)) /\ NoFlags(out)
    <3> HIDE DEF x
    <3> QED
      BY <2>1, <2>2, <2>3, <2>4, NamedMore
  <2> HIDE DEF out, x
  <2>6. FrontRight(out, u)
    BY <2>2, <2>5 DEF FrontRight
  <2> QED
    BY <2>6 DEF out, T, u
<1>8. CASE HasPrefix(t) /\ ~Has(t, " ") /\ Separates(b)
  <2>1. HasPrefix(u) /\ Has(u, " ") /\ Prefix(u) = x /\ x \in Seq(Byte) /\ Body(u) = <<>>
    BY <1>3, <1>4, <1>8 DEF Separates, HasPrefix
  <2>2. NoFlags(m) /\ Named(m, x)
    BY <1>8 DEF FrontRight
  <2>3. \A p : InnerLeads(t, p) <=> PrefixLeads(x, p)
    BY <1>8, PrefixInner
  <2>4. \A p : InnerLeads(u, p) => p = Space
    <3>1. \A p : ~BodyLeads(Body(u), p)
      BY <2>1, BodyPlaces
    <3> QED
      BY <1>3, <2>1, <3>1 DEF InnerLeads
  <2> HIDE DEF x
  <2>5. \A e : e \in T <=> /\ e \in Edges /\ PrefixLeads(x, e.from) /\ b \in e.on /\ e.to = Space
    BY <1>2, <1>5, <2>3, <2>4 DEF TopLeads
  <2>6. T \subseteq Edges
    BY <1>2
  <2>7. Shows(out, x)
    BY <1>8, <2>1, <2>2, <2>5, <2>6, PrefixFinished
  <2> HIDE DEF out
  <2>8. FrontRight(out, u)
    BY <2>1, <2>7 DEF FrontRight
  <2> QED
    BY <2>8 DEF out, T, u
<1>9. CASE t # <<>> /\ (HasPrefix(t) => Has(t, " "))
  <2>1. Fronted(t)
    BY <1>1, <1>9 DEF InnerLeads, Fronted
  <2>2. \A p : InnerLeads(t, p) => p = Space \/ Rest(p)
    BY <1>9, BodyPlaces DEF InnerLeads, Rest, RestAreas
  <2>3. \A e \in T : e.does \subseteq {"code_start", "code", "params_start", "params"}
    <3>1. \A e \in T : SpaceToCode(e) \/ InRest(e)
      BY <1>2, <2>2, KindFrom
    <3> QED
      BY <3>1 DEF SpaceToCode, InRest, CodeNext
  <2>4. Acts(T) \subseteq {"code_start", "code", "params_start", "params"}
    BY <2>3 DEF Acts
  <2>5. (\A y : Shows(m, y) => Shows(out, y)) /\ (NoFlags(m) => NoFlags(out))
    BY <2>4, PrefixKept
  <2> HIDE DEF out
  <2>6. /\ HasPrefix(u) <=> HasPrefix(t)
        /\ HasPrefix(t) => Has(t, " ") /\ Has(u, " ") /\ Prefix(u) = Prefix(t)
    BY <1>3, <1>4, <1>9
  <2>7. FrontRight(out, u)
    BY <1>9, <2>5, <2>6 DEF FrontRight
  <2> QED
    BY <2>7 DEF out, T, u
<1> QED
  BY <1>6, <1>7, <1>8, <1>9

-----------------------------------------------------------------------------
(* What is recorded of the code and the parameters.                         *)

\* What the actions do to the code and to the parameters.
LEMMA PerformRear ==
  ASSUME NEW m \in Msg, NEW b \in Byte, NEW acts
  PROVE  LET out == Perform(m, b, acts) IN
         /\ "code" \in acts /\ "code_start" \in acts => out.code = <<b>>
         /\ "code" \in acts /\ "code_start" \notin acts => out.code = Append(m.code, b)
         /\ "code" \notin acts /\ "code_start" \notin acts => out.code = m.code
         /\ "params" \in acts /\ "params_start" \in acts /\ b = " " => out.params = <<>>
         /\ "params" \in acts /\ "params_start" \notin acts /\ ~(m.params = <<>> /\ b = " ") /\
            {"prefix", "code"} \cap acts = {} =>
              out.params = Append(m.params, b)
         /\ {"params", "params_start"} \cap acts = {} =>
              /\ {"prefix", "code"} \cap acts = {} => out.params = m.params
              /\ "prefix" \in acts =>
                   out.params = Over(m.params, ParamsAt, <<b>>, Len(out.prefix) - 1)
              /\ "prefix" \notin acts /\ "code" \in acts =>
                   out.params = Over(m.params, ParamsAt, <<b>>, CodeAt + (Len(out.code) - 1))
<1> DEFINE out == Perform(m, b, acts)
           prefix == IF "prefix_start" \in acts THEN <<>> ELSE m.prefix
           code == IF "code_start" \in acts THEN <<>> ELSE m.code
           old == OldParams(m, b, acts)
<1>1. Append(<<>>, b) = <<b>>
  BY AppendNothing
<1>2. out.code = IF "code" \in acts THEN Append(code, b) ELSE code
  BY DEF Perform
<1>3. out.params = LET params == IF "params_start" \in acts THEN <<>> ELSE old IN
                   IF "params" \in acts /\ ~(params = <<>> /\ b = " ") THEN Append(params, b) ELSE params
  BY PerformParams
<1>4. out.prefix = IF "prefix" \in acts THEN Append(prefix, b) ELSE prefix
  BY PerformFields
<1>5. old = IF "prefix" \in acts THEN Over(m.params, ParamsAt, <<b>>, Len(prefix))
            ELSE IF "code" \in acts THEN Over(m.params, ParamsAt, <<b>>, CodeAt + Len(code))
            ELSE m.params
  BY DEF OldParams
<1>6. prefix \in Seq(Byte) /\ code \in Seq(Byte)
  <2>1. m.prefix \in Seq(Byte) /\ m.code \in Seq(Byte) /\ <<>> \in Seq(Byte)
    BY DEF Msg
  <2> QED
    BY <2>1
<1>7. /\ "code" \in acts /\ "code_start" \in acts => out.code = <<b>>
      /\ "code" \in acts /\ "code_start" \notin acts => out.code = Append(m.code, b)
      /\ "code" \notin acts /\ "code_start" \notin acts => out.code = m.code
  BY <1>1, <1>2
<1> HIDE DEF out, prefix, code, old
<1>8. \A s \in Seq(Byte) : Len(Append(s, b)) - 1 = Len(s)
  <2>1. SUFFICES ASSUME NEW s \in Seq(Byte) PROVE Len(Append(s, b)) - 1 = Len(s)
    OBVIOUS
  <2>2. Len(Append(s, b)) = Len(s) + 1 /\ Len(s) \in Nat
    OBVIOUS
  <2> QED
    BY <2>2
<1>9. /\ "prefix" \in acts => Len(out.prefix) - 1 = Len(prefix)
      /\ "code" \in acts => Len(out.code) - 1 = Len(code)
  BY <1>2, <1>4, <1>6, <1>8
<1>10. /\ "params" \in acts /\ "params_start" \in acts /\ b = " " => out.params = <<>>
       /\ "params" \in acts /\ "params_start" \notin acts /\ ~(m.params = <<>> /\ b = " ") /\
          {"prefix", "code"} \cap acts = {} =>
            out.params = Append(m.params, b)
       /\ {"params", "params_start"} \cap acts = {} =>
            /\ {"prefix", "code"} \cap acts = {} => out.params = m.params
            /\ "prefix" \in acts =>
                 out.params = Over(m.params, ParamsAt, <<b>>, Len(out.prefix) - 1)
            /\ "prefix" \notin acts /\ "code" \in acts =>
                 out.params = Over(m.params, ParamsAt, <<b>>, CodeAt + (Len(out.code) - 1))
  <2>1. CASE "params_start" \in acts
    BY <1>3, <2>1
  <2>2. CASE "params_start" \notin acts
    <3>1. out.params = IF "params" \in acts /\ ~(old = <<>> /\ b = " ") THEN Append(old, b) ELSE old
      BY <1>3, <2>2
    <3>2. {"prefix", "code"} \cap acts = {} => old = m.params
      BY <1>5
    <3>3. "prefix" \in acts => old = Over(m.params, ParamsAt, <<b>>, Len(out.prefix) - 1)
      BY <1>5, <1>9
    <3>4. "prefix" \notin acts /\ "code" \in acts =>
            old = Over(m.params, ParamsAt, <<b>>, CodeAt + (Len(out.code) - 1))
      BY <1>5, <1>9
    <3> QED
      BY <2>2, <3>1, <3>2, <3>3, <3>4
  <2> QED
    BY <2>1, <2>2
<1> QED
  BY <1>7, <1>10 DEF out

\* An edge within a prefix stays in it, or ends it.
LEMMA PrefixJoins ==
  ASSUME NEW p, NEW b, NEW q, Joins(PrefixEdges, p, b, q)
  PROVE  PrefixOn(p, b, q) \/ q = Space
BY PrefixMoves

\* What the edges to the code and to the parameters do, and that others leave them alone.
LEMMA RearKinds ==
  ASSUME NEW e \in Edges, NEW b, b \in e.on
  PROVE  /\ e.from[1] = "code" /\ e.to[1] = "code" => e.does = {"code"}
         /\ e.from[1] = "code" /\ e.to[1] = "params" => e.does = {"params_start", "params"}
         /\ e.from[1] = "params" /\ e.to[1] = "params" => e.does = {"params"}
         /\ e.from[1] \notin {"code", "params"} /\ e.to[1] = "code" => e.does = CodeFirst \/ e.does = CodeNext
         /\ e.to[1] \notin {"code", "params"} =>
              e.does \cap {"code_start", "code", "params_start", "params"} = {}
<1>1. \A p, on, q, does : e = Edge(p, on, q, does) => e.from = p /\ e.to = q /\ e.does = does
  BY EdgeFields
<1>2. /\ Start[1] = "message" /\ Space[1] = "prefix" /\ Cr[1] = "message" /\ Done[1] = "message"
      /\ Colon[1] = "prefix"
  BY DEF Start, Space, Cr, Done, Colon
<1>3. "code" # "params" /\ "message" \notin {"code", "params"} /\ "prefix" \notin {"code", "params"}
  OBVIOUS
<1> DEFINE Right ==
         /\ e.from[1] = "code" /\ e.to[1] = "code" => e.does = {"code"}
         /\ e.from[1] = "code" /\ e.to[1] = "params" => e.does = {"params_start", "params"}
         /\ e.from[1] = "params" /\ e.to[1] = "params" => e.does = {"params"}
         /\ e.from[1] \notin {"code", "params"} /\ e.to[1] = "code" => e.does = CodeFirst \/ e.does = CodeNext
         /\ e.to[1] \notin {"code", "params"} =>
              e.does \cap {"code_start", "code", "params_start", "params"} = {}
<1> SUFFICES Right
  OBVIOUS
<1>4. CASE e \in PrefixEdges
  <2>1. PrefixOn(e.from, b, e.to) \/ e.to = Space
    <3>1. Joins(PrefixEdges, e.from, b, e.to)
      BY <1>4 DEF Joins
    <3>2. \A p, q : Joins(PrefixEdges, p, b, q) => PrefixOn(p, b, q) \/ q = Space
      BY PrefixJoins
    <3> HIDE DEF Right
    <3> QED
      BY <3>1, <3>2
  <2>2. e.to[1] \notin {"message", "code", "params"}
    BY <1>2, <1>3, <2>1, PrefixPlaces
  <2>3. ~InRest(e)
    BY <1>2, <2>2 DEF InRest, Rest, RestAreas
  <2>4. ~StartToCode(e) /\ ~SpaceToCode(e)
    BY <2>2 DEF StartToCode, SpaceToCode
  <2>5. e.does \in {Begins, ServerStart, NickStart, ServerMore, NickMore, PrefixOnly, UserStart, UserMore,
                    HostStart, HostMore, ServerFinish, MaskFinish}
    BY <2>3, <2>4, EdgeKinds DEF Kind, ToPrefix, ToServer, ToNick, InServer, InNick, NickToUser, NickToHost,
      ToUser, InUser, UserToHost, ToHost, InHost, ServerEnds, MaskEnds
  <2>6. e.does \cap {"code_start", "code", "params_start", "params"} = {}
    BY <2>5 DEF Begins, ServerStart, NickStart, ServerMore, NickMore, PrefixOnly, UserStart, UserMore,
      HostStart, HostMore, ServerFinish, MaskFinish
  <2> QED
    BY <2>2, <2>6
<1>5. CASE e \in CodeEdges
  <2>1. CASE e \in {Edge(Start, Letter, Word, CodeFirst), Edge(Start, Digit, Number(1), CodeFirst),
                    Edge(Space, Letter, Word, CodeNext), Edge(Space, Digit, Number(1), CodeNext)}
    BY <1>1, <1>2, <1>3, <2>1, Areas
  <2>2. CASE e = Edge(Word, Letter, Word, {"code"}) \/ \E k : e = Edge(Number(k), Digit, Number(k + 1), {"code"})
    BY <1>1, <1>3, <2>2, Areas
  <2> QED
    BY <1>5, <2>1, <2>2 DEF CodeEdges, CodeFirst, CodeNext
<1>6. CASE e \in ParamsEdges
  <2>1. CASE \E p \in CodeEnds : e = Edge(p, {" "}, Blank(1), {"params_start", "params"})
    <3>1. \A p \in CodeEnds : p[1] = "code"
      BY BodyAreas
    <3>2. PICK p \in CodeEnds : e = Edge(p, {" "}, Blank(1), {"params_start", "params"})
      BY <2>1
    <3>3. e.from = p /\ e.to = Blank(1) /\ e.does = {"params_start", "params"}
      BY <1>1, <3>2
    <3>4. p[1] = "code" /\ Blank(1)[1] = "params"
      BY <3>1, Areas
    <3> QED
      BY <1>3, <3>3, <3>4
  <2>2. ASSUME NEW p, NEW on, NEW q, e = Edge(p, on, q, {"params"}), p[1] = "params", q[1] = "params"
        PROVE  Right
    BY <1>1, <1>3, <2>2
  <2>a. /\ \A k : Blank(k)[1] = "params" /\ Middle(k)[1] = "params"
        /\ Trailing[1] = "params"
    BY Areas
  <2>3. CASE \E k : e = Edge(Blank(k), {":"}, Trailing, {"params"})
    BY <2>2, <2>3, <2>a
  <2>4. CASE e = Edge(Blank(Middles + 1), Plain \cup {" "}, Trailing, {"params"})
    BY <2>2, <2>4, <2>a
  <2>5. CASE e = Edge(Trailing, Plain \cup {":", " "}, Trailing, {"params"})
    BY <2>2, <2>5, <2>a
  <2>6. CASE \E k : e = Edge(Blank(k), Plain, Middle(k), {"params"})
    BY <2>2, <2>6, <2>a
  <2>7. CASE \E k : e = Edge(Middle(k), Plain \cup {":"}, Middle(k), {"params"})
    BY <2>2, <2>7, <2>a
  <2>8. CASE \E k : e = Edge(Middle(k), {" "}, Blank(k + 1), {"params"})
    BY <2>2, <2>8, <2>a
  <2> HIDE DEF Right
  <2> QED
    BY <1>6, <2>1, <2>3, <2>4, <2>5, <2>6, <2>7, <2>8 DEF ParamsEdges, ParamsBegin
<1>7. CASE e = Edge(Start, {":"}, Colon, Begins)
  BY <1>1, <1>2, <1>3, <1>7 DEF Begins
<1>8. CASE (\E p \in MessageEnds : e = Edge(p, {"\r"}, Cr, {})) \/ e = Edge(Cr, {"\n"}, Done, {})
  BY <1>1, <1>2, <1>3, <1>8
<1> QED
  BY <1>4, <1>5, <1>6, <1>7, <1>8 DEF Edges, Begins

\* A prefix that has not ended is all of the text but its colon.
LEMMA PrefixSoFar ==
  ASSUME NEW t \in Seq(Byte), HasPrefix(t), ~Has(t, " ")
  PROVE  Prefix(t) = Tail(t) /\ Tail(t) \in Seq(Byte)
<1> DEFINE b == ":"
<1>1. b \in Byte
  BY DEF Byte, Marks
<1> HIDE DEF b
<1>2. Before(t, {" "}) = t
  BY <1>1, SpaceMore
<1>3. Tail(t) \in Seq(Byte)
  BY <1>1, FrontMore
<1> QED
  BY <1>2, <1>3 DEF Prefix

\* A text with one byte more has the prefix it had, or one byte more of it too.
PrefixOf(t) == IF HasPrefix(t) THEN Prefix(t) ELSE <<>>

LEMMA PrefixOfMore ==
  ASSUME NEW t \in Seq(Byte), NEW b \in Byte
  PROVE  LET u == Append(t, b) IN
         /\ t = <<>> => PrefixOf(u) = <<>>
         /\ ~HasPrefix(u) => PrefixOf(u) = <<>>
         /\ HasPrefix(t) /\ ~Has(t, " ") /\ b # " " =>
              PrefixOf(u) = Append(Tail(t), b) /\ PrefixOf(t) = Tail(t) /\ Tail(t) \in Seq(Byte)
         /\ HasPrefix(t) /\ (Has(t, " ") \/ b = " ") => PrefixOf(u) = PrefixOf(t)
<1> DEFINE u == Append(t, b)
<1>1. /\ t = <<>> => (HasPrefix(u) <=> b = ":")
      /\ t # <<>> => (HasPrefix(u) <=> HasPrefix(t))
      /\ HasPrefix(t) => Tail(u) = Append(Tail(t), b) /\ Tail(t) \in Seq(Byte)
      /\ HasPrefix(t) /\ Has(t, " ") => Prefix(u) = Prefix(t)
      /\ HasPrefix(t) /\ ~Has(t, " ") /\ b = " " => Prefix(u) = Tail(t)
  BY FrontMore
<1>2. u \in Seq(Byte)
  BY AppendType
<1>3. Has(u, " ") <=> Has(t, " ") \/ b = " "
  BY HasMore
<1>4. HasPrefix(t) => t # <<>>
  BY DEF HasPrefix
<1>5. HasPrefix(t) /\ ~Has(t, " ") => Prefix(t) = Tail(t)
  BY PrefixSoFar
<1>6. t = <<>> /\ HasPrefix(u) => Prefix(u) = <<>>
  <2>1. SUFFICES ASSUME t = <<>>, HasPrefix(u) PROVE Prefix(u) = <<>>
    OBVIOUS
  <2>2. ~Has(u, " ")
    BY <1>1, <1>3, <2>1, NothingHas
  <2>3. Prefix(u) = Tail(u)
    BY <1>2, <2>1, <2>2, PrefixSoFar
  <2>4. u = <<b>> /\ Tail(<<b>>) = <<>>
    BY <2>1, AppendNothing
  <2> QED
    BY <2>3, <2>4
<1>7. HasPrefix(u) /\ ~Has(u, " ") => Prefix(u) = Tail(u)
  BY <1>2, PrefixSoFar
<1> HIDE DEF u
<1>8. /\ t = <<>> => PrefixOf(u) = <<>>
      /\ ~HasPrefix(u) => PrefixOf(u) = <<>>
      /\ HasPrefix(t) /\ ~Has(t, " ") /\ b # " " =>
           PrefixOf(u) = Append(Tail(t), b) /\ PrefixOf(t) = Tail(t) /\ Tail(t) \in Seq(Byte)
      /\ HasPrefix(t) /\ (Has(t, " ") \/ b = " ") => PrefixOf(u) = PrefixOf(t)
  BY <1>1, <1>3, <1>4, <1>5, <1>6, <1>7 DEF PrefixOf
<1> QED
  BY <1>8 DEF u

\* A prefix is a text.
LEMMA PrefixOfType ==
  ASSUME NEW s \in Seq(Byte)
  PROVE  PrefixOf(s) \in Seq(Byte)
<1> DEFINE n == Len(s)
           S == {k \in 0 .. n : PrefixOf(SubSeq(s, 1, k)) \in Seq(Byte)}
<1>1. n \in Nat /\ 0 \in 0 .. n /\ n \in 0 .. n /\ SubSeq(s, 1, n) = s /\ SubSeq(s, 1, 0) = <<>>
  OBVIOUS
<1>2. 0 \in S
  <2>1. PrefixOf(<<>>) = <<>> /\ <<>> \in Seq(Byte)
    BY DEF PrefixOf, HasPrefix
  <2> QED
    BY <1>1, <2>1
<1>3. ASSUME NEW k \in 1 .. n, k - 1 \in S
      PROVE  k \in S
  <2> DEFINE t == SubSeq(s, 1, k - 1)
             b == s[k]
             u == Append(t, b)
  <2>1. k \in 0 .. n /\ PrefixOf(t) \in Seq(Byte)
    BY <1>3
  <2>2. t \in Seq(Byte) /\ b \in Byte /\ SubSeq(s, 1, k) = u
    <3>1. k - 1 \in 0 .. n /\ b \in Byte /\ 1 \in 1 .. n /\ k \in 1 .. n
      OBVIOUS
    <3>2. t \in Seq(Byte)
      BY <3>1
    <3>3. SubSeq(s, 1, k) = t \o <<b>>
      BY <3>1, SubSeqRecursiveSecond
    <3> HIDE DEF t, b
    <3>4. t \o <<b>> = u
      BY <3>1, <3>2
    <3> QED
      BY <3>1, <3>2, <3>3, <3>4
  <2> HIDE DEF t, b
  <2>3. /\ t = <<>> => PrefixOf(u) = <<>>
        /\ ~HasPrefix(u) => PrefixOf(u) = <<>>
        /\ HasPrefix(t) /\ ~Has(t, " ") /\ b # " " =>
             PrefixOf(u) = Append(Tail(t), b) /\ PrefixOf(t) = Tail(t) /\ Tail(t) \in Seq(Byte)
        /\ HasPrefix(t) /\ (Has(t, " ") \/ b = " ") => PrefixOf(u) = PrefixOf(t)
    BY <2>2, PrefixOfMore
  <2>4. t # <<>> => (HasPrefix(u) <=> HasPrefix(t))
    BY <2>2, FrontMore
  <2>5. \A z \in Seq(Byte) : Append(z, b) \in Seq(Byte)
    BY <2>2
  <2>6. <<>> \in Seq(Byte)
    OBVIOUS
  <2> HIDE DEF u
  <2>7. PrefixOf(u) \in Seq(Byte)
    BY <2>1, <2>3, <2>4, <2>5, <2>6
  <2> QED
    BY <2>1, <2>2, <2>7
<1>4. 0 .. n \subseteq S
  <2> HIDE DEF S, n
  <2> QED
    BY <1>1, <1>2, <1>3, InductionUpTo
<1> QED
  BY <1>1, <1>4

\* An edge from the start, or to the space after a prefix, puts nothing into it.
LEMMA NoPrefixByte ==
  ASSUME NEW e \in Edges, e.from = Start \/ e.to = Space
  PROVE  "prefix" \notin e.does
<1>1. CASE e.from = Start
  BY <1>1, KindFrom DEF ToPrefix, StartToCode, Begins, CodeFirst
<1>2. CASE e.to = Space
  <2>1. /\ Space \notin {Colon, Bang, User, At, Done} /\ ~Rest(Space)
        /\ Space[1] = "prefix"
    BY DEF Space, Colon, Bang, User, At, Done, Rest, RestAreas, Cr
  <2>2. "prefix" \notin {"server", "nick", "code"} /\ "prefix" \notin HostAreas
    BY DEF HostAreas
  <2>3. ServerEnds(e) \/ MaskEnds(e)
    BY <1>2, <2>1, <2>2, EdgeKinds DEF Kind, ToPrefix, ToServer, ToNick, InServer, InNick, NickToUser,
      NickToHost, ToUser, InUser, UserToHost, ToHost, InHost, StartToCode, SpaceToCode, InRest
  <2>4. e.does = ServerFinish \/ e.does = MaskFinish
    BY <2>3 DEF ServerEnds, MaskEnds
  <2> QED
    BY <2>4 DEF ServerFinish, MaskFinish
<1> QED
  BY <1>1, <1>2

\* Within a prefix, a byte goes into it.
LEMMA PrefixByte ==
  ASSUME NEW t \in Seq(Byte), NEW b \in Byte, NEW m \in Msg, FrontRight(m, t),
         NEW q, InnerLeads(Append(t, b), q), HasPrefix(t), ~Has(t, " "), b # " "
  PROVE  LET acts == Acts(Taken(Reached(t), b)) IN
         "prefix" \in acts /\ Perform(m, b, acts).prefix = Append(Tail(t), b)
<1> DEFINE u == Append(t, b)
           T == Taken(Reached(t), b)
           x == Tail(t)
<1>1. b # "\r" /\ b # "\n"
  BY InnerByte
<1>2. /\ \A e \in T : /\ e \in Edges /\ b \in e.on
                      /\ InnerLeads(t, e.from) /\ InnerMoves(e.from, b, e.to) /\ InnerLeads(u, e.to)
      /\ \A p : InnerLeads(u, p) => \E e \in T : e.to = p
  BY <1>1, InnerTaken
<1>3. T # {}
  BY <1>2
<1>4. HasPrefix(u) /\ ~Has(u, " ") /\ Tail(u) = Append(x, b) /\ x \in Seq(Byte)
  <2>1. t # <<>>
    BY DEF HasPrefix
  <2>2. /\ t # <<>> => (HasPrefix(u) <=> HasPrefix(t))
        /\ HasPrefix(t) => Tail(u) = Append(Tail(t), b) /\ Tail(t) \in Seq(Byte)
    BY FrontMore
  <2>3. Has(u, " ") <=> Has(t, " ") \/ b = " "
    BY HasMore
  <2> QED
    BY <2>1, <2>2, <2>3
<1> HIDE DEF u, T
<1>5. \A p : InnerLeads(t, p) <=> PrefixLeads(x, p)
  BY PrefixInner
<1>6. \A p : InnerLeads(u, p) <=> PrefixLeads(Append(x, b), p)
  BY <1>4, PrefixInner
<1> HIDE DEF x
<1>7. PrefixTakes(T, x, b)
  BY <1>2, <1>3, <1>5, <1>6 DEF PrefixTakes
<1>8. NoFlags(m) /\ Named(m, x)
  BY DEF FrontRight, x
<1>9. "prefix" \in Acts(T) /\ Perform(m, b, Acts(T)).prefix = Append(x, b)
  BY <1>4, <1>7, <1>8, NamedMore
<1> QED
  BY <1>9 DEF T, x

\* What is recorded of the code and the parameters of a text, the parameters
\* stale, with what was put over them, until it has some.
Worn(t, stale) == Over(stale, ParamsAt, PrefixOf(t), 0)
RearRight(m, t, stale) ==
  /\ m.params = IF Has(Body(t), " ") THEN After(Body(t), {" "})
                ELSE Over(Worn(t, stale), ParamsAt, Before(Body(t), {" "}), CodeAt)
  /\ Body(t) # <<>> => m.code = Before(Body(t), {" "})

\* What is recorded of them, one byte later.
LEMMA RearStep ==
  ASSUME NEW t \in Seq(Byte), NEW b \in Byte, NEW m \in Msg, NEW stale \in Seq(Byte),
         FrontRight(m, t), RearRight(m, t, stale), NEW q, InnerLeads(Append(t, b), q)
  PROVE  RearRight(Perform(m, b, Acts(Taken(Reached(t), b))), Append(t, b), stale)
<1> DEFINE u == Append(t, b)
           T == Taken(Reached(t), b)
           acts == Acts(T)
           out == Perform(m, b, acts)
           B == Body(t)
           C == Body(u)
<1>1. b # "\r" /\ b # "\n"
  BY InnerByte
<1>2. /\ \A e \in T : /\ e \in Edges /\ b \in e.on
                      /\ InnerLeads(t, e.from) /\ InnerMoves(e.from, b, e.to) /\ InnerLeads(u, e.to)
      /\ T # {}
  <2>1. /\ \A e \in T : /\ e \in Edges /\ b \in e.on
                        /\ InnerLeads(t, e.from) /\ InnerMoves(e.from, b, e.to) /\ InnerLeads(u, e.to)
        /\ \A p : InnerLeads(u, p) => \E e \in T : e.to = p
    BY <1>1, InnerTaken
  <2> QED
    BY <2>1
<1>3. /\ t = <<>> => (HasPrefix(u) <=> b = ":") /\ ~HasPrefix(t)
      /\ t # <<>> => (HasPrefix(u) <=> HasPrefix(t))
      /\ B \in Seq(Byte)
      /\ ~HasPrefix(u) => B = t /\ C = Append(t, b)
      /\ HasPrefix(t) /\ Has(t, " ") => C = Append(B, b)
      /\ HasPrefix(t) /\ ~Has(t, " ") => B = <<>>
      /\ HasPrefix(t) /\ ~Has(t, " ") /\ b = " " => C = <<>>
      /\ u # <<>>
  BY FrontMore
<1>4. u \in Seq(Byte)
  BY AppendType
<1>5. HasPrefix(u) /\ ~Has(u, " ") => C = <<>>
  <2>1. ~Has(u, " ") => After(u, {" "}) = <<>>
    BY <1>4, SpaceMore
  <2> QED
    BY <2>1 DEF Body
<1>6. Has(u, " ") <=> Has(t, " ") \/ b = " "
  BY HasMore
<1>7. /\ "code" \in acts /\ "code_start" \in acts => out.code = <<b>>
      /\ "code" \in acts /\ "code_start" \notin acts => out.code = Append(m.code, b)
      /\ "code" \notin acts /\ "code_start" \notin acts => out.code = m.code
      /\ "params" \in acts /\ "params_start" \in acts /\ b = " " => out.params = <<>>
      /\ "params" \in acts /\ "params_start" \notin acts /\ ~(m.params = <<>> /\ b = " ") /\
         {"prefix", "code"} \cap acts = {} =>
              out.params = Append(m.params, b)
      /\ {"params", "params_start"} \cap acts = {} =>
           /\ {"prefix", "code"} \cap acts = {} => out.params = m.params
           /\ "prefix" \in acts =>
                out.params = Over(m.params, ParamsAt, <<b>>, Len(out.prefix) - 1)
           /\ "prefix" \notin acts /\ "code" \in acts =>
                out.params = Over(m.params, ParamsAt, <<b>>, CodeAt + (Len(out.code) - 1))
  BY PerformRear
<1>8. ~Has(<<>>, " ")
  BY NothingHas
<1>9. \A s, p : BodyLeads(s, p) => p[1] \in {"code", "params"} /\ s # <<>>
  BY BodyPlaces
<1>10. /\ \A x, p : PrefixLeads(x, p) => p[1] \notin {"message", "code", "params"}
       /\ Start[1] = "message" /\ Space[1] = "prefix"
  BY PrefixPlaces
<1>11. "message" \notin {"code", "params"} /\ "prefix" \notin {"code", "params"} /\ "code" # "params"
  OBVIOUS
<1>12. \A e \in T :
         /\ e.from[1] = "code" /\ e.to[1] = "code" => e.does = {"code"}
         /\ e.from[1] = "code" /\ e.to[1] = "params" => e.does = {"params_start", "params"}
         /\ e.from[1] = "params" /\ e.to[1] = "params" => e.does = {"params"}
         /\ e.from[1] \notin {"code", "params"} /\ e.to[1] = "code" => e.does = CodeFirst \/ e.does = CodeNext
         /\ e.to[1] \notin {"code", "params"} =>
              e.does \cap {"code_start", "code", "params_start", "params"} = {}
  BY <1>2, RearKinds
<1>13. \A a : a \in acts <=> \E e \in T : a \in e.does
  BY DEF Acts
<1> DEFINE worn == Worn(t, stale)
           w == Worn(u, stale)
<1>14. /\ m.params = IF Has(B, " ") THEN After(B, {" "})
                     ELSE Over(worn, ParamsAt, Before(B, {" "}), CodeAt)
       /\ B # <<>> => m.code = Before(B, {" "})
  BY DEF RearRight
<1>a. /\ t = <<>> => PrefixOf(u) = <<>> /\ PrefixOf(t) = <<>>
      /\ ~HasPrefix(u) => PrefixOf(u) = <<>>
      /\ HasPrefix(t) /\ ~Has(t, " ") /\ b # " " =>
           PrefixOf(u) = Append(Tail(t), b) /\ PrefixOf(t) = Tail(t) /\ Tail(t) \in Seq(Byte)
      /\ HasPrefix(t) /\ (Has(t, " ") \/ b = " ") => PrefixOf(u) = PrefixOf(t)
      /\ ~HasPrefix(t) => PrefixOf(t) = <<>>
  <2>1. t = <<>> => ~HasPrefix(t)
    BY DEF HasPrefix
  <2> QED
    BY <2>1, PrefixOfMore DEF PrefixOf
<1>b. worn \in Seq(Byte) /\ w \in Seq(Byte)
  <2>1. PrefixOf(t) \in Seq(Byte) /\ PrefixOf(u) \in Seq(Byte)
    BY <1>4, PrefixOfType
  <2> QED
    BY <2>1, Rooms, OverType DEF Worn
<1>c. PrefixOf(u) = PrefixOf(t) => w = worn
  BY DEF Worn
<1>d. HasPrefix(t) /\ ~Has(t, " ") /\ b # " " =>
        "prefix" \in acts /\ out.prefix = Append(Tail(t), b)
  BY PrefixByte
<1>e. \A y \in Seq(Byte) : Over(y, ParamsAt, <<>>, CodeAt) = y
  BY OverNothing
<1>f. Before(<<>>, {" "}) = <<>>
  BY PartsEmpty DEF Before
<1> HIDE DEF u, T, acts, out, B, C, w, worn
<1> SUFFICES RearRight(out, u, stale)
  BY DEF u, T, acts, out
<1> SUFFICES /\ out.params = IF Has(C, " ") THEN After(C, {" "})
                             ELSE Over(w, ParamsAt, Before(C, {" "}), CodeAt)
             /\ C # <<>> => out.code = Before(C, {" "})
  BY DEF RearRight, C, w
<1>15. B = <<>> => m.params = worn
  BY <1>8, <1>14, <1>b, <1>e, <1>f
<1>16. CASE C = <<>>
  <2>1. B = <<>>
    <3>1. \A s \in Seq(Byte) : Append(s, b) # <<>>
      BY AppendType
    <3>2. CASE ~HasPrefix(u)
      BY <1>3, <1>16, <3>1, <3>2
    <3>3. CASE t = <<>>
      BY <1>3, <3>3 DEF B, Body
    <3>4. CASE HasPrefix(t)
      BY <1>3, <1>16, <3>1, <3>4
    <3> QED
      BY <1>3, <3>2, <3>3, <3>4
  <2>2. \A e \in T : e.to[1] \notin {"code", "params"}
    <3>1. \A p : InnerLeads(u, p) => p[1] \notin {"code", "params"}
      BY <1>9, <1>10, <1>11, <1>16 DEF InnerLeads, C
    <3> QED
      BY <1>2, <3>1
  <2>3. {"params", "params_start"} \cap acts = {}
    BY <1>12, <1>13, <2>2
  <2>4. "code" \notin acts
    BY <1>12, <1>13, <2>2
  <2>5. out.params = w
    <3>1. CASE HasPrefix(t) /\ ~Has(t, " ") /\ b # " "
      <4> DEFINE x == Tail(t)
      <4>1. /\ "prefix" \in acts /\ out.prefix = Append(x, b) /\ x \in Seq(Byte)
            /\ PrefixOf(u) = Append(x, b) /\ PrefixOf(t) = x
        BY <1>a, <1>d, <3>1
      <4> HIDE DEF x
      <4>2. Len(out.prefix) - 1 = 0 + Len(x)
        BY <4>1, AppendType
      <4>3. out.params = Over(m.params, ParamsAt, <<b>>, 0 + Len(x))
        BY <1>7, <2>3, <4>1, <4>2
      <4>4. m.params = Over(stale, ParamsAt, x, 0)
        BY <1>15, <2>1, <4>1 DEF worn, Worn
      <4>5. w = Over(stale, ParamsAt, Append(x, b), 0)
        BY <4>1 DEF w, Worn
      <4> QED
        BY <4>1, <4>3, <4>4, <4>5, Rooms, OverAppend
    <3>2. CASE t = <<>> \/ (HasPrefix(t) /\ ~Has(t, " ") /\ b = " ")
      <4>1. \A e \in T : e.from = Start \/ e.to = Space
        <5>1. CASE t = <<>>
          <6>1. \A p : TopLeads(t, p) <=> p = Start
            BY <5>1, NothingReached
          <6> QED
            BY <1>2, <6>1 DEF TopLeads
        <5>2. CASE HasPrefix(t) /\ ~Has(t, " ") /\ b = " "
          <6>1. HasPrefix(u) /\ Has(u, " ")
            BY <1>3, <1>6, <5>2 DEF HasPrefix
          <6>2. \A p : ~BodyLeads(C, p)
            BY <1>9, <1>16
          <6>3. \A p : InnerLeads(u, p) => p = Space
            BY <1>3, <6>1, <6>2 DEF InnerLeads, C
          <6> QED
            BY <1>2, <6>3
        <5> QED
          BY <3>2, <5>1, <5>2
      <4>2. \A e \in T : "prefix" \notin e.does
        BY <1>2, <4>1, NoPrefixByte
      <4>3. "prefix" \notin acts
        BY <1>13, <4>2
      <4>4. out.params = m.params
        BY <1>7, <2>3, <2>4, <4>3
      <4>5. PrefixOf(u) = PrefixOf(t)
        BY <1>a, <3>2
      <4> QED
        BY <1>15, <1>c, <2>1, <4>4, <4>5
    <3>3. ~(HasPrefix(t) /\ Has(t, " "))
      <4>1. \A s \in Seq(Byte) : Append(s, b) # <<>>
        BY AppendType
      <4> QED
        BY <1>3, <1>16, <4>1
    <3>4. t = <<>> \/ HasPrefix(t)
      <4>1. \A s \in Seq(Byte) : Append(s, b) # <<>>
        BY AppendType
      <4> QED
        BY <1>3, <1>16, <4>1
    <3> QED
      BY <3>1, <3>2, <3>3, <3>4
  <2> QED
    BY <1>8, <1>16, <1>b, <1>e, <1>f, <2>5
<1>17. CASE C # <<>>
  <2>1. C = Append(B, b)
    <3>1. HasPrefix(u) => HasPrefix(t) \/ t = <<>>
      BY <1>3
    <3>2. t = <<>> /\ HasPrefix(u) => ~Has(u, " ")
      <4>1. t = <<>> => ~Has(t, " ")
        BY <1>8
      <4>2. t = <<>> /\ HasPrefix(u) => b = ":"
        BY <1>3
      <4> QED
        BY <1>6, <4>1, <4>2
    <3>3. ~HasPrefix(u) => C = Append(B, b)
      BY <1>3
    <3>4. HasPrefix(t) => Has(t, " ")
      <4>1. HasPrefix(t) /\ ~Has(t, " ") => HasPrefix(u)
        BY <1>3 DEF HasPrefix
      <4> QED
        BY <1>3, <1>5, <1>6, <1>17, <4>1
    <3> QED
      BY <1>3, <1>5, <1>17, <3>1, <3>2, <3>3, <3>4
  <2>a. w = worn
    <3>1. HasPrefix(t) => Has(t, " ")
      <4>1. HasPrefix(t) /\ ~Has(t, " ") => HasPrefix(u)
        BY <1>3 DEF HasPrefix
      <4> QED
        BY <1>3, <1>5, <1>6, <1>17, <4>1
    <3>2. t # <<>> /\ ~HasPrefix(t) => ~HasPrefix(u)
      BY <1>3
    <3>3. PrefixOf(u) = PrefixOf(t)
      BY <1>a, <3>1, <3>2
    <3> QED
      BY <1>c, <3>3
  <2>2. \A e \in T : BodyLeads(C, e.to)
    <3>1. \A p : InnerLeads(u, p) => BodyLeads(C, p)
      BY <1>3, <1>5, <1>17 DEF InnerLeads, C
    <3> QED
      BY <1>2, <3>1
  <2>3. B # <<>> => \A e \in T : BodyLeads(B, e.from)
    <3>1. HasPrefix(t) /\ ~Has(t, " ") => B = <<>>
      BY <1>3
    <3>2. t = <<>> => B = <<>>
      BY <1>3 DEF Body, B
    <3>3. B # <<>> => \A p : InnerLeads(t, p) => BodyLeads(B, p)
      BY <3>1, <3>2 DEF InnerLeads, B
    <3> QED
      BY <1>2, <3>3
  <2>4. \A p : BodyLeads(B, p) <=>
          \/ ~Has(B, " ") /\ CodeLeads(B, p)
          \/ Has(B, " ") /\ IsCode(Before(B, {" "})) /\ ParamsLeads(After(B, {" "}), p)
    BY DEF BodyLeads
  <2>5. \A p : BodyLeads(C, p) <=>
          \/ ~Has(C, " ") /\ CodeLeads(C, p)
          \/ Has(C, " ") /\ IsCode(Before(C, {" "})) /\ ParamsLeads(After(C, {" "}), p)
    BY DEF BodyLeads
  <2>6. /\ Has(C, " ") <=> Has(B, " ") \/ b = " "
        /\ Has(B, " ") => /\ Before(C, {" "}) = Before(B, {" "})
                          /\ After(C, {" "}) = Append(After(B, {" "}), b)
        /\ ~Has(B, " ") /\ b = " " => Before(C, {" "}) = B /\ After(C, {" "}) = <<>>
        /\ ~Has(B, " ") /\ b # " " => Before(C, {" "}) = C /\ After(C, {" "}) = <<>>
        /\ Before(B, {" "}) \in Seq(Byte) /\ After(B, {" "}) \in Seq(Byte)
        /\ ~Has(B, " ") => Before(B, {" "}) = B /\ After(B, {" "}) = <<>>
    BY <1>3, <2>1, SpaceMore
  <2>7. /\ \A x, p : CodeLeads(x, p) => p[1] = "code"
        /\ \A x, p : ParamsLeads(x, p) => p[1] = "params"
        /\ \A y, p : CodeEnter(y, p) => p[1] = "code" /\ y # " "
    BY BodyAreas
  <2>8. CASE B = <<>>
    <3>1. \A p : BodyLeads(C, p) => CodeEnter(b, p)
      <4>1. \A p : BodyLeads(Append(<<>>, b), p) =>
              CodeEnter(b, p) \/ \E r : BodyLeads(<<>>, r) /\ BodyOn(r, b, p)
        <5>1. <<>> \in Seq(Byte)
          OBVIOUS
        <5>2. \A p : BodyLeads(Append(<<>>, b), p) =>
                ((<<>> = <<>> /\ CodeEnter(b, p)) \/ \E r : BodyLeads(<<>>, r) /\ BodyOn(r, b, p))
          BY <5>1, BodyMore
        <5> QED
          BY <5>2
      <4> QED
        BY <1>9, <2>1, <2>8, <4>1
    <3>2. \A e \in T : e.to[1] = "code" /\ b # " "
      BY <2>2, <2>7, <3>1
    <3>3. b # " "
      BY <1>2, <3>2
    <3>4. \A e \in T : e.from[1] \notin {"code", "params"}
      <4>1. \A p : InnerLeads(t, p) => p[1] \notin {"code", "params"}
        BY <1>9, <1>10, <1>11, <2>8 DEF InnerLeads, B
      <4> QED
        BY <1>2, <4>1
    <3>5. \A e \in T : e.does = CodeFirst \/ e.does = CodeNext
      BY <1>12, <3>2, <3>4
    <3>6. /\ "code" \in acts /\ "code_start" \in acts /\ "prefix" \notin acts
          /\ {"params", "params_start"} \cap acts = {}
      BY <1>2, <1>13, <3>5 DEF CodeFirst, CodeNext
    <3>7. C = <<b>> /\ out.code = <<b>>
      <4>1. Append(<<>>, b) = <<b>>
        BY AppendNothing
      <4> QED
        BY <1>7, <2>1, <2>8, <3>6, <4>1
    <3>8. CodeAt + (Len(<<b>>) - 1) = CodeAt
      <4>1. Len(<<b>>) = 1 /\ CodeAt + (1 - 1) = CodeAt
        BY Rooms
      <4> QED
        BY <4>1
    <3>9. out.params = Over(w, ParamsAt, C, CodeAt)
      BY <1>7, <1>15, <2>8, <2>a, <3>6, <3>7, <3>8
    <3>10. ~Has(C, " ") /\ Before(C, {" "}) = C
      BY <1>8, <2>6, <2>8, <3>3
    <3> QED
      BY <3>7, <3>9, <3>10
  <2>9. CASE B # <<>> /\ ~Has(B, " ") /\ b # " "
    <3>1. \A e \in T : e.from[1] = "code" /\ e.to[1] = "code"
      BY <2>2, <2>3, <2>4, <2>5, <2>6, <2>7, <2>9
    <3>2. \A e \in T : e.does = {"code"}
      BY <1>12, <3>1
    <3>3. "code" \in acts /\ {"code_start", "params", "params_start", "prefix"} \cap acts = {}
      BY <1>2, <1>13, <3>2
    <3>4. out.code = C
      BY <1>7, <1>14, <2>1, <2>6, <2>9, <3>3
    <3>5. m.params = Over(worn, ParamsAt, B, CodeAt)
      BY <1>14, <2>6, <2>9
    <3>6. CodeAt + (Len(out.code) - 1) = CodeAt + Len(B)
      <4>1. Len(C) = Len(B) + 1 /\ Len(B) \in Nat
        BY <1>3, <2>1, AppendType
      <4> QED
        BY <3>4, <4>1, Rooms
    <3>7. out.params = Over(m.params, ParamsAt, <<b>>, CodeAt + Len(B))
      <4>1. {"params", "params_start"} \cap acts = {} /\ "prefix" \notin acts /\ "code" \in acts
        BY <3>3
      <4>2. out.params = Over(m.params, ParamsAt, <<b>>, CodeAt + (Len(out.code) - 1))
        BY <1>7, <4>1
      <4> QED
        BY <3>6, <4>2
    <3>8. out.params = Over(w, ParamsAt, C, CodeAt)
      <4>1. Over(Over(w, ParamsAt, B, CodeAt), ParamsAt, <<b>>, CodeAt + Len(B)) =
              Over(w, ParamsAt, Append(B, b), CodeAt)
        <5>1. w \in Seq(Byte) /\ B \in Seq(Byte) /\ CodeAt \in Nat /\ ParamsAt \in Nat
          BY <1>3, <1>b, Rooms
        <5> QED
          BY <5>1, OverAppend
      <4> QED
        BY <2>1, <2>a, <3>5, <3>7, <4>1
    <3> QED
      BY <2>6, <2>9, <3>4, <3>8
  <2>10. CASE B # <<>> /\ ~Has(B, " ") /\ b = " "
    <3>1. \A e \in T : e.from[1] = "code" /\ e.to[1] = "params"
      BY <2>2, <2>3, <2>4, <2>5, <2>6, <2>7, <2>10
    <3>2. \A e \in T : e.does = {"params_start", "params"}
      BY <1>12, <3>1
    <3>3. {"params", "params_start"} \subseteq acts /\ {"code_start", "code"} \cap acts = {}
      BY <1>2, <1>13, <3>2
    <3>4. out.code = B /\ out.params = <<>>
      BY <1>7, <1>14, <2>6, <2>10, <3>3
    <3> QED
      BY <2>6, <2>10, <3>4
  <2>11. CASE B # <<>> /\ Has(B, " ")
    <3>1. \A e \in T : e.from[1] = "params" /\ e.to[1] = "params"
      BY <2>2, <2>3, <2>4, <2>5, <2>6, <2>7, <2>11
    <3>2. \A e \in T : e.does = {"params"}
      BY <1>12, <3>1
    <3>3. "params" \in acts /\ {"code_start", "code", "params_start", "prefix"} \cap acts = {}
      BY <1>2, <1>13, <3>2
    <3>4. ~(After(B, {" "}) = <<>> /\ b = " ")
      <4>1. SUFFICES ASSUME After(B, {" "}) = <<>>
                     PROVE  b # " "
        OBVIOUS
      <4>2. PICK e : e \in T /\ ParamsLeads(Append(<<>>, b), e.to)
        BY <1>2, <2>2, <2>5, <2>6, <2>11, <4>1
      <4>3. PICK p : ParamsLeads(<<>>, p) /\ ParamsOn(p, b, e.to)
        <5>1. <<>> \in Seq(Byte)
          OBVIOUS
        <5>2. \A p : ParamsLeads(Append(<<>>, b), p) <=>
                \E r : ParamsLeads(<<>>, r) /\ ParamsOn(r, b, p)
          BY <5>1, ParamsMore
        <5> QED
          BY <4>2, <5>2
      <4>4. p = Blank(1)
        BY <4>3, ParamsNothing
      <4>5. Blank(1) # Blank(Middles + 1) /\ Blank(1) # Trailing /\ \A k : Blank(1) # Middle(k)
        <5>1. Middles \in Nat \ {0}
          BY IrcsmAssumption
        <5>2. 1 # Middles + 1
          BY <5>1
        <5> QED
          BY <5>2, ParamsPlaces
      <4>6. b = ":" \/ b \in Plain
        BY <4>3, <4>4, <4>5 DEF ParamsOn
      <4> QED
        BY <4>6 DEF Plain
    <3>5. out.code = m.code /\ out.params = Append(m.params, b)
      BY <1>7, <1>14, <2>11, <3>3, <3>4
    <3> QED
      BY <1>14, <2>6, <2>11, <3>5
  <2> QED
    BY <2>8, <2>9, <2>10, <2>11
<1> QED
  BY <1>16, <1>17

-----------------------------------------------------------------------------
(* What a message means.                                                    *)

\* The end of a line does nothing to the message.
LEMMA PerformNothing ==
  ASSUME NEW m \in Msg, NEW b
  PROVE  Perform(m, b, {}) = m
<1>1. /\ m.servername = Slice(m.servername.at, m.servername.len)
      /\ m.nick = Slice(m.nick.at, m.nick.len)
      /\ m.user = Slice(m.user.at, m.user.len)
      /\ m.host = Slice(m.host.at, m.host.len)
  BY DEF Msg, Slices, Slice
<1>2. m = [prefix |-> m.prefix, servername |-> m.servername, nick |-> m.nick, user |-> m.user,
           host |-> m.host, code |-> m.code, params |-> m.params,
           is_hostmask |-> m.is_hostmask, is_servername |-> m.is_servername]
  BY DEF Msg
<1>3. m.is_hostmask \in BOOLEAN /\ m.is_servername \in BOOLEAN
  BY DEF Msg
<1>4. Perform(m, b, {}) =
        [prefix |-> m.prefix, servername |-> Slice(m.servername.at, m.servername.len),
         nick |-> Slice(m.nick.at, m.nick.len), user |-> Slice(m.user.at, m.user.len),
         host |-> Slice(m.host.at, m.host.len), code |-> m.code, params |-> m.params,
         is_hostmask |-> m.is_hostmask, is_servername |-> m.is_servername]
  BY <1>3 DEF Perform
<1> QED
  BY <1>1, <1>2, <1>4

\* A message has a code, and its prefix is complete.
LEMMA MessageHasBody ==
  ASSUME NEW t \in Seq(Byte), IsMessage(t)
  PROVE  Body(t) # <<>> /\ Body(t) \in Seq(Byte) /\ t # <<>> /\ (HasPrefix(t) => Has(t, " "))
<1> DEFINE c == Before(<<>>, {" "})
<1>1. c = <<>>
  BY PartsEmpty DEF Before
<1>2. ~IsCode(<<>>)
  BY DEF IsCode, Nonempty, CodeDigits
<1>3. IsCode(Before(Body(t), {" "}))
  BY DEF IsMessage
<1>4. Body(t) # <<>>
  BY <1>1, <1>2, <1>3
<1>5. Body(t) \in Seq(Byte) /\ (HasPrefix(t) /\ ~Has(t, " ") => Body(t) = <<>>)
  <2>1. " " \in Byte
    BY DEF Byte, Marks
  <2> DEFINE b == " "
  <2>2. b \in Byte
    BY <2>1
  <2> HIDE DEF b
  <2>3. /\ Body(t) \in Seq(Byte)
        /\ HasPrefix(t) /\ ~Has(t, " ") => Body(t) = <<>>
    BY <2>2, FrontMore
  <2> QED
    BY <2>3
<1>6. t # <<>>
  BY <1>4 DEF Body, HasPrefix
<1> QED
  BY <1>4, <1>5, <1>6

\* The machine, started and given a text byte by byte, stands at its end after
\* exactly the messages of the grammar with CR LF after them: no byte, no length
\* and no number of paths through the grammar makes it take another text or miss one.
THEOREM AcceptsTheGrammar ==
  ASSUME NEW s \in Seq(Byte), NEW at, at[0] = {Start},
         \A k \in 1 .. Len(s) : at[k] = {e.to : e \in Taken(at[k - 1], s[k])}
  PROVE  Done \in at[Len(s)] <=>
           \E line \in Seq(Byte) : IsMessage(line) /\ s = Append(Append(line, "\r"), "\n")
<1> DEFINE n == Len(s)
           S == {k \in 0 .. n : at[k] = Reached(SubSeq(s, 1, k))}
<1>1. n \in Nat /\ 0 \in 0 .. n /\ n \in 0 .. n /\ SubSeq(s, 1, n) = s /\ SubSeq(s, 1, 0) = <<>>
  OBVIOUS
<1>2. 0 \in S
  BY <1>1, NothingReached
<1>3. ASSUME NEW k \in 1 .. n, k - 1 \in S
      PROVE  k \in S
  <2> DEFINE t == SubSeq(s, 1, k - 1)
             b == s[k]
  <2>1. k \in 0 .. n /\ at[k - 1] = Reached(t)
    BY <1>3
  <2>2. t \in Seq(Byte) /\ b \in Byte /\ SubSeq(s, 1, k) = Append(t, b)
    <3>1. k - 1 \in 0 .. n /\ b \in Byte /\ 1 \in 1 .. n /\ k \in 1 .. n
      OBVIOUS
    <3>2. t \in Seq(Byte)
      BY <3>1
    <3>3. SubSeq(s, 1, k) = t \o <<b>>
      BY <3>1, SubSeqRecursiveSecond
    <3> HIDE DEF t, b
    <3>4. t \o <<b>> = Append(t, b)
      BY <3>1, <3>2
    <3> QED
      BY <3>1, <3>2, <3>3, <3>4
  <2>3. at[k] = {e.to : e \in Taken(at[k - 1], b)}
    OBVIOUS
  <2> HIDE DEF t, b
  <2>4. at[k] = Reached(Append(t, b))
    BY <2>1, <2>2, <2>3, ReachedMore
  <2> QED
    BY <2>1, <2>2, <2>4
<1>4. 0 .. n \subseteq S
  <2> HIDE DEF S, n
  <2> QED
    BY <1>1, <1>2, <1>3, InductionUpTo
<1>5. at[n] = Reached(s)
  BY <1>1, <1>4
<1>6. Done \in at[n] <=> Ended(s)
  BY <1>5, DoneReached
<1>7. "\r" \in Byte /\ "\n" \in Byte
  BY DEF Byte, Marks
<1>8. Ended(s) <=> \E line \in Seq(Byte) : IsMessage(line) /\ s = Append(Append(line, "\r"), "\n")
  <2> DEFINE r == "\r"
  <2>1. r \in Byte
    BY <1>7
  <2> HIDE DEF r
  <2>2. \A line \in Seq(Byte) : Append(line, r) \in Seq(Byte)
    BY <2>1
  <2>3. \A u : Returned(u) <=> \E line \in Seq(Byte) : u = Append(line, r) /\ IsMessage(line)
    BY DEF Returned, r
  <2> QED
    BY <2>2, <2>3 DEF Ended, r
<1> QED
  BY <1>6, <1>8
=============================================================================
