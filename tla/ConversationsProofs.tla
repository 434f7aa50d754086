------------------------ MODULE ConversationsProofs ------------------------
(***************************************************************************)
(* Proofs about Conversations for any characters, identifiers, texts and   *)
(* callers, over the store of either host.  SafeInv is the inductive       *)
(* invariant of the store: besides StoreLoadable it says which identifiers *)
(* a character's conversations may have, which the host relies on when it  *)
(* replaces the last one.  CallInv adds how far a call has got that is     *)
(* alone with its character, command by command.                           *)
(***************************************************************************)
EXTENDS Conversations, SequenceTheorems, WellFoundedInduction, TLAPS

\* No identifier is there twice among a character's conversations.
Distinct(list) ==
  \A i, j \in DOMAIN list : list[i].id = list[j].id => i = j

\* The identifiers that a character's conversations may have.
Scope(c) == Created \cup {c}

\* What a character's conversations look like at any time.
SoundFor(s, c) ==
  /\ Distinct(s.conversations[c])
  /\ \A k \in Owned(s, c) : k.id \in Scope(c)
  /\ IF s.conversations[c] = <<>> THEN s.active[c] = NoId
     ELSE Owns(s, c, s.active[c])

Sound(s) ==
  /\ \A c \in Characters : SoundFor(s, c)
  /\ \A c \in Characters : \A d \in Characters \ {c} :
       \A k \in Owned(s, c) : ~Owns(s, d, k.id)

\* The commands an operation makes, and the identifiers that pass "get".
Fits(call) ==
  /\ call.pc = "get" => call.op # "getActive"
  /\ call.op = "getActive" <=> call.id = NoId
  /\ call.op = "create" => call.id \in Scope(call.char)
  /\ call.pc # "get" /\ call.op # "getActive" => call.id \in Scope(call.char)
  /\ call.pc = "save" => call.op \in {"create", "update", "rename"}
  /\ call.pc = "readActive" => call.op \in {"delete", "setActive", "getActive"}
  /\ call.pc = "remove" => call.op = "delete"
  /\ call.pc \in {"list", "getDefault", "saveDefault"} =>
       call.op \in {"delete", "getActive"}
  /\ call.pc \in {"activate", "announce"} => call.op \notin {"update", "rename"}

CallsFit == \A p \in Callers : ~Idle(p) => Fits(calls[p])

SafeInv == TypeOK /\ Sound(store) /\ CallsFit

\* Some conversation of the set has the identifier.
Contains(conversations, id) == \E k \in conversations : k.id = id

-----------------------------------------------------------------------------
(* Lists of conversations.                                                 *)

\* A non-empty set of positions has a least one.
LEMMA Least ==
  ASSUME NEW T \in SUBSET Nat, T # {}
  PROVE  \E x \in T : \A y \in T : x <= y
<1>. DEFINE R == OpToRel(<, Nat)
<1>1. IsWellFoundedOn(R, Nat)
  BY NatLessThanWellFounded, Zenon
<1>2. \A i, j \in Nat : i < j => <<i, j>> \in R
  BY DEF OpToRel
<1>. HIDE DEF R
<1>3. \E d \in T : \A e \in T : ~(<<e, d>> \in R)
  BY <1>1, WFMin, Zenon
<1>4. \A d, e \in T : ~(<<e, d>> \in R) => d <= e
  BY <1>2
<1>. QED BY <1>3, <1>4, Zenon

\* A list without the conversation at a position has all the others.
LEMMA CutFacts ==
  ASSUME NEW S, NEW list \in Seq(S), NEW i \in DOMAIN list,
         NEW rest, rest = SubSeq(list, 1, i - 1) \o SubSeq(list, i + 1, Len(list))
  PROVE  /\ rest \in Seq(S)
         /\ Len(rest) = Len(list) - 1
         /\ \A j \in 1 .. Len(list) - 1 :
              rest[j] = list[IF j < i THEN j ELSE j + 1]
<1>1. Len(list) \in Nat /\ DOMAIN list = 1 .. Len(list) /\ i \in 1 .. Len(list)
  BY LenProperties
<1>. DEFINE n == Len(list)
            front == SubSeq(list, 1, i - 1)
            back == SubSeq(list, i + 1, n)
<1>2. /\ front \in Seq(S) /\ Len(front) = i - 1
      /\ \A j \in 1 .. i - 1 : front[j] = list[j]
  BY <1>1, SubSeqProperties
<1>3. /\ back \in Seq(S) /\ Len(back) = n - i
      /\ \A j \in 1 .. n - i : back[j] = list[i + j]
  <2>1. \A j \in i + 1 .. n : list[j] \in S
    BY <1>1, ElementOfSeq
  <2>2. i + 1 \in 1 .. n + 1 /\ n - (i + 1) + 1 = n - i
    BY <1>1
  <2>3. /\ back \in Seq(S)
        /\ Len(back) = IF i + 1 <= n THEN n - (i + 1) + 1 ELSE 0
        /\ \A j \in 1 .. n - (i + 1) + 1 : back[j] = list[i + 1 + j - 1]
    BY <1>1, <2>1, <2>2, SubSeqProperties, SMTT(30)
  <2>4. \A j \in 1 .. n - i : i + 1 + j - 1 = i + j
    BY <1>1
  <2>. QED BY <1>1, <2>2, <2>3, <2>4
<1>. HIDE DEF front, back
<1>4. /\ front \o back \in Seq(S)
      /\ Len(front \o back) = Len(front) + Len(back)
      /\ \A j \in 1 .. Len(front) + Len(back) :
           (front \o back)[j] = IF j <= Len(front) THEN front[j]
                                ELSE back[j - Len(front)]
  BY <1>2, <1>3, ConcatProperties
<1>5. rest = front \o back
  BY DEF front, back
<1>. HIDE DEF n
<1>6. n = Len(list) /\ n \in Nat /\ i \in 1 .. n
  BY <1>1 DEF n
<1>9. Len(front) = i - 1 /\ Len(back) = n - i
  BY <1>2, <1>3
<1>10. i \in Int /\ n \in Int /\ 1 <= i /\ i <= n
  BY <1>6
<1>7. ASSUME NEW j \in 1 .. n - 1
      PROVE  rest[j] = list[IF j < i THEN j ELSE j + 1]
  <2>1. CASE j < i
    <3>1. j \in 1 .. i - 1 /\ j \in 1 .. Len(front) + Len(back) /\ j <= Len(front)
      BY <1>2, <1>3, <1>6, <2>1
    <3>. QED BY <1>2, <1>4, <1>5, <2>1, <3>1
  <2>2. CASE ~(j < i)
    <3>0. j \in Int /\ 1 <= j /\ j <= n - 1 /\ i <= j
      BY <1>10, <2>2
    <3>a. j - (i - 1) \in 1 .. n - i
      BY <1>10, <3>0
    <3>b. i + (j - (i - 1)) = j + 1
      BY <1>10, <3>0
    <3>c. j \in 1 .. Len(front) + Len(back)
      BY <1>9, <1>10, <3>0
    <3>d. ~(j <= Len(front))
      BY <1>9, <1>10, <3>0
    <3>1. /\ j - (i - 1) \in 1 .. n - i /\ i + (j - (i - 1)) = j + 1
          /\ j \in 1 .. Len(front) + Len(back) /\ ~(j <= Len(front))
          /\ j - Len(front) = j - (i - 1)
      BY <1>9, <3>a, <3>b, <3>c, <3>d
    <3>2. rest[j] = back[j - (i - 1)]
      BY <1>4, <1>5, <3>1
    <3>. QED BY <1>3, <2>2, <3>1, <3>2
  <2>. QED BY <2>1, <2>2
<1>8. rest \in Seq(S) /\ Len(rest) = n - 1
  <2>1. Len(front) + Len(back) = n - 1
    BY <1>9, <1>10
  <2>. QED BY <1>4, <1>5, <2>1
<1>. QED BY <1>6, <1>7, <1>8

\* Without its conversation of an identifier a list keeps the others, and
\* still has no identifier twice.
LEMMA CutKeepsOthers ==
  ASSUME NEW list \in Seq(Conversation), NEW i \in DOMAIN list, Distinct(list),
         NEW rest, rest = SubSeq(list, 1, i - 1) \o SubSeq(list, i + 1, Len(list))
  PROVE  /\ rest \in Seq(Conversation) /\ Distinct(rest)
         /\ Range(rest) = {k \in Range(list) : k.id # list[i].id}
<1>1. /\ rest \in Seq(Conversation) /\ Len(rest) = Len(list) - 1
      /\ \A j \in 1 .. Len(list) - 1 :
           rest[j] = list[IF j < i THEN j ELSE j + 1]
  BY CutFacts, ZenonT(30)
<1>2. Len(list) \in Nat /\ DOMAIN list = 1 .. Len(list)
      /\ DOMAIN rest = 1 .. Len(list) - 1
  BY <1>1, LenProperties
<1>. DEFINE At0(j) == IF j < i THEN j ELSE j + 1
<1>3. \A j \in DOMAIN rest :
        At0(j) \in DOMAIN list /\ At0(j) # i /\ rest[j] = list[At0(j)]
  <2>. TAKE j \in DOMAIN rest
  <2>1. j \in 1 .. Len(list) - 1 /\ i \in 1 .. Len(list)
    BY <1>2
  <2>2. At0(j) \in 1 .. Len(list) /\ At0(j) # i
    <3>1. CASE j < i
      BY <1>2, <2>1, <3>1
    <3>2. CASE ~(j < i)
      <4>1. At0(j) = j + 1
        BY <3>2
      <4>. HIDE DEF At0
      <4>. QED BY <1>2, <2>1, <3>2, <4>1
    <3>. QED BY <3>1, <3>2
  <2>3. rest[j] = list[At0(j)]
    BY <1>1, <2>1
  <2>. QED BY <1>2, <2>2, <2>3
<1>4. \A j, l \in DOMAIN rest : At0(j) = At0(l) => j = l
  BY <1>2
<1>5. \A m \in DOMAIN list : m # i => \E j \in DOMAIN rest : At0(j) = m
  <2>. TAKE m \in DOMAIN list
  <2>1. CASE m < i
    BY <1>2, <2>1
  <2>2. CASE m > i
    <3>1. m - 1 \in DOMAIN rest /\ At0(m - 1) = m
      BY <1>2, <2>2
    <3>. QED BY <3>1
  <2>. QED BY <1>2, <2>1, <2>2
<1>. HIDE DEF At0
<1>6. Distinct(rest)
  <2>. SUFFICES ASSUME NEW j \in DOMAIN rest, NEW l \in DOMAIN rest,
                       rest[j].id = rest[l].id
                PROVE  j = l
    BY DEF Distinct
  <2>1. list[At0(j)].id = list[At0(l)].id
    BY <1>3
  <2>2. At0(j) = At0(l)
    BY <1>3, <2>1 DEF Distinct
  <2>. QED BY <1>4, <2>2
<1>7. ASSUME NEW k
      PROVE  k \in Range(rest) <=> k \in Range(list) /\ k.id # list[i].id
  <2>1. ASSUME k \in Range(rest)
        PROVE  k \in Range(list) /\ k.id # list[i].id
    <3>1. PICK j \in DOMAIN rest : k = rest[j]
      BY <2>1 DEF Range
    <3>. QED BY <1>3, <3>1 DEF Range, Distinct
  <2>2. ASSUME k \in Range(list), k.id # list[i].id
        PROVE  k \in Range(rest)
    <3>1. PICK m \in DOMAIN list : k = list[m]
      BY <2>2 DEF Range
    <3>2. PICK j \in DOMAIN rest : At0(j) = m
      BY <1>5, <2>2, <3>1
    <3>. QED BY <1>3, <3>1, <3>2 DEF Range
  <2>. QED BY <2>1, <2>2
<1>. QED BY <1>1, <1>6, <1>7

\* A list with one more conversation in front.
LEMMA PrependFacts ==
  ASSUME NEW list \in Seq(Conversation), NEW k \in Conversation, Distinct(list),
         ~Contains(Range(list), k.id)
  PROVE  /\ <<k>> \o list \in Seq(Conversation) /\ Distinct(<<k>> \o list)
         /\ Range(<<k>> \o list) = {k} \cup Range(list)
         /\ <<k>> \o list # <<>>
<1>. DEFINE new == <<k>> \o list
<1>1. Len(list) \in Nat /\ DOMAIN list = 1 .. Len(list)
  BY LenProperties
<1>2. <<k>> \in Seq(Conversation) /\ Len(<<k>>) = 1 /\ <<k>>[1] = k
  OBVIOUS
<1>3. /\ new \in Seq(Conversation) /\ Len(new) = 1 + Len(list)
      /\ \A j \in 1 .. 1 + Len(list) :
           new[j] = IF j <= 1 THEN <<k>>[j] ELSE list[j - 1]
  <2>. DEFINE one == <<k>>
  <2>1. one \in Seq(Conversation) /\ Len(one) = 1
    BY <1>2
  <2>. HIDE DEF one
  <2>2. /\ one \o list \in Seq(Conversation)
        /\ Len(one \o list) = Len(one) + Len(list)
        /\ \A j \in 1 .. Len(one) + Len(list) :
             (one \o list)[j] = IF j <= Len(one) THEN one[j]
                                ELSE list[j - Len(one)]
    BY <2>1, ConcatProperties
  <2>. QED BY <2>1, <2>2 DEF one
<1>4. DOMAIN new = 1 .. 1 + Len(list)
  BY <1>1, <1>3, LenProperties
<1>. HIDE DEF new
<1>5. new[1] = k /\ \A j \in DOMAIN list : j + 1 \in DOMAIN new /\ new[j + 1] = list[j]
  BY <1>1, <1>2, <1>3, <1>4
<1>6. \A j \in DOMAIN new : j = 1 \/ (j - 1 \in DOMAIN list /\ new[j] = list[j - 1])
  BY <1>1, <1>3, <1>4
<1>7. \A j \in DOMAIN list : list[j].id # k.id
  BY DEF Contains, Range
<1>8. Distinct(new)
  <2>. SUFFICES ASSUME NEW i \in DOMAIN new, NEW j \in DOMAIN new,
                       new[i].id = new[j].id
                PROVE  i = j
    BY DEF Distinct
  <2>1. i \in Nat /\ j \in Nat
    BY <1>1, <1>4
  <2>. QED BY <2>1, <1>5, <1>6, <1>7 DEF Distinct
<1>9. Range(new) = {k} \cup Range(list)
  <2>1. ASSUME NEW x \in Range(new)
        PROVE  x \in {k} \cup Range(list)
    <3>1. PICK j \in DOMAIN new : x = new[j]
      BY DEF Range
    <3>. QED BY <1>5, <1>6, <3>1 DEF Range
  <2>2. k \in Range(new)
    BY <1>1, <1>4, <1>5 DEF Range
  <2>3. ASSUME NEW x \in Range(list)
        PROVE  x \in Range(new)
    <3>1. PICK j \in DOMAIN list : x = list[j]
      BY DEF Range
    <3>. QED BY <1>5, <3>1 DEF Range
  <2>. QED BY <2>1, <2>2, <2>3
<1>10. new # <<>>
  BY <1>1, <1>3, EmptySeq
<1>. QED BY <1>3, <1>8, <1>9, <1>10 DEF new

-----------------------------------------------------------------------------
(* The commands of the store.                                              *)

\* The other characters keep what they have.
OthersAlike(s, s2, c) ==
  \A d \in Characters \ {c} :
    s2.conversations[d] = s.conversations[d] /\ s2.active[d] = s.active[d]

LEMMA OwnedFacts ==
  ASSUME NEW s \in Store, NEW c \in Characters
  PROVE  /\ s.conversations[c] \in Seq(Conversation)
         /\ s.active[c] \in Ids \cup {NoId}
         /\ Owned(s, c) \in SUBSET Conversation
         /\ s.conversations[c] = <<>> <=> Owned(s, c) = {}
<1>. DEFINE list == s.conversations[c]
<1>1. list \in Seq(Conversation) /\ s.active[c] \in Ids \cup {NoId}
  BY DEF Store
<1>. HIDE DEF list
<1>2. Len(list) \in Nat /\ DOMAIN list = 1 .. Len(list)
  BY <1>1, LenProperties
<1>3. \A i \in DOMAIN list : list[i] \in Conversation
  BY <1>1, <1>2, ElementOfSeq
<1>4. Range(list) \in SUBSET Conversation
  BY <1>3 DEF Range
<1>5. ASSUME list # <<>> PROVE Range(list) # {}
  <2>1. Len(list) # 0
    BY <1>1, <1>5, EmptySeq
  <2>2. 1 \in DOMAIN list
    BY <1>2, <2>1
  <2>. QED BY <2>2 DEF Range
<1>6. ASSUME list = <<>> PROVE Range(list) = {}
  <2>1. DOMAIN list = {}
    BY <1>6
  <2>. QED BY <2>1 DEF Range
<1>. QED BY <1>1, <1>4, <1>5, <1>6 DEF list, Owned

LEMMA OwnsFacts ==
  ASSUME NEW s, NEW c, NEW id
  PROVE  /\ Owns(s, c, id) <=> Contains(Owned(s, c), id)
         /\ Owns(s, c, id) <=>
              \E i \in DOMAIN s.conversations[c] : s.conversations[c][i].id = id
<1>. DEFINE list == s.conversations[c]
<1>1. Owns(s, c, id) <=> \E k \in Range(list) : k.id = id
  BY DEF Owns, Owned
<1>2. (\E k \in Range(list) : k.id = id) <=> \E i \in DOMAIN list : list[i].id = id
  <2>. HIDE DEF list
  <2>. QED BY DEF Range
<1>. QED BY <1>1, <1>2 DEF Contains, Owned

\* The head of the listing is a conversation of the character, if it has any.
LEMMA FirstListedFacts ==
  ASSUME NEW s \in Store, NEW c \in Characters
  PROVE  /\ FirstListed(s, c) \in Ids \cup {NoId}
         /\ Owned(s, c) = {} => FirstListed(s, c) = NoId
         /\ Owned(s, c) # {} =>
              FirstListed(s, c) # NoId /\ Owns(s, c, FirstListed(s, c))
<1>. DEFINE list == s.conversations[c]
            stamped == {i \in DOMAIN list : list[i].hostStamp}
            ahead == IF stamped = {} THEN DOMAIN list ELSE stamped
            head == CHOOSE i \in ahead : \A j \in ahead : i <= j
<1>1. FirstListed(s, c) = IF list = <<>> THEN NoId ELSE list[head].id
  BY DEF FirstListed
<1>2. list \in Seq(Conversation) /\ (list = <<>> <=> Owned(s, c) = {})
  BY OwnedFacts
<1>3. CASE list = <<>>
  BY <1>1, <1>2, <1>3
<1>4. CASE list # <<>>
  <2>1. Len(list) \in Nat /\ DOMAIN list = 1 .. Len(list) /\ Len(list) # 0
    BY <1>2, <1>4, LenProperties, EmptySeq
  <2>2. ahead \in SUBSET Nat /\ ahead # {} /\ ahead \subseteq DOMAIN list
    <3>1. DOMAIN list \in SUBSET Nat /\ 1 \in DOMAIN list
      <4>. HIDE DEF list
      <4>. QED BY <2>1
    <3>2. stamped \in SUBSET DOMAIN list
      OBVIOUS
    <3>. HIDE DEF list, stamped
    <3>. QED BY <3>1, <3>2
  <2>. HIDE DEF ahead
  <2>3. \E i \in ahead : \A j \in ahead : i <= j
    BY <2>2, Least, Zenon
  <2>4. head \in ahead
    BY <2>3
  <2>. HIDE DEF head
  <2>5. head \in DOMAIN list
    BY <2>2, <2>4
  <2>6. list[head] \in Conversation
    BY <1>2, <2>1, <2>5, ElementOfSeq
  <2>7. list[head].id \in Ids /\ list[head].id # NoId
    BY <2>6, IdsAssumption DEF Conversation
  <2>8. Owns(s, c, list[head].id)
    BY <2>5, OwnsFacts
  <2>. HIDE DEF list
  <2>. QED BY <1>1, <1>2, <1>4, <2>7, <2>8
<1>. QED BY <1>3, <1>4

\* In a sound store getActive answers with the active conversation.
LEMMA GetActiveFacts ==
  ASSUME NEW s \in Store, NEW c \in Characters, SoundFor(s, c)
  PROVE  /\ GetActive(s, c) = s.active[c]
         /\ s.active[c] = NoId <=> Owned(s, c) = {}
         /\ Owned(s, c) # {} => Owns(s, c, s.active[c])
<1>1. s.conversations[c] = <<>> <=> Owned(s, c) = {}
  BY OwnedFacts
<1>2. CASE Owned(s, c) = {}
  <2>1. s.active[c] = NoId
    BY <1>1, <1>2 DEF SoundFor
  <2>2. FirstListed(s, c) = NoId
    BY <1>2, FirstListedFacts
  <2>. QED BY <1>2, <2>1, <2>2 DEF GetActive
<1>3. CASE Owned(s, c) # {}
  <2>1. Owns(s, c, s.active[c])
    BY <1>1, <1>3 DEF SoundFor
  <2>2. PICK k \in Owned(s, c) : k.id = s.active[c]
    BY <2>1 DEF Owns
  <2>3. k \in Conversation
    BY OwnedFacts
  <2>4. s.active[c] # NoId
    BY <2>2, <2>3, IdsAssumption DEF Conversation
  <2>. QED BY <1>3, <2>1, <2>4 DEF GetActive
<1>. QED BY <1>2, <1>3

LEMMA WithoutFacts ==
  ASSUME NEW s \in Store, NEW c \in Characters, NEW id,
         Distinct(s.conversations[c]), NEW s2, s2 = Without(s, c, id)
  PROVE  /\ s2 \in Store /\ s2.active = s.active /\ OthersAlike(s, s2, c)
         /\ Distinct(s2.conversations[c])
         /\ Owned(s2, c) = Others(Owned(s, c), id)
<1>. DEFINE list == s.conversations[c]
            i == CHOOSE j \in DOMAIN list : list[j].id = id
            rest == SubSeq(list, 1, i - 1) \o SubSeq(list, i + 1, Len(list))
<1>1. CASE ~Owns(s, c, id)
  <2>1. s2 = s
    BY <1>1 DEF Without
  <2>2. Others(Owned(s, c), id) = Owned(s, c)
    BY <1>1 DEF Others, Owns
  <2>. QED BY <2>1, <2>2 DEF OthersAlike
<1>2. CASE Owns(s, c, id)
  <2>1. s2 = [s EXCEPT !.conversations[c] = rest]
    BY <1>2 DEF Without
  <2>2. i \in DOMAIN list /\ list[i].id = id
    BY <1>2, OwnsFacts
  <2>3. list \in Seq(Conversation)
    BY OwnedFacts
  <2>4. /\ rest \in Seq(Conversation) /\ Distinct(rest)
        /\ Range(rest) = {k \in Range(list) : k.id # list[i].id}
    <3>1. Distinct(list)
      OBVIOUS
    <3>2. rest = SubSeq(list, 1, i - 1) \o SubSeq(list, i + 1, Len(list))
      OBVIOUS
    <3>. HIDE DEF list, i, rest
    <3>. QED BY <2>2, <2>3, <3>1, <3>2, CutKeepsOthers, Zenon
  <2>. HIDE DEF rest
  <2>5. /\ s2 \in Store /\ s2.active = s.active /\ OthersAlike(s, s2, c)
        /\ s2.conversations[c] = rest
    BY <2>1, <2>4 DEF Store, OthersAlike
  <2>. QED BY <2>2, <2>4, <2>5 DEF Owned, Others
<1>. QED BY <1>1, <1>2

LEMMA InsertFacts ==
  ASSUME NEW s \in Store, NEW c \in Characters, NEW k \in Conversation,
         Distinct(s.conversations[c]), ~Owns(s, c, k.id),
         NEW s2, s2 = Insert(s, c, k)
  PROVE  /\ s2 \in Store /\ s2.active = s.active /\ OthersAlike(s, s2, c)
         /\ Distinct(s2.conversations[c])
         /\ Owned(s2, c) = Owned(s, c) \cup {k}
<1>. DEFINE list == s.conversations[c]
            new == <<k>> \o list
<1>1. list \in Seq(Conversation) /\ Range(list) = Owned(s, c)
  BY OwnedFacts DEF Owned
<1>2. ~Contains(Range(list), k.id)
  BY <1>1 DEF Owns, Contains
<1>3. /\ new \in Seq(Conversation) /\ Distinct(new)
      /\ Range(new) = {k} \cup Range(list)
  <2>1. Distinct(list)
    OBVIOUS
  <2>. HIDE DEF list
  <2>. QED BY <1>1, <1>2, <2>1, PrependFacts
<1>4. s2 = [s EXCEPT !.conversations[c] = new]
  BY DEF Insert
<1>. HIDE DEF new
<1>5. /\ s2 \in Store /\ s2.active = s.active /\ OthersAlike(s, s2, c)
      /\ s2.conversations[c] = new
  BY <1>3, <1>4 DEF Store, OthersAlike
<1>. QED BY <1>1, <1>3, <1>5 DEF Owned

\* A store that is sound for one character, and has the conversations that a
\* sound store has for the others, is sound if no identifier is shared.
LEMMA SoundAfter ==
  ASSUME NEW s, NEW s2, NEW c \in Characters, Sound(s), OthersAlike(s, s2, c),
         SoundFor(s2, c), \A k \in Owned(s2, c) : InScope(s, c, k.id)
  PROVE  Sound(s2)
<1>1. \A d \in Characters \ {c} : Owned(s2, d) = Owned(s, d)
  BY DEF OthersAlike, Owned
<1>2. \A d \in Characters \ {c} : \A id : Owns(s2, d, id) <=> Owns(s, d, id)
  BY <1>1 DEF Owns
<1>3. \A d \in Characters : SoundFor(s2, d)
  <2>1. ASSUME NEW d \in Characters \ {c} PROVE SoundFor(s2, d)
    <3>1. SoundFor(s, d)
      BY DEF Sound
    <3>2. /\ s2.conversations[d] = s.conversations[d]
          /\ s2.active[d] = s.active[d]
      BY DEF OthersAlike
    <3>. QED BY <1>1, <1>2, <3>1, <3>2 DEF SoundFor
  <2>. QED BY <2>1
<1>4. ASSUME NEW a \in Characters, NEW b \in Characters \ {a}, NEW k \in Owned(s2, a)
      PROVE  ~Owns(s2, b, k.id)
  <2>1. CASE a = c
    BY <1>2, <2>1 DEF InScope
  <2>2. CASE a # c /\ b # c
    BY <1>1, <1>2, <2>2 DEF Sound
  <2>3. CASE a # c /\ b = c
    <3>1. SUFFICES ASSUME NEW l \in Owned(s2, c), l.id = k.id PROVE FALSE
      BY <2>3 DEF Owns
    <3>2. ~Owns(s, a, k.id)
      BY <2>3, <3>1 DEF InScope
    <3>3. k \in Owned(s, a)
      BY <1>1, <2>3
    <3>. QED BY <3>2, <3>3 DEF Owns
  <2>. QED BY <2>1, <2>2, <2>3
<1>. QED BY <1>3, <1>4 DEF Sound

\* What a character owns in a sound store is in its scope.
LEMMA OwnedInScope ==
  ASSUME NEW s, NEW c \in Characters, Sound(s), NEW k \in Owned(s, c)
  PROVE  InScope(s, c, k.id) /\ k.id \in Scope(c)
BY DEF Sound, SoundFor, InScope

\* No other character has the default conversation of a character.
LEMMA DefaultInScope ==
  ASSUME NEW s, NEW c \in Characters, Sound(s)
  PROVE  InScope(s, c, c)
<1>. SUFFICES ASSUME NEW d \in Characters \ {c}, NEW k \in Owned(s, d), k.id = c
              PROVE  FALSE
  BY DEF InScope, Owns
<1>. QED BY OwnedInScope, IdsAssumption DEF Scope

LEMMA SetActiveFacts ==
  ASSUME NEW s \in Store, Sound(s), NEW c \in Characters, NEW id, Owns(s, c, id),
         NEW s2, s2 = SetActive(s, c, id)
  PROVE  /\ s2 \in Store /\ Sound(s2) /\ OthersAlike(s, s2, c)
         /\ s2.conversations = s.conversations /\ s2.active[c] = id
         /\ Owned(s2, c) = Owned(s, c)
<1>1. id \in Ids
  <2>1. PICK k \in Owned(s, c) : k.id = id
    BY DEF Owns
  <2>. QED BY <2>1, OwnedFacts DEF Conversation
<1>2. /\ s2 \in Store /\ OthersAlike(s, s2, c)
      /\ s2.conversations = s.conversations /\ s2.active[c] = id
  BY <1>1 DEF SetActive, Store, OthersAlike
<1>3. Owned(s2, c) = Owned(s, c) /\ Owns(s2, c, id)
  BY <1>2 DEF Owned, Owns
<1>4. SoundFor(s, c) /\ Owned(s, c) # {}
  BY DEF Sound, Owns
<1>5. s.conversations[c] # <<>>
  BY <1>4, OwnedFacts
<1>6. SoundFor(s2, c)
  BY <1>2, <1>3, <1>4, <1>5 DEF SoundFor
<1>7. Sound(s2)
  BY <1>2, <1>3, <1>6, OwnedInScope, SoundAfter
<1>. QED BY <1>2, <1>3, <1>7

\* A save puts a conversation in the place of the one with its identifier,
\* and leaves the active one alone if there is one.
LEMMA SaveFacts ==
  ASSUME NEW s \in Store, Sound(s), NEW c \in Characters, NEW k \in Conversation,
         k.id \in Scope(c), InScope(s, c, k.id), NEW s2, s2 = Save(s, c, k)
  PROVE  /\ s2 \in Store /\ Sound(s2) /\ OthersAlike(s, s2, c)
         /\ Owned(s2, c) = Others(Owned(s, c), k.id) \cup {k}
         /\ s2.active[c] = IF s.active[c] = NoId THEN k.id ELSE s.active[c]
<1>. DEFINE w == Without(s, c, k.id)
            n == Insert(w, c, k)
            a == IF s.active[c] = NoId THEN k.id ELSE s.active[c]
<1>1. SoundFor(s, c)
  BY DEF Sound
<1>2. /\ w \in Store /\ w.active = s.active /\ OthersAlike(s, w, c)
      /\ Distinct(w.conversations[c])
      /\ Owned(w, c) = Others(Owned(s, c), k.id)
  BY <1>1, WithoutFacts DEF SoundFor
<1>3. ~Owns(w, c, k.id)
  BY <1>2 DEF Owns, Others
<1>4. s2 = [n EXCEPT !.active[c] = IF @ = NoId THEN k.id ELSE @]
  BY DEF Save
<1>. HIDE DEF w
<1>5. /\ n \in Store /\ n.active = w.active /\ OthersAlike(w, n, c)
      /\ Distinct(n.conversations[c])
      /\ Owned(n, c) = Owned(w, c) \cup {k}
  BY <1>2, <1>3, InsertFacts
<1>. HIDE DEF n
<1>6. k.id \in Ids /\ k.id # NoId
  BY IdsAssumption DEF Conversation
<1>7. /\ s2 \in Store /\ OthersAlike(n, s2, c) /\ s2.active[c] = a
      /\ s2.conversations = n.conversations
  <2>1. n.active[c] = s.active[c]
    BY <1>2, <1>5
  <2>2. a \in Ids \cup {NoId}
    BY <1>6, OwnedFacts
  <2>3. s2 = [n EXCEPT !.active[c] = a]
    BY <1>4, <2>1
  <2>. HIDE DEF a
  <2>6. n.active \in [Characters -> Ids \cup {NoId}]
    BY <1>5 DEF Store
  <2>4. s2 = [n EXCEPT !.active = [n.active EXCEPT ![c] = a]]
    BY <2>3
  <2>5. [n.active EXCEPT ![c] = a] \in [Characters -> Ids \cup {NoId}]
    BY <2>2, <2>6
  <2>7. s2 \in Store /\ s2.conversations = n.conversations
        /\ s2.active = [n.active EXCEPT ![c] = a]
    BY <1>5, <2>4, <2>5 DEF Store
  <2>. QED BY <2>6, <2>7 DEF OthersAlike
<1>8. OthersAlike(s, s2, c)
  BY <1>2, <1>5, <1>7 DEF OthersAlike
<1>9. Owned(s2, c) = Others(Owned(s, c), k.id) \cup {k}
  BY <1>2, <1>5, <1>7 DEF Owned
<1>10. Owns(s2, c, a)
  <2>1. CASE s.active[c] = NoId \/ s.active[c] = k.id
    BY <1>9, <2>1 DEF Owns
  <2>2. CASE s.active[c] # NoId /\ s.active[c] # k.id
    <3>1. Owns(s, c, s.active[c])
      BY <1>1, <2>2 DEF SoundFor
    <3>2. PICK l \in Owned(s, c) : l.id = s.active[c]
      BY <3>1 DEF Owns
    <3>3. l \in Owned(s2, c)
      BY <1>9, <2>2, <3>2 DEF Others
    <3>. QED BY <2>2, <3>2, <3>3 DEF Owns
  <2>. QED BY <2>1, <2>2
<1>11. \A l \in Owned(s2, c) : l = k \/ l \in Owned(s, c)
  BY <1>9 DEF Others
<1>12. SoundFor(s2, c)
  <2>1. \A l \in Owned(s2, c) : l.id \in Scope(c)
    BY <1>11, OwnedInScope
  <2>2. Distinct(s2.conversations[c])
    BY <1>5, <1>7
  <2>3. s2.conversations[c] # <<>>
    <3>1. Owned(s2, c) # {}
      BY <1>9
    <3>. QED BY <1>7, <3>1, OwnedFacts
  <2>. HIDE DEF a
  <2>. QED BY <1>7, <1>10, <2>1, <2>2, <2>3 DEF SoundFor
<1>13. \A l \in Owned(s2, c) : InScope(s, c, l.id)
  BY <1>11, OwnedInScope
<1>14. Sound(s2)
  BY <1>8, <1>12, <1>13, SoundAfter
<1>. QED BY <1>7, <1>8, <1>9, <1>14

\* A deletion takes one conversation away.  When it was the last, the host's
\* new default conversation takes its place, whose identifier is free.
LEMMA DeleteFacts ==
  ASSUME NEW s \in Store, Sound(s), NEW c \in Characters, NEW id,
         NEW s2, s2 = Delete(s, c, id)
  PROVE  /\ s2 \in Store /\ Sound(s2) /\ OthersAlike(s, s2, c)
         /\ Owns(s, c, id) /\ Others(Owned(s, c), id) = {} =>
              Owned(s2, c) = {NewConversation(c, TauriHost)}
         /\ ~Owns(s, c, id) \/ Others(Owned(s, c), id) # {} =>
              Owned(s2, c) = Others(Owned(s, c), id)
         /\ s.active[c] # id => s2.active[c] = s.active[c]
<1>. DEFINE w == Without(s, c, id)
            fresh == NewConversation(c, TauriHost)
            n == Insert(w, c, fresh)
            left == Others(Owned(s, c), id)
<1>1. SoundFor(s, c)
  BY DEF Sound
<1>2. /\ w \in Store /\ w.active = s.active /\ OthersAlike(s, w, c)
      /\ Distinct(w.conversations[c]) /\ Owned(w, c) = left
  BY <1>1, WithoutFacts DEF SoundFor
<1>3. s2 = IF ~(Owns(s, c, id) /\ s.active[c] = id) THEN w
           ELSE IF FirstListed(w, c) # NoId
                THEN SetActive(w, c, FirstListed(w, c))
                ELSE SetActive(n, c, c)
  BY DEF Delete
<1>. HIDE DEF w, n, left
<1>4. left \subseteq Owned(s, c) /\ \A k \in left : k.id # id
  BY DEF left, Others
<1>5. \A k \in left : InScope(s, c, k.id) /\ k.id \in Scope(c)
  BY <1>4, OwnedInScope
<1>6. CASE ~(Owns(s, c, id) /\ s.active[c] = id)
  <2>1. s2 = w
    BY <1>3, <1>6
  <2>2. ASSUME Owned(s, c) = {}
        PROVE  left = {} /\ w.conversations[c] = <<>> /\ s.active[c] = NoId
               /\ ~Owns(s, c, id)
    BY <1>1, <1>2, <1>4, <2>2, OwnedFacts, GetActiveFacts DEF Owns
  <2>3. ASSUME Owned(s, c) # {}
        PROVE  Owns(w, c, w.active[c]) /\ left # {}
    <3>1. Owns(s, c, s.active[c])
      BY <1>1, <2>3, GetActiveFacts
    <3>2. PICK k \in Owned(s, c) : k.id = s.active[c]
      BY <3>1 DEF Owns
    <3>3. k \in left
      BY <1>6, <3>1, <3>2 DEF left, Others, Owns
    <3>. QED BY <1>2, <3>2, <3>3 DEF Owns
  <2>4. SoundFor(w, c)
    <3>1. \A k \in Owned(w, c) : k.id \in Scope(c)
      BY <1>2, <1>5
    <3>2. w.conversations[c] = <<>> <=> Owned(w, c) = {}
      BY <1>2, OwnedFacts
    <3>. QED BY <1>2, <2>2, <2>3, <3>1, <3>2 DEF SoundFor
  <2>5. Sound(w)
    BY <1>2, <1>5, <2>4, SoundAfter
  <2>6. ~(Owns(s, c, id) /\ left = {})
    BY <2>2, <2>3
  <2>. QED BY <1>2, <2>1, <2>5, <2>6 DEF left
<1>7. CASE Owns(s, c, id) /\ s.active[c] = id /\ FirstListed(w, c) # NoId
  <2>. DEFINE next == FirstListed(w, c)
  <2>1. s2 = SetActive(w, c, next)
    BY <1>3, <1>7
  <2>2. left # {} /\ Owns(w, c, next)
    BY <1>2, <1>7, FirstListedFacts
  <2>3. next \in Ids
    BY <1>2, <1>7, FirstListedFacts
  <2>. HIDE DEF next
  <2>4. /\ s2 \in Store /\ OthersAlike(w, s2, c)
        /\ s2.conversations = w.conversations /\ s2.active[c] = next
    BY <1>2, <2>1, <2>3 DEF SetActive, Store, OthersAlike
  <2>5. OthersAlike(s, s2, c) /\ Owned(s2, c) = left /\ Owns(s2, c, next)
    BY <1>2, <2>2, <2>4 DEF OthersAlike, Owned, Owns
  <2>6. SoundFor(s2, c)
    <3>1. s2.conversations[c] # <<>>
      BY <2>2, <2>4, <2>5, OwnedFacts
    <3>. QED BY <1>2, <1>5, <2>4, <2>5, <3>1 DEF SoundFor
  <2>7. Sound(s2)
    BY <1>5, <2>5, <2>6, SoundAfter
  <2>. QED BY <1>7, <2>2, <2>4, <2>5, <2>7 DEF left
<1>8. CASE Owns(s, c, id) /\ s.active[c] = id /\ FirstListed(w, c) = NoId
  <2>1. s2 = SetActive(n, c, c)
    BY <1>3, <1>8
  <2>2. left = {}
    BY <1>2, <1>8, FirstListedFacts
  <2>3. fresh \in Conversation /\ fresh.id = c
    BY TextsAssumption, HostAssumption DEF NewConversation, Conversation, Ids
  <2>4. ~Owns(w, c, c)
    BY <1>2, <2>2 DEF Owns
  <2>5. /\ n \in Store /\ n.active = w.active /\ OthersAlike(w, n, c)
        /\ Distinct(n.conversations[c])
        /\ Owned(n, c) = Owned(w, c) \cup {fresh}
    <3>. HIDE DEF fresh
    <3>. QED BY <1>2, <2>3, <2>4, InsertFacts DEF n
  <2>. HIDE DEF fresh
  <2>6. /\ s2 \in Store /\ OthersAlike(n, s2, c)
        /\ s2.conversations = n.conversations /\ s2.active[c] = c
    BY <2>1, <2>5 DEF SetActive, Store, OthersAlike, Ids
  <2>7. /\ OthersAlike(s, s2, c) /\ Owned(s2, c) = {fresh}
        /\ Owns(s2, c, c)
    BY <1>2, <2>2, <2>3, <2>5, <2>6 DEF OthersAlike, Owned, Owns
  <2>8. SoundFor(s2, c)
    <3>1. s2.conversations[c] # <<>>
      BY <2>6, <2>7, OwnedFacts
    <3>. QED BY <2>3, <2>5, <2>6, <2>7, <3>1 DEF SoundFor, Scope
  <2>9. Sound(s2)
    <3>1. \A k \in Owned(s2, c) : InScope(s, c, k.id)
      BY <2>3, <2>7, DefaultInScope
    <3>. QED BY <2>7, <2>8, <3>1, SoundAfter
  <2>. QED BY <1>8, <2>2, <2>6, <2>7, <2>9 DEF left, fresh
<1>. QED BY <1>6, <1>7, <1>8

-----------------------------------------------------------------------------
(* What the steps of a call do.                                            *)

\* The call of p goes on as m.
Continues(p, m) ==
  /\ calls' = [calls EXCEPT ![p] = m] /\ before' = before
  /\ m \in Call /\ Fits(m)
  /\ m.op = calls[p].op /\ m.char = calls[p].char /\ m.id = calls[p].id

SameFlags(call, m) == m.announces = call.announces /\ m.told = call.told

LEMMA CallFacts ==
  ASSUME SafeInv, NEW p \in Callers, calls[p] # Nobody
  PROVE  /\ calls[p] \in Call /\ Fits(calls[p])
         /\ calls[p].char \in Characters
         /\ calls[p].op # "getActive" => calls[p].id \in Ids
         /\ store \in Store /\ Sound(store) /\ SoundFor(store, calls[p].char)
<1>1. calls[p] \in Call /\ Fits(calls[p]) /\ store \in Store /\ Sound(store)
  BY DEF SafeInv, TypeOK, CallsFit, Idle
<1>2. calls[p].char \in Characters /\ calls[p].id \in Ids \cup {NoId}
  BY <1>1 DEF Call
<1>. QED BY <1>1, <1>2 DEF Fits, Sound

LEMMA GetMoves ==
  ASSUME SafeInv, NEW p \in Callers, Get(p)
  PROVE  /\ store' = store
         /\ Reject(p) \/
            \E m : /\ Continues(p, m) /\ SameFlags(calls[p], m)
                   /\ m.pc = IF m.op \in {"create", "update", "rename"}
                             THEN "save" ELSE "readActive"
                   /\ m.op # "getActive"
                   /\ Owns(store, m.char, m.id) <=> m.op # "create"
                   /\ m.op = "rename" =>
                        \E k \in Owned(store, m.char) :
                          k.id = m.id /\ k.messages = m.messages
<1>. DEFINE call == calls[p]
            c == call.char
            k0 == Lookup(store, c, call.id)
            text == IF call.op = "rename" THEN k0.messages ELSE call.messages
            m == [call EXCEPT !.pc = AfterGet(call.op), !.messages = text]
<1>1. /\ call # Nobody /\ call.pc = "get" /\ store' = store
      /\ \/ /\ InScope(store, c, call.id)
            /\ ~Has(store, call.id) <=> call.op = "create"
            /\ calls' = [calls EXCEPT ![p] = m] /\ before' = before
         \/ Reject(p)
  BY DEF Get, At
<1>2. /\ call \in Call /\ Fits(call) /\ c \in Characters
      /\ store \in Store /\ Sound(store)
  BY <1>1, CallFacts
<1>. SUFFICES ASSUME /\ InScope(store, c, call.id)
                     /\ ~Has(store, call.id) <=> call.op = "create"
                     /\ calls' = [calls EXCEPT ![p] = m] /\ before' = before
              PROVE  \E x : /\ Continues(p, x) /\ SameFlags(calls[p], x)
                            /\ x.pc = IF x.op \in {"create", "update", "rename"}
                                      THEN "save" ELSE "readActive"
                            /\ x.op # "getActive"
                            /\ Owns(store, x.char, x.id) <=> x.op # "create"
                            /\ x.op = "rename" =>
                                 \E k \in Owned(store, x.char) :
                                   k.id = x.id /\ k.messages = x.messages
  BY <1>1
<1>3. call.op \in Operations \ {"getActive"}
  BY <1>1, <1>2 DEF Fits, Call
<1>4. Owns(store, c, call.id) <=> call.op # "create"
  BY <1>2 DEF Has, InScope
<1>5. AfterGet(call.op) = IF call.op \in {"create", "update", "rename"}
                          THEN "save" ELSE "readActive"
  BY <1>3 DEF AfterGet, Operations
<1>6. ASSUME call.op # "create"
      PROVE  k0 \in Owned(store, c) /\ k0.id = call.id
  BY <1>4, <1>6 DEF Owns, Lookup
<1>7. text \in Texts
  <2>1. call.op = "rename" => k0 \in Conversation
    BY <1>2, <1>6, OwnedFacts
  <2>. HIDE DEF k0
  <2>. QED BY <1>2, <2>1 DEF Call, Conversation
<1>8. call.id \in Scope(c)
  <2>1. call.op # "create" => call.id \in Scope(c)
    BY <1>2, <1>6, OwnedInScope
  <2>. QED BY <1>2, <2>1 DEF Fits
<1>. HIDE DEF text, k0
<1>9. /\ m \in Call /\ m.op = call.op /\ m.char = c /\ m.id = call.id
      /\ m.pc = AfterGet(call.op) /\ m.messages = text
      /\ m.announces = call.announces /\ m.told = call.told
  BY <1>2, <1>5, <1>7 DEF Call, Waiting
<1>. HIDE DEF m
<1>10. Fits(m)
  BY <1>2, <1>3, <1>5, <1>8, <1>9 DEF Fits, Operations
<1>11. Continues(p, m) /\ SameFlags(call, m)
  BY <1>9, <1>10 DEF Continues, SameFlags
<1>12. m.op = "rename" =>
         \E k \in Owned(store, m.char) : k.id = m.id /\ k.messages = m.messages
  BY <1>6, <1>9 DEF text
<1>. QED BY <1>3, <1>4, <1>5, <1>9, <1>11, <1>12

LEMMA SaveMoves ==
  ASSUME SafeInv, NEW p \in Callers, SaveStep(p)
  PROVE  \/ Reject(p) /\ store' = store
         \/ \E m : /\ Continues(p, m) /\ SameFlags(calls[p], m)
                   /\ m.op \in {"create", "update", "rename"}
                   /\ m.pc = IF m.op = "create" THEN "activate" ELSE "done"
                   /\ m.active = m.id /\ m.messages = calls[p].messages
                   /\ SavedConversation(m) \in Conversation
                   /\ SavedConversation(m).id = m.id
                   /\ m.id \in Scope(m.char) /\ InScope(store, m.char, m.id)
                   /\ store' = Save(store, m.char, SavedConversation(m))
<1>. DEFINE call == calls[p]
            c == call.char
            next == IF call.op = "create" THEN "activate" ELSE "done"
            m == [call EXCEPT !.pc = next, !.active = call.id]
<1>1. /\ call # Nobody /\ call.pc = "save"
      /\ \/ Reject(p) /\ store' = store
         \/ /\ InScope(store, c, call.id)
            /\ store' = Save(store, c, SavedConversation(call))
            /\ calls' = [calls EXCEPT ![p] = m] /\ before' = before
  BY DEF SaveStep, At
<1>2. /\ call \in Call /\ Fits(call) /\ c \in Characters
      /\ store \in Store /\ Sound(store)
      /\ call.op # "getActive" => call.id \in Ids
  BY <1>1, CallFacts
<1>. SUFFICES ASSUME /\ InScope(store, c, call.id)
                     /\ store' = Save(store, c, SavedConversation(call))
                     /\ calls' = [calls EXCEPT ![p] = m] /\ before' = before
              PROVE  \E x : /\ Continues(p, x) /\ SameFlags(calls[p], x)
                            /\ x.op \in {"create", "update", "rename"}
                            /\ x.pc = IF x.op = "create" THEN "activate" ELSE "done"
                            /\ x.active = x.id /\ x.messages = calls[p].messages
                            /\ SavedConversation(x) \in Conversation
                            /\ SavedConversation(x).id = x.id
                            /\ x.id \in Scope(x.char) /\ InScope(store, x.char, x.id)
                            /\ store' = Save(store, x.char, SavedConversation(x))
  BY <1>1
<1>3. call.op \in {"create", "update", "rename"} /\ call.id \in Ids
      /\ call.id \in Scope(c)
  BY <1>1, <1>2 DEF Fits
<1>4. /\ m \in Call /\ m.op = call.op /\ m.char = c /\ m.id = call.id
      /\ m.pc = next /\ m.active = call.id /\ m.messages = call.messages
      /\ m.announces = call.announces /\ m.told = call.told
  BY <1>2, <1>3 DEF Call, Waiting
<1>. HIDE DEF m
<1>5. Fits(m)
  BY <1>2, <1>3, <1>4 DEF Fits
<1>6. Continues(p, m) /\ SameFlags(call, m)
  BY <1>4, <1>5 DEF Continues, SameFlags
<1>7. SavedConversation(m) = SavedConversation(call)
  BY <1>4 DEF SavedConversation
<1>8. SavedConversation(m) \in Conversation /\ SavedConversation(m).id = m.id
  <2>1. m.messages \in Texts /\ m.id \in Ids
    BY <1>3, <1>4 DEF Call
  <2>. QED BY <2>1 DEF SavedConversation, NewConversation, Conversation
<1>. QED BY <1>3, <1>4, <1>6, <1>7, <1>8

LEMMA ReadActiveMoves ==
  ASSUME SafeInv, NEW p \in Callers, ReadActive(p)
  PROVE  /\ store' = store
         /\ \E m : LET active == store.active[m.char]
                   IN /\ Continues(p, m) /\ SameFlags(calls[p], m)
                      /\ m.op \in {"delete", "setActive", "getActive"}
                      /\ m.pc = IF m.op = "delete" THEN "remove"
                                ELSE IF m.op = "setActive"
                                     THEN IF active = m.id THEN "done" ELSE "activate"
                                ELSE IF active = NoId THEN "list" ELSE "done"
                      /\ m.active = IF m.op = "setActive" THEN m.id ELSE active
<1>. DEFINE call == calls[p]
            c == call.char
            active == store.active[c]
            next == IF call.op = "delete" THEN "remove"
                    ELSE IF call.op = "setActive"
                         THEN IF active = call.id THEN "done" ELSE "activate"
                    ELSE IF active = NoId THEN "list" ELSE "done"
            m == [call EXCEPT !.pc = next,
                    !.active = IF call.op = "setActive" THEN call.id ELSE active]
<1>1. call # Nobody /\ call.pc = "readActive" /\ store' = store /\ before' = before
  BY DEF ReadActive, At
<1>2. /\ call \in Call /\ Fits(call) /\ c \in Characters
      /\ store \in Store /\ Sound(store) /\ SoundFor(store, c)
      /\ call.op # "getActive" => call.id \in Ids
  BY <1>1, CallFacts
<1>3. call.op \in {"delete", "setActive", "getActive"}
  BY <1>1, <1>2 DEF Fits
<1>4. GetActive(store, c) = active
  BY <1>2, GetActiveFacts
<1>5. calls' = [calls EXCEPT ![p] = m]
  BY <1>3, <1>4 DEF ReadActive
<1>6. active \in Ids \cup {NoId}
  BY <1>2, OwnedFacts
<1>. HIDE DEF active
<1>7. /\ m \in Call /\ m.op = call.op /\ m.char = c /\ m.id = call.id
      /\ m.pc = next
      /\ m.active = (IF call.op = "setActive" THEN call.id ELSE active)
      /\ m.announces = call.announces /\ m.told = call.told
  BY <1>2, <1>6 DEF Call, Waiting
<1>. HIDE DEF m
<1>8. Fits(m)
  BY <1>1, <1>2, <1>3, <1>7 DEF Fits
<1>9. Continues(p, m) /\ SameFlags(call, m)
  BY <1>1, <1>5, <1>7, <1>8 DEF Continues, SameFlags
<1>. QED BY <1>1, <1>3, <1>7, <1>9 DEF active

LEMMA RemoveMoves ==
  ASSUME SafeInv, NEW p \in Callers, Remove(p)
  PROVE  \/ Reject(p) /\ store' = store
         \/ \E m : /\ Continues(p, m) /\ SameFlags(calls[p], m)
                   /\ m.op = "delete" /\ m.pc = "list" /\ m.active = calls[p].active
                   /\ store' = Delete(store, m.char, m.id)
<1>. DEFINE call == calls[p]
            c == call.char
            m == [call EXCEPT !.pc = "list"]
<1>1. /\ call # Nobody /\ call.pc = "remove"
      /\ \/ Reject(p) /\ store' = store
         \/ /\ store' = Delete(store, c, call.id)
            /\ calls' = [calls EXCEPT ![p] = m] /\ before' = before
  BY DEF Remove, At, Goto
<1>2. call \in Call /\ Fits(call)
  BY <1>1, CallFacts
<1>3. /\ m \in Call /\ m.op = call.op /\ m.char = c /\ m.id = call.id
      /\ m.pc = "list" /\ m.active = call.active
      /\ m.announces = call.announces /\ m.told = call.told
  BY <1>2 DEF Call, Waiting
<1>. HIDE DEF m
<1>4. call.op = "delete" /\ call.id \in Scope(c) /\ call.id # NoId
  BY <1>1, <1>2 DEF Fits
<1>5. Fits(m)
  BY <1>3, <1>4 DEF Fits
<1>. QED BY <1>1, <1>3, <1>4, <1>5 DEF Continues, SameFlags

LEMMA ListMoves ==
  ASSUME SafeInv, NEW p \in Callers, ListStep(p)
  PROVE  /\ store' = store
         /\ \E m : LET kept == IF m.op = "delete" THEN Survivor(calls[p]) ELSE NoId
                       known == kept # NoId /\ Owns(store, m.char, kept)
                       first == FirstListed(store, m.char)
                   IN /\ Continues(p, m) /\ SameFlags(calls[p], m)
                      /\ m.op \in {"delete", "getActive"}
                      /\ m.pc = IF known THEN "done"
                                ELSE IF first # NoId THEN "activate" ELSE "getDefault"
                      /\ m.active = IF known THEN kept ELSE first
<1>. DEFINE call == calls[p]
            c == call.char
            kept == IF call.op = "delete" THEN Survivor(call) ELSE NoId
            known == kept # NoId /\ Owns(store, c, kept)
            first == FirstListed(store, c)
            next == IF known THEN "done"
                    ELSE IF first # NoId THEN "activate" ELSE "getDefault"
            m == [call EXCEPT !.pc = next, !.active = IF known THEN kept ELSE first]
<1>1. /\ call # Nobody /\ call.pc = "list" /\ store' = store /\ before' = before
      /\ calls' = [calls EXCEPT ![p] = m]
  BY DEF ListStep, At
<1>2. /\ call \in Call /\ Fits(call) /\ c \in Characters /\ store \in Store
  BY <1>1, CallFacts
<1>3. call.op \in {"delete", "getActive"}
  BY <1>1, <1>2 DEF Fits
<1>4. first \in Ids \cup {NoId} /\ kept \in Ids \cup {NoId}
  BY <1>2, FirstListedFacts DEF Survivor, Call
<1>. HIDE DEF first, kept, known
<1>5. /\ m \in Call /\ m.op = call.op /\ m.char = c /\ m.id = call.id
      /\ m.pc = next /\ m.active = (IF known THEN kept ELSE first)
      /\ m.announces = call.announces /\ m.told = call.told
  BY <1>2, <1>4 DEF Call, Waiting
<1>. HIDE DEF m
<1>6. call.op = "delete" => call.id \in Scope(c) /\ call.id # NoId
  BY <1>1, <1>2 DEF Fits
<1>7. next \in {"done", "activate", "getDefault"}
  OBVIOUS
<1>. HIDE DEF next
<1>8. Fits(m)
  BY <1>2, <1>3, <1>5, <1>6, <1>7 DEF Fits
<1>9. Continues(p, m) /\ SameFlags(call, m)
  BY <1>1, <1>5, <1>8 DEF Continues, SameFlags
<1>. QED BY <1>1, <1>3, <1>5, <1>9 DEF next, known, kept, first

LEMMA GetDefaultMoves ==
  ASSUME SafeInv, NEW p \in Callers, GetDefault(p)
  PROVE  /\ store' = store
         /\ Reject(p) \/
            \E m : /\ Continues(p, m) /\ m.told = calls[p].told
                   /\ m.op \in {"delete", "getActive"} /\ m.active = m.char
                   /\ m.pc = IF Owns(store, m.char, m.char)
                             THEN "activate" ELSE "saveDefault"
                   /\ m.announces = ~Owns(store, m.char, m.char)
<1>. DEFINE call == calls[p]
            c == call.char
            there == Owns(store, c, c)
            next == IF there THEN "activate" ELSE "saveDefault"
            m == [call EXCEPT !.pc = next, !.active = c, !.announces = ~there]
<1>1. call # Nobody /\ call.pc = "getDefault" /\ store' = store
  BY DEF GetDefault, At
<1>2. /\ call \in Call /\ Fits(call) /\ c \in Characters
      /\ store \in Store /\ Sound(store)
  BY <1>1, CallFacts
<1>3. InScope(store, c, c)
  BY <1>2, DefaultInScope
<1>4. Has(store, c) <=> there
  BY <1>2, <1>3 DEF Has, InScope
<1>5. there \in BOOLEAN
  BY DEF Owns
<1>6. Has(store, c) = there
  BY <1>4, <1>5 DEF Has
<1>7. calls' = [calls EXCEPT ![p] = m] /\ before' = before
  <2>. HIDE DEF there
  <2>. QED BY <1>3, <1>6 DEF GetDefault
<1>8. call.op \in {"delete", "getActive"}
  BY <1>1, <1>2 DEF Fits
<1>9. /\ m \in Call /\ m.op = call.op /\ m.char = c /\ m.id = call.id
      /\ m.pc = next /\ m.active = c /\ m.announces = ~there
      /\ m.told = call.told
  <2>. HIDE DEF there
  <2>. QED BY <1>2, <1>5 DEF Call, Waiting, Ids
<1>. HIDE DEF m
<1>10. call.op = "delete" => call.id \in Scope(c) /\ call.id # NoId
  BY <1>1, <1>2 DEF Fits
<1>11. next \in {"activate", "saveDefault"}
  OBVIOUS
<1>. HIDE DEF next
<1>12. Fits(m)
  BY <1>2, <1>8, <1>9, <1>10, <1>11 DEF Fits
<1>13. Continues(p, m)
  BY <1>7, <1>9, <1>12 DEF Continues
<1>. QED BY <1>1, <1>8, <1>9, <1>13 DEF next

LEMMA SaveDefaultMoves ==
  ASSUME SafeInv, NEW p \in Callers, SaveDefault(p)
  PROVE  \/ Reject(p) /\ store' = store
         \/ \E m : /\ Continues(p, m) /\ SameFlags(calls[p], m)
                   /\ m.op \in {"delete", "getActive"} /\ m.pc = "activate"
                   /\ m.active = calls[p].active
                   /\ InScope(store, m.char, m.char)
                   /\ store' = Save(store, m.char, NewConversation(m.char, FALSE))
<1>. DEFINE call == calls[p]
            c == call.char
            m == [call EXCEPT !.pc = "activate"]
<1>1. /\ call # Nobody /\ call.pc = "saveDefault"
      /\ \/ Reject(p) /\ store' = store
         \/ /\ InScope(store, c, c)
            /\ store' = Save(store, c, NewConversation(c, FALSE))
            /\ calls' = [calls EXCEPT ![p] = m] /\ before' = before
  BY DEF SaveDefault, At, Goto
<1>2. call \in Call /\ Fits(call)
  BY <1>1, CallFacts
<1>3. call.op \in {"delete", "getActive"}
  BY <1>1, <1>2 DEF Fits
<1>4. /\ m \in Call /\ m.op = call.op /\ m.char = c /\ m.id = call.id
      /\ m.pc = "activate" /\ m.active = call.active
      /\ m.announces = call.announces /\ m.told = call.told
  BY <1>2 DEF Call, Waiting
<1>. HIDE DEF m
<1>5. call.op = "delete" => call.id \in Scope(c) /\ call.id # NoId
  BY <1>1, <1>2 DEF Fits
<1>6. Fits(m)
  BY <1>2, <1>3, <1>4, <1>5 DEF Fits
<1>. QED BY <1>1, <1>3, <1>4, <1>6 DEF Continues, SameFlags

LEMMA ActivateMoves ==
  ASSUME SafeInv, NEW p \in Callers, Activate(p)
  PROVE  \/ Reject(p) /\ store' = store
         \/ \E m : /\ Continues(p, m) /\ SameFlags(calls[p], m)
                   /\ calls[p].pc = "activate"
                   /\ m.pc = IF m.announces THEN "announce" ELSE "done"
                   /\ m.active = calls[p].active /\ m.messages = calls[p].messages
                   /\ Owns(store, m.char, m.active)
                   /\ store' = SetActive(store, m.char, m.active)
<1>. DEFINE call == calls[p]
            c == call.char
            next == IF call.announces THEN "announce" ELSE "done"
            m == [call EXCEPT !.pc = next]
<1>1. /\ call # Nobody /\ call.pc = "activate"
      /\ \/ Reject(p) /\ store' = store
         \/ /\ Owns(store, c, call.active)
            /\ store' = SetActive(store, c, call.active)
            /\ calls' = [calls EXCEPT ![p] = m] /\ before' = before
  BY DEF Activate, At, Goto
<1>2. call \in Call /\ Fits(call)
  BY <1>1, CallFacts
<1>3. /\ m \in Call /\ m.op = call.op /\ m.char = c /\ m.id = call.id
      /\ m.pc = next /\ m.active = call.active /\ m.messages = call.messages
      /\ m.announces = call.announces /\ m.told = call.told
  BY <1>2 DEF Call, Waiting
<1>. HIDE DEF m
<1>4. Fits(m)
  BY <1>1, <1>2, <1>3 DEF Fits
<1>. QED BY <1>1, <1>3, <1>4 DEF Continues, SameFlags

LEMMA AnnounceMoves ==
  ASSUME SafeInv, NEW p \in Callers, Announce(p)
  PROVE  /\ store' = store /\ calls[p].pc = "announce"
         /\ \E m : /\ Continues(p, m) /\ m.pc = "done" /\ m.told = TRUE
                   /\ m.announces = calls[p].announces
                   /\ m.active = calls[p].active /\ m.messages = calls[p].messages
<1>. DEFINE call == calls[p]
            c == call.char
            m == [call EXCEPT !.pc = "done", !.told = TRUE]
<1>1. /\ call # Nobody /\ call.pc = "announce" /\ store' = store
      /\ calls' = [calls EXCEPT ![p] = m] /\ before' = before
  BY DEF Announce, At
<1>2. call \in Call /\ Fits(call)
  BY <1>1, CallFacts
<1>3. /\ m \in Call /\ m.op = call.op /\ m.char = c /\ m.id = call.id
      /\ m.pc = "done" /\ m.active = call.active /\ m.messages = call.messages
      /\ m.told = TRUE /\ m.announces = call.announces
  BY <1>2 DEF Call
<1>. HIDE DEF m
<1>4. Fits(m)
  BY <1>1, <1>2, <1>3 DEF Fits
<1>. QED BY <1>1, <1>3, <1>4 DEF Continues

-----------------------------------------------------------------------------
(* The invariant of the store.                                             *)

\* What a call of a character c has done to the store, without losing a
\* conversation but the one it deletes.
StoreStep(p, c) ==
  /\ store' \in Store /\ Sound(store') /\ OthersAlike(store, store', c)
  /\ \A id : Owns(store, c, id) =>
       Owns(store', c, id) \/ (At(p, "remove") /\ calls[p].id = id)
  /\ Owned(store, c) # {} => Owned(store', c) # {}

LEMMA SaveIsStoreStep ==
  ASSUME store \in Store, Sound(store), NEW p, NEW c \in Characters,
         NEW k \in Conversation, k.id \in Scope(c), InScope(store, c, k.id),
         store' = Save(store, c, k)
  PROVE  StoreStep(p, c)
<1>1. /\ store' \in Store /\ Sound(store') /\ OthersAlike(store, store', c)
      /\ Owned(store', c) = Others(Owned(store, c), k.id) \cup {k}
  BY SaveFacts
<1>2. ASSUME NEW id, Owns(store, c, id) PROVE Owns(store', c, id)
  <2>1. PICK l \in Owned(store, c) : l.id = id
    BY <1>2 DEF Owns
  <2>2. l \in Owned(store', c) \/ l.id = k.id
    BY <1>1 DEF Others
  <2>. QED BY <1>1, <2>1, <2>2 DEF Owns
<1>. QED BY <1>1, <1>2 DEF StoreStep

LEMMA CommandFacts ==
  ASSUME SafeInv, NEW p \in Callers, Command(p)
  PROVE  /\ calls[p] # Nobody /\ StoreStep(p, calls[p].char)
         /\ Reject(p) \/ \E m : Continues(p, m)
<1>1. calls[p] # Nobody
  BY DEF Command, Get, SaveStep, ReadActive, Remove, ListStep, GetDefault,
         SaveDefault, Activate, Announce, Fail, Return, At
<1>. DEFINE c == calls[p].char
<1>2. c \in Characters /\ store \in Store /\ Sound(store)
  BY <1>1, CallFacts
<1>3. store' = store => StoreStep(p, c)
  BY <1>2 DEF StoreStep, OthersAlike
<1>4. ASSUME NEW m, Continues(p, m) PROVE m.char = c /\ m.id = calls[p].id
  BY <1>4 DEF Continues
<1>. HIDE DEF c
<1>5. CASE Get(p)
  BY <1>1, <1>3, <1>5, GetMoves DEF c
<1>6. CASE SaveStep(p)
  <2>1. CASE Reject(p) /\ store' = store
    BY <1>1, <1>3, <2>1 DEF c
  <2>2. ASSUME NEW m, Continues(p, m), SavedConversation(m) \in Conversation,
               SavedConversation(m).id = m.id, m.id \in Scope(m.char),
               InScope(store, m.char, m.id),
               store' = Save(store, m.char, SavedConversation(m))
        PROVE  StoreStep(p, c)
    BY <1>2, <1>4, <2>2, SaveIsStoreStep
  <2>. QED BY <1>1, <1>6, <2>1, <2>2, SaveMoves DEF c
<1>7. CASE ReadActive(p)
  BY <1>1, <1>3, <1>7, ReadActiveMoves DEF c
<1>8. CASE Remove(p)
  <2>1. CASE Reject(p) /\ store' = store
    BY <1>1, <1>3, <2>1 DEF c
  <2>2. ASSUME NEW m, Continues(p, m), store' = Delete(store, m.char, m.id)
        PROVE  StoreStep(p, c)
    <3>. DEFINE left == Others(Owned(store, c), m.id)
                fresh == NewConversation(c, TauriHost)
    <3>1. /\ store' \in Store /\ Sound(store') /\ OthersAlike(store, store', c)
          /\ Owns(store, c, m.id) /\ left = {} => Owned(store', c) = {fresh}
          /\ ~Owns(store, c, m.id) \/ left # {} => Owned(store', c) = left
      <4>1. store' = Delete(store, c, m.id)
        BY <1>4, <2>2
      <4>. QED BY <1>2, <4>1, DeleteFacts
    <3>2. left \subseteq Owned(store', c)
      BY <3>1
    <3>3. ASSUME NEW id, Owns(store, c, id), id # m.id PROVE Owns(store', c, id)
      <4>1. PICK l \in Owned(store, c) : l.id = id
        BY <3>3 DEF Owns
      <4>2. l \in left
        BY <3>3, <4>1 DEF Others
      <4>. QED BY <3>2, <4>1, <4>2 DEF Owns
    <3>4. ASSUME Owned(store, c) # {} PROVE Owned(store', c) # {}
      <4>1. left # {} \/ Owns(store, c, m.id)
        BY <3>4 DEF Others, Owns
      <4>. QED BY <3>1, <4>1
    <3>5. At(p, "remove") /\ m.id = calls[p].id
      BY <1>4, <1>8, <2>2 DEF Remove
    <3>. QED BY <3>1, <3>3, <3>4, <3>5 DEF StoreStep
  <2>. QED BY <1>1, <1>8, <2>1, <2>2, RemoveMoves DEF c
<1>9. CASE ListStep(p)
  BY <1>1, <1>3, <1>9, ListMoves DEF c
<1>10. CASE GetDefault(p)
  BY <1>1, <1>3, <1>10, GetDefaultMoves DEF c
<1>11. CASE SaveDefault(p)
  <2>1. CASE Reject(p) /\ store' = store
    BY <1>1, <1>3, <2>1 DEF c
  <2>2. ASSUME NEW m, Continues(p, m), InScope(store, m.char, m.char),
               store' = Save(store, m.char, NewConversation(m.char, FALSE))
        PROVE  StoreStep(p, c)
    <3>1. NewConversation(c, FALSE) \in Conversation /\ NewConversation(c, FALSE).id = c
      BY <1>2, TextsAssumption DEF NewConversation, Conversation, Ids
    <3>. QED BY <1>2, <1>4, <2>2, <3>1, SaveIsStoreStep DEF Scope
  <2>. QED BY <1>1, <1>11, <2>1, <2>2, SaveDefaultMoves DEF c
<1>12. CASE Activate(p)
  <2>1. CASE Reject(p) /\ store' = store
    BY <1>1, <1>3, <2>1 DEF c
  <2>2. ASSUME NEW m, Continues(p, m), Owns(store, m.char, m.active),
               store' = SetActive(store, m.char, m.active)
        PROVE  StoreStep(p, c)
    <3>1. /\ store' \in Store /\ Sound(store') /\ OthersAlike(store, store', c)
          /\ Owned(store', c) = Owned(store, c)
      BY <1>2, <1>4, <2>2, SetActiveFacts
    <3>. QED BY <3>1 DEF StoreStep, Owns
  <2>. QED BY <1>1, <1>12, <2>1, <2>2, ActivateMoves DEF c
<1>13. CASE Announce(p)
  BY <1>1, <1>3, <1>13, AnnounceMoves DEF c
<1>14. CASE Fail(p) \/ Return(p)
  BY <1>1, <1>3, <1>14 DEF Fail, Return, c
<1>. QED BY <1>5, <1>6, <1>7, <1>8, <1>9, <1>10, <1>11, <1>12, <1>13, <1>14
         DEF Command

\* What a call is when it begins.
Fresh(call) ==
  /\ call \in Call /\ Fits(call)
  /\ call.pc = IF call.op = "getActive" THEN "readActive" ELSE "get"
  /\ call.op \in {"create", "delete", "setActive"} => call.announces

LEMMA NextCases ==
  ASSUME Next
  PROVE  \E p \in Callers : \/ \E call : Fresh(call) /\ Begin(p, call)
                            \/ Command(p)
<1>1. PICK p \in Callers :
        \/ \E c \in Characters :
             \/ GetActiveConversation(p, c)
             \/ \E id \in Ids :
                  \/ id \in Created \cup {c} /\ Create(p, c, id)
                  \/ \E messages \in Texts : Update(p, c, id, messages)
                  \/ Rename(p, c, id)
                  \/ DeleteConversation(p, c, id)
                  \/ SetActiveConversation(p, c, id)
        \/ Command(p)
  BY DEF Next
<1>2. \A id \in Ids : id # NoId
  BY IdsAssumption
<1>3. ASSUME NEW c \in Characters, GetActiveConversation(p, c)
      PROVE  \E call : Fresh(call) /\ Begin(p, call)
  <2>. DEFINE call == [op |-> "getActive", char |-> c, id |-> NoId,
                       messages |-> NoText, pc |-> "readActive", active |-> NoId,
                       announces |-> FALSE, told |-> FALSE]
  <2>1. Fresh(call)
    BY TextsAssumption DEF Fresh, Call, Fits, Operations, Waiting
  <2>. QED BY <1>3, <2>1 DEF GetActiveConversation
<1>4. ASSUME NEW c \in Characters, NEW op \in Operations \ {"getActive"},
             NEW id \in Ids, op = "create" => id \in Created \cup {c},
             NEW messages \in Texts, NEW announces \in BOOLEAN,
             op \in {"create", "delete", "setActive"} => announces
      PROVE  Fresh([op |-> op, char |-> c, id |-> id, messages |-> messages,
                    pc |-> "get", active |-> NoId, announces |-> announces,
                    told |-> FALSE])
  <2>. DEFINE call == [op |-> op, char |-> c, id |-> id, messages |-> messages,
                       pc |-> "get", active |-> NoId, announces |-> announces,
                       told |-> FALSE]
  <2>1. /\ call \in Call /\ call.op = op /\ call.char = c /\ call.id = id
        /\ call.pc = "get" /\ call.announces = announces
    BY DEF Call, Waiting
  <2>. HIDE DEF call
  <2>2. Fits(call)
    BY <1>2, <1>4, <2>1 DEF Fits, Scope
  <2>3. Fresh(call)
    BY <1>4, <2>1, <2>2 DEF Fresh
  <2>. QED BY <2>3 DEF call
<1>5. ASSUME NEW c \in Characters, NEW id \in Ids, id \in Created \cup {c},
             Create(p, c, id)
      PROVE  \E call : Fresh(call) /\ Begin(p, call)
  BY <1>4, <1>5, TextsAssumption DEF Create, Operations
<1>6. ASSUME NEW c \in Characters, NEW id \in Ids, NEW messages \in Texts,
             Update(p, c, id, messages)
      PROVE  \E call : Fresh(call) /\ Begin(p, call)
  BY <1>4, <1>6 DEF Update, Operations
<1>7. ASSUME NEW c \in Characters, NEW id \in Ids, Rename(p, c, id)
      PROVE  \E call : Fresh(call) /\ Begin(p, call)
  BY <1>4, <1>7, TextsAssumption DEF Rename, Operations
<1>8. ASSUME NEW c \in Characters, NEW id \in Ids, DeleteConversation(p, c, id)
      PROVE  \E call : Fresh(call) /\ Begin(p, call)
  BY <1>4, <1>8, TextsAssumption DEF DeleteConversation, Operations
<1>9. ASSUME NEW c \in Characters, NEW id \in Ids, SetActiveConversation(p, c, id)
      PROVE  \E call : Fresh(call) /\ Begin(p, call)
  BY <1>4, <1>9, TextsAssumption DEF SetActiveConversation, Operations
<1>. QED BY <1>1, <1>3, <1>5, <1>6, <1>7, <1>8, <1>9

LEMMA SafeInvInitially == Init => SafeInv
<1>. SUFFICES ASSUME Init PROVE SafeInv
  OBVIOUS
<1>1. store = EmptyStore /\ calls = [p \in Callers |-> Nobody]
      /\ before = [p \in Callers |-> Nobody]
  BY DEF Init
<1>2. \A c \in Characters : store.conversations[c] = <<>> /\ store.active[c] = NoId
  BY <1>1 DEF EmptyStore
<1>3. store \in Store
  <2>1. <<>> \in Seq(Conversation)
    BY EmptySeq
  <2>. QED BY <1>1, <2>1 DEF EmptyStore, Store
<1>4. \A c \in Characters : Owned(store, c) = {}
  BY <1>2, <1>3, OwnedFacts
<1>5. \A c \in Characters : SoundFor(store, c)
  <2>1. Distinct(<<>>)
    BY DEF Distinct
  <2>. QED BY <1>2, <1>4, <2>1 DEF SoundFor
<1>6. Sound(store)
  BY <1>4, <1>5 DEF Sound
<1>7. TypeOK
  BY <1>1, <1>3 DEF TypeOK
<1>8. CallsFit
  BY <1>1 DEF CallsFit, Idle
<1>. QED BY <1>6, <1>7, <1>8 DEF SafeInv

\* One caller's call is another one afterwards.
LEMMA CallsAfter ==
  ASSUME TypeOK, CallsFit, NEW p \in Callers, NEW m,
         m = Nobody \/ (m \in Call /\ Fits(m)),
         calls' = [calls EXCEPT ![p] = m]
  PROVE  calls' \in [Callers -> Call \cup {Nobody}] /\ CallsFit'
BY DEF TypeOK, CallsFit, Idle

LEMMA SnapshotFacts ==
  ASSUME store \in Store, NEW c \in Characters
  PROVE  SnapshotOf(c) \in Snapshot
BY OwnedFacts DEF SnapshotOf, Snapshot

LEMMA SafeInvStep == SafeInv /\ [Next]_vars => SafeInv'
<1>. SUFFICES ASSUME SafeInv, [Next]_vars PROVE SafeInv'
  OBVIOUS
<1>1. TypeOK /\ Sound(store) /\ CallsFit
  BY DEF SafeInv
<1>2. CASE Next
  <2>1. PICK p \in Callers : \/ \E call : Fresh(call) /\ Begin(p, call)
                             \/ Command(p)
    BY <1>2, NextCases
  <2>2. ASSUME NEW call, Fresh(call), Begin(p, call) PROVE SafeInv'
    <3>1. /\ call \in Call /\ Fits(call) /\ call.char \in Characters
      BY <2>2 DEF Fresh, Call
    <3>2. store' = store /\ calls' = [calls EXCEPT ![p] = call]
      BY <2>2 DEF Begin
    <3>3. before' \in [Callers -> Snapshot \cup {Nobody}]
      <4>1. SnapshotOf(call.char) \in Snapshot
        BY <1>1, <3>1, SnapshotFacts DEF TypeOK
      <4>. QED BY <1>1, <2>2, <4>1 DEF TypeOK, Begin
    <3>4. calls' \in [Callers -> Call \cup {Nobody}] /\ CallsFit'
      BY <1>1, <3>1, <3>2, CallsAfter
    <3>. QED BY <1>1, <3>2, <3>3, <3>4 DEF SafeInv, TypeOK
  <2>3. ASSUME Command(p) PROVE SafeInv'
    <3>1. store' \in Store /\ Sound(store') /\ (Reject(p) \/ \E m : Continues(p, m))
      BY <2>3, CommandFacts DEF StoreStep
    <3>2. CASE Reject(p)
      <4>1. calls' \in [Callers -> Call \cup {Nobody}] /\ CallsFit'
        BY <1>1, <3>2, CallsAfter DEF Reject
      <4>2. before' \in [Callers -> Snapshot \cup {Nobody}]
        BY <1>1, <3>2 DEF Reject, TypeOK
      <4>. QED BY <3>1, <4>1, <4>2 DEF SafeInv, TypeOK
    <3>3. ASSUME NEW m, Continues(p, m) PROVE SafeInv'
      <4>1. calls' \in [Callers -> Call \cup {Nobody}] /\ CallsFit'
        BY <1>1, <3>3, CallsAfter DEF Continues
      <4>2. before' = before
        BY <3>3 DEF Continues
      <4>. QED BY <1>1, <3>1, <4>1, <4>2 DEF SafeInv, TypeOK
    <3>. QED BY <3>1, <3>2, <3>3
  <2>. QED BY <2>1, <2>2, <2>3
<1>3. CASE UNCHANGED vars
  <2>1. store' = store /\ calls' = calls /\ before' = before
    BY <1>3 DEF vars
  <2>. QED BY <1>1, <2>1 DEF SafeInv, TypeOK, CallsFit, Idle
<1>. QED BY <1>2, <1>3

\* Whatever calls overlap and fail, the store is sound and every call is at
\* a command of its operation.
THEOREM StoreInvariance == Spec => []SafeInv
<1>1. Init => SafeInv
  BY SafeInvInitially
<1>2. SafeInv /\ [Next]_vars => SafeInv'
  BY SafeInvStep
<1>. QED BY <1>1, <1>2, PTL DEF Spec

\* Whatever calls overlap and whichever of them fail half way, the store
\* passes the check that the host makes on every load and every save: no
\* identifier twice, and every character with conversations has an active
\* one of its own.
THEOREM StoreLoadableHolds == Spec => []StoreLoadable
<1>1. SafeInv => StoreLoadable
  BY DEF SafeInv, Sound, SoundFor, Distinct, StoreLoadable
<1>. QED BY <1>1, StoreInvariance, PTL

\* What a step may do to the conversations.
LEMMA StepKeeps ==
  ASSUME SafeInv, [Next]_vars
  PROVE  \/ store' = store
         \/ \E p \in Callers : calls[p].char \in Characters
                               /\ StoreStep(p, calls[p].char)
<1>1. CASE Next
  <2>1. PICK p \in Callers : \/ \E call : Fresh(call) /\ Begin(p, call)
                             \/ Command(p)
    BY <1>1, NextCases
  <2>2. CASE \E call : Fresh(call) /\ Begin(p, call)
    BY <2>2 DEF Begin
  <2>3. CASE Command(p)
    <3>1. calls[p] # Nobody /\ StoreStep(p, calls[p].char)
      BY <2>3, CommandFacts
    <3>. QED BY <3>1, CallFacts
  <2>. QED BY <2>1, <2>2, <2>3
<1>2. CASE UNCHANGED vars
  BY <1>2 DEF vars
<1>. QED BY <1>1, <1>2

\* A conversation that has been saved is there until a deletion of that very
\* conversation, whatever other calls do and however a call ends.
THEOREM KeptUntilDeletedHolds == Spec => KeptUntilDeleted
<1>. DEFINE Kept == \A id \in Ids :
               Has(store, id) /\ ~Has(store', id) =>
                 \E p \in Callers : At(p, "remove") /\ calls[p].id = id
<1>1. SafeInv /\ [Next]_vars => Kept
  <2>. SUFFICES ASSUME SafeInv, [Next]_vars, NEW id \in Ids,
                       Has(store, id), ~Has(store', id)
                PROVE  \E p \in Callers : At(p, "remove") /\ calls[p].id = id
    OBVIOUS
  <2>1. PICK d \in Characters : Owns(store, d, id) /\ ~Owns(store', d, id)
    BY DEF Has
  <2>2. store' # store
    BY <2>1
  <2>3. PICK p \in Callers : StoreStep(p, calls[p].char)
    BY <2>2, StepKeeps
  <2>4. d = calls[p].char
    BY <2>1, <2>3 DEF StoreStep, OthersAlike, Owns, Owned
  <2>. QED BY <2>1, <2>3, <2>4 DEF StoreStep
<1>2. Kept => [Kept]_vars
  OBVIOUS
<1>. HIDE DEF Kept
<1>3. SafeInv /\ [Next]_vars => [Kept]_vars
  BY <1>1, <1>2
<1>4. Spec => [][Kept]_vars
  BY <1>3, StoreInvariance, PTL DEF Spec
<1>. QED BY <1>4 DEF KeptUntilDeleted, Kept

\* Deleting never leaves a character without a conversation, not even
\* between two commands or when the deletion fails half way.
THEOREM NeverLeftEmptyHolds == Spec => NeverLeftEmpty
<1>. DEFINE Filled == \A c \in Characters :
               Owned(store, c) # {} => Owned(store', c) # {}
<1>1. SafeInv /\ [Next]_vars => Filled
  <2>. SUFFICES ASSUME SafeInv, [Next]_vars, NEW c \in Characters,
                       Owned(store, c) # {}
                PROVE  Owned(store', c) # {}
    OBVIOUS
  <2>1. CASE store' = store
    BY <2>1
  <2>2. ASSUME NEW p \in Callers, StoreStep(p, calls[p].char)
        PROVE  Owned(store', c) # {}
    BY <2>2 DEF StoreStep, OthersAlike, Owned
  <2>. QED BY <2>1, <2>2, StepKeeps
<1>. HIDE DEF Filled
<1>2. Spec => [][Filled]_vars
  BY <1>1, StoreInvariance, PTL DEF Spec
<1>. QED BY <1>2 DEF NeverLeftEmpty, Filled

-----------------------------------------------------------------------------
(* A call that is alone with its character.                                *)

\* A call with a snapshot is the only one about its character.
AloneWith ==
  \A p \in Callers : before[p] # Nobody =>
    /\ ~Idle(p)
    /\ \A q \in Callers \ {p} : ~Idle(q) => calls[q].char # calls[p].char

\* A snapshot is one of a sound store.
SoundSnapshot(was) ==
  IF was.owned = {} THEN was.active = NoId ELSE Contains(was.owned, was.active)

\* What a deletion has made of the conversations and of the active one.
AfterDelete(call, was, now, active) ==
  LET rest == Others(was.owned, call.id) IN
    /\ Contains(was.owned, call.id)
    /\ rest # {} => now = rest
    /\ rest = {} => now = {NewConversation(call.char, TauriHost)}
    /\ was.active # call.id => active = was.active

\* Delivers, for the conversations and the active one given; a deletion even
\* promises which conversation it leaves.
Promised(call, was, now, active) ==
  /\ call.op = "create" =>
       now = was.owned \cup {SavedConversation(call)} /\ active = call.id
  /\ call.op \in {"update", "rename"} =>
       /\ now = Others(was.owned, call.id) \cup {SavedConversation(call)}
       /\ active = was.active
  /\ call.op = "rename" =>
       \E k \in was.owned : k.id = call.id /\ k.messages = call.messages
  /\ call.op = "setActive" => now = was.owned /\ active = call.id
  /\ call.op = "getActive" =>
       /\ was.owned = {} => now = {NewConversation(call.char, FALSE)}
       /\ was.owned # {} => now = was.owned /\ active = was.active
  /\ call.op = "delete" => AfterDelete(call, was, now, active)

Untouched(was, now, active) == now = was.owned /\ active = was.active

\* How far a call has got that is alone with its character; now and active
\* are the character's conversations and the active one of them.
Progress(call, was, now, active) ==
  /\ call.pc \in {"get", "save", "readActive", "remove"} =>
       Untouched(was, now, active)
  /\ call.pc \in {"save", "readActive", "remove"} /\ call.op # "getActive" =>
       (Contains(was.owned, call.id) <=> call.op # "create")
  /\ call.pc = "save" /\ call.op = "rename" =>
       \E k \in was.owned : k.id = call.id /\ k.messages = call.messages
  /\ call.pc \in {"remove", "list"} /\ call.op = "delete" =>
       call.active = was.active
  /\ call.pc = "list" /\ call.op = "delete" => AfterDelete(call, was, now, active)
  /\ call.pc \in {"list", "getDefault", "saveDefault"} /\ call.op = "getActive" =>
       Untouched(was, now, active) /\ was.owned = {}
  /\ call.pc \in {"getDefault", "saveDefault"} => call.op = "getActive"
  /\ call.pc = "saveDefault" => call.active = call.char /\ call.announces
  /\ call.op \in {"create", "delete", "setActive"} => call.announces
  /\ call.pc \in {"activate", "announce"} =>
       /\ call.announces
       /\ call.op = "create" =>
            /\ call.active = call.id
            /\ now = was.owned \cup {SavedConversation(call)}
       /\ call.op = "setActive" => call.active = call.id /\ now = was.owned
       /\ call.op = "getActive" =>
            was.owned = {} /\ now = {NewConversation(call.char, FALSE)}
       /\ call.op = "delete" =>
            AfterDelete(call, was, now, active) /\ was.active = call.id
  /\ call.pc = "announce" => active = call.active
  /\ call.pc = "done" =>
       /\ Promised(call, was, now, active)
       /\ call.active = IF call.op \in {"update", "rename"} THEN call.id ELSE active
       /\ active # was.active => call.told /\ call.active = active

OwnProgress(p) ==
  LET c == calls[p].char
  IN  Progress(calls[p], before[p], Owned(store, c), store.active[c])

AllProgress ==
  \A p \in Callers :
    before[p] # Nobody => SoundSnapshot(before[p]) /\ OwnProgress(p)

CallInv == SafeInv /\ AloneWith /\ AllProgress

LEMMA AloneFacts ==
  ASSUME CallInv, NEW p \in Callers, before[p] # Nobody
  PROVE  /\ SafeInv /\ calls[p] # Nobody /\ SoundSnapshot(before[p])
         /\ Progress(calls[p], before[p], Owned(store, calls[p].char),
                     store.active[calls[p].char])
         /\ SoundFor(store, calls[p].char)
         /\ calls[p].char \in Characters /\ store \in Store /\ Sound(store)
<1>1. SafeInv /\ calls[p] # Nobody /\ SoundSnapshot(before[p]) /\ OwnProgress(p)
  BY DEF CallInv, AloneWith, AllProgress, Idle
<1>. QED BY <1>1, CallFacts DEF OwnProgress

LEMMA ContinuesFacts ==
  ASSUME SafeInv, NEW p \in Callers, NEW m, Continues(p, m)
  PROVE  /\ m.op = calls[p].op /\ m.char = calls[p].char /\ m.id = calls[p].id
         /\ m \in Call /\ Fits(m)
         /\ Progress(m, before[p], Owned(store', m.char), store'.active[m.char])
              => OwnProgress(p)'
<1>1. calls'[p] = m /\ before'[p] = before[p]
  BY DEF SafeInv, TypeOK, Continues
<1>. QED BY <1>1 DEF Continues, OwnProgress

LEMMA GetProgress ==
  ASSUME CallInv, NEW p \in Callers, before[p] # Nobody, Get(p)
  PROVE  Reject(p) \/ OwnProgress(p)'
<1>. SUFFICES ASSUME ~Reject(p) PROVE OwnProgress(p)'
  OBVIOUS
<1>. DEFINE call == calls[p]
            was == before[p]
            now == Owned(store, call.char)
            active == store.active[call.char]
<1>1. /\ SafeInv /\ call # Nobody /\ Progress(call, was, now, active)
      /\ call.pc = "get"
  BY AloneFacts DEF Get, At
<1>2. PICK m : /\ Continues(p, m) /\ SameFlags(call, m)
               /\ m.pc = (IF m.op \in {"create", "update", "rename"}
                          THEN "save" ELSE "readActive")
               /\ m.op # "getActive"
               /\ Owns(store, m.char, m.id) <=> m.op # "create"
               /\ m.op = "rename" =>
                    \E k \in Owned(store, m.char) :
                      k.id = m.id /\ k.messages = m.messages
  BY <1>1, GetMoves
<1>3. m.op = call.op /\ m.char = call.char /\ m.id = call.id
  BY <1>1, <1>2, ContinuesFacts
<1>4. store' = store
  BY <1>1, GetMoves
<1>5. now = was.owned /\ active = was.active
  BY <1>1 DEF Progress, Untouched
<1>6. Contains(was.owned, m.id) <=> m.op # "create"
  BY <1>2, <1>3, <1>5, OwnsFacts
<1>7. call.op \in {"create", "delete", "setActive"} => call.announces
  BY <1>1 DEF Progress
<1>8. m.pc \in {"save", "readActive"}
  BY <1>2
<1>9. Progress(m, was, now, active)
  BY <1>2, <1>3, <1>5, <1>6, <1>7, <1>8 DEF Progress, Untouched, SameFlags
<1>. QED BY <1>1, <1>2, <1>3, <1>4, <1>9, ContinuesFacts

LEMMA SaveProgress ==
  ASSUME CallInv, NEW p \in Callers, before[p] # Nobody, SaveStep(p)
  PROVE  Reject(p) \/ OwnProgress(p)'
<1>. SUFFICES ASSUME ~Reject(p) PROVE OwnProgress(p)'
  OBVIOUS
<1>. DEFINE call == calls[p]
            was == before[p]
            c == call.char
            now == Owned(store, c)
            active == store.active[c]
            now2 == Owned(store', c)
            active2 == store'.active[c]
<1>1. /\ SafeInv /\ call # Nobody /\ Progress(call, was, now, active)
      /\ SoundFor(store, c) /\ c \in Characters /\ store \in Store /\ Sound(store)
      /\ call.pc = "save"
  BY AloneFacts DEF SaveStep, At
<1>2. PICK m : /\ Continues(p, m) /\ SameFlags(call, m)
               /\ m.op \in {"create", "update", "rename"}
               /\ m.pc = (IF m.op = "create" THEN "activate" ELSE "done")
               /\ m.active = m.id /\ m.messages = call.messages
               /\ SavedConversation(m) \in Conversation
               /\ SavedConversation(m).id = m.id
               /\ m.id \in Scope(m.char) /\ InScope(store, m.char, m.id)
               /\ store' = Save(store, m.char, SavedConversation(m))
  BY <1>1, SaveMoves
<1>3. m.op = call.op /\ m.char = c /\ m.id = call.id
  BY <1>1, <1>2, ContinuesFacts
<1>4. /\ now2 = Others(now, m.id) \cup {SavedConversation(m)}
      /\ active2 = IF active = NoId THEN m.id ELSE active
  <2>1. store' = Save(store, c, SavedConversation(m))
    BY <1>2, <1>3
  <2>. QED BY <1>1, <1>2, <1>3, <2>1, SaveFacts
<1>5. /\ now = was.owned /\ active = was.active
      /\ Contains(was.owned, m.id) <=> m.op # "create"
      /\ m.op = "rename" => \E k \in was.owned : k.id = m.id /\ k.messages = m.messages
      /\ m.op = "create" => m.announces
  BY <1>1, <1>2, <1>3 DEF Progress, Untouched, SameFlags
<1>6. active = NoId <=> now = {}
  BY <1>1, GetActiveFacts
<1>. HIDE DEF call, was, now, active, now2, active2, c
<1>7. CASE m.op = "create"
  <2>1. Others(now, m.id) = was.owned
    BY <1>5, <1>7 DEF Others, Contains
  <2>2. m.pc = "activate" /\ m.active = m.id
    BY <1>2, <1>7
  <2>3. Progress(m, was, now2, active2)
    BY <1>4, <1>5, <1>7, <2>1, <2>2 DEF Progress
  <2>. QED BY <1>1, <1>2, <1>3, <2>3, ContinuesFacts DEF c, was, now2, active2
<1>8. CASE m.op # "create"
  <2>1. active2 = active
    BY <1>4, <1>5, <1>6, <1>8 DEF Contains
  <2>2. m.pc = "done" /\ m.active = m.id /\ m.op \in {"update", "rename"}
    BY <1>2, <1>8
  <2>3. Promised(m, was, now2, active2)
    BY <1>4, <1>5, <2>1, <2>2 DEF Promised
  <2>4. Progress(m, was, now2, active2)
    BY <1>5, <2>1, <2>2, <2>3 DEF Progress
  <2>. QED BY <1>1, <1>2, <1>3, <2>4, ContinuesFacts DEF c, was, now2, active2
<1>. QED BY <1>7, <1>8

LEMMA ReadActiveProgress ==
  ASSUME CallInv, NEW p \in Callers, before[p] # Nobody, ReadActive(p)
  PROVE  OwnProgress(p)'
<1>. DEFINE call == calls[p]
            was == before[p]
            c == call.char
            now == Owned(store, c)
            active == store.active[c]
<1>1. /\ SafeInv /\ call # Nobody /\ Progress(call, was, now, active)
      /\ SoundFor(store, c) /\ c \in Characters /\ store \in Store
      /\ SoundSnapshot(was) /\ call.pc = "readActive"
  BY AloneFacts DEF ReadActive, At
<1>2. PICK m : LET a == store.active[m.char]
               IN /\ Continues(p, m) /\ SameFlags(call, m)
                  /\ m.op \in {"delete", "setActive", "getActive"}
                  /\ m.pc = (IF m.op = "delete" THEN "remove"
                             ELSE IF m.op = "setActive"
                                  THEN IF a = m.id THEN "done" ELSE "activate"
                             ELSE IF a = NoId THEN "list" ELSE "done")
                  /\ m.active = IF m.op = "setActive" THEN m.id ELSE a
  BY <1>1, ReadActiveMoves
<1>3. m.op = call.op /\ m.char = c /\ m.id = call.id
  BY <1>1, <1>2, ContinuesFacts
<1>4. store' = store
  BY <1>1, ReadActiveMoves
<1>5. /\ now = was.owned /\ active = was.active
      /\ m.op # "getActive" => Contains(was.owned, m.id)
      /\ m.op \in {"delete", "setActive"} => m.announces
  BY <1>1, <1>2, <1>3 DEF Progress, Untouched, SameFlags
<1>6. active = NoId <=> now = {}
  BY <1>1, GetActiveFacts
<1>7. /\ m.pc = (IF m.op = "delete" THEN "remove"
                 ELSE IF m.op = "setActive"
                      THEN IF active = m.id THEN "done" ELSE "activate"
                 ELSE IF active = NoId THEN "list" ELSE "done")
      /\ m.active = IF m.op = "setActive" THEN m.id ELSE active
      /\ m.op \in {"delete", "setActive", "getActive"}
  BY <1>2, <1>3
<1>8. Progress(m, was, now, active) => OwnProgress(p)'
  BY <1>1, <1>2, <1>3, <1>4, ContinuesFacts
<1>. HIDE DEF call, was, now, active, c
<1>9. CASE m.op = "delete"
  BY <1>5, <1>7, <1>8, <1>9 DEF Progress, Untouched
<1>10. CASE m.op = "setActive"
  <2>1. CASE active = m.id
    BY <1>5, <1>7, <1>8, <1>10, <2>1 DEF Progress, Promised
  <2>2. CASE active # m.id
    BY <1>5, <1>7, <1>8, <1>10, <2>2 DEF Progress
  <2>. QED BY <2>1, <2>2
<1>11. CASE m.op = "getActive"
  <2>1. CASE active = NoId
    BY <1>5, <1>6, <1>7, <1>8, <1>11, <2>1 DEF Progress, Untouched
  <2>2. CASE active # NoId
    BY <1>5, <1>6, <1>7, <1>8, <1>11, <2>2 DEF Progress, Promised
  <2>. QED BY <2>1, <2>2
<1>. QED BY <1>7, <1>9, <1>10, <1>11

LEMMA RemoveProgress ==
  ASSUME CallInv, NEW p \in Callers, before[p] # Nobody, Remove(p)
  PROVE  Reject(p) \/ OwnProgress(p)'
<1>. SUFFICES ASSUME ~Reject(p) PROVE OwnProgress(p)'
  OBVIOUS
<1>. DEFINE call == calls[p]
            was == before[p]
            c == call.char
            now == Owned(store, c)
            active == store.active[c]
            now2 == Owned(store', c)
            active2 == store'.active[c]
<1>1. /\ SafeInv /\ call # Nobody /\ Progress(call, was, now, active)
      /\ c \in Characters /\ store \in Store /\ Sound(store) /\ call.pc = "remove"
  BY AloneFacts DEF Remove, At
<1>2. PICK m : /\ Continues(p, m) /\ SameFlags(call, m)
               /\ m.op = "delete" /\ m.pc = "list" /\ m.active = call.active
               /\ store' = Delete(store, m.char, m.id)
  BY <1>1, RemoveMoves
<1>3. m.op = call.op /\ m.char = c /\ m.id = call.id
  BY <1>1, <1>2, ContinuesFacts
<1>4. /\ Owns(store, c, m.id) /\ Others(now, m.id) = {} =>
           now2 = {NewConversation(c, TauriHost)}
      /\ ~Owns(store, c, m.id) \/ Others(now, m.id) # {} => now2 = Others(now, m.id)
      /\ active # m.id => active2 = active
  <2>1. store' = Delete(store, c, m.id)
    BY <1>2, <1>3
  <2>. QED BY <1>1, <2>1, DeleteFacts
<1>5. /\ now = was.owned /\ active = was.active /\ Contains(was.owned, m.id)
      /\ m.announces /\ m.active = was.active
  BY <1>1, <1>2, <1>3 DEF Progress, Untouched, SameFlags
<1>6. Owns(store, c, m.id)
  BY <1>5, OwnsFacts
<1>7. Progress(m, was, now2, active2) => OwnProgress(p)'
  BY <1>1, <1>2, <1>3, ContinuesFacts
<1>8. m.op = "delete" /\ m.pc = "list"
  BY <1>2
<1>. HIDE DEF was, now, active, now2, active2
<1>9. AfterDelete(m, was, now2, active2)
  BY <1>3, <1>4, <1>5, <1>6 DEF AfterDelete
<1>. QED BY <1>5, <1>7, <1>8, <1>9 DEF Progress

LEMMA ListProgress ==
  ASSUME CallInv, NEW p \in Callers, before[p] # Nobody, ListStep(p)
  PROVE  OwnProgress(p)'
<1>. DEFINE call == calls[p]
            was == before[p]
            c == call.char
            now == Owned(store, c)
            active == store.active[c]
            kept == IF call.op = "delete" THEN Survivor(call) ELSE NoId
            known == kept # NoId /\ Owns(store, c, kept)
            first == FirstListed(store, c)
<1>1. /\ SafeInv /\ call # Nobody /\ Progress(call, was, now, active)
      /\ SoundFor(store, c) /\ c \in Characters /\ store \in Store
      /\ SoundSnapshot(was) /\ call.pc = "list"
  BY AloneFacts DEF ListStep, At
<1>2. PICK m : LET kp == IF m.op = "delete" THEN Survivor(call) ELSE NoId
                   kn == kp # NoId /\ Owns(store, m.char, kp)
                   fst == FirstListed(store, m.char)
               IN /\ Continues(p, m) /\ SameFlags(call, m)
                  /\ m.op \in {"delete", "getActive"}
                  /\ m.pc = (IF kn THEN "done"
                            ELSE IF fst # NoId THEN "activate" ELSE "getDefault")
                  /\ m.active = IF kn THEN kp ELSE fst
  BY <1>1, ListMoves
<1>3. m.op = call.op /\ m.char = c /\ m.id = call.id
  BY <1>1, <1>2, ContinuesFacts
<1>4. store' = store
  BY <1>1, ListMoves
<1>5. /\ m.op \in {"delete", "getActive"}
      /\ m.pc = (IF known THEN "done"
                ELSE IF first # NoId THEN "activate" ELSE "getDefault")
      /\ m.active = IF known THEN kept ELSE first
  BY <1>2, <1>3
<1>6. Progress(m, was, now, active) => OwnProgress(p)'
  BY <1>1, <1>2, <1>3, <1>4, ContinuesFacts
<1>7. /\ active = NoId <=> now = {}
      /\ now # {} => Owns(store, c, active)
  BY <1>1, GetActiveFacts
<1>8. first = NoId <=> now = {}
  BY <1>1, FirstListedFacts
<1>. HIDE DEF first
<1>9. CASE m.op = "delete"
  <2>1. /\ call.active = was.active /\ AfterDelete(call, was, now, active)
        /\ m.announces
    BY <1>1, <1>2, <1>3, <1>9 DEF Progress, SameFlags
  <2>2. AfterDelete(m, was, now, active)
    BY <1>3, <2>1 DEF AfterDelete
  <2>3. kept = (IF was.active = m.id THEN NoId ELSE was.active) /\ was.active # NoId
    <3>1. was.owned # {}
      BY <2>2 DEF AfterDelete, Contains
    <3>2. Contains(was.owned, was.active)
      BY <1>1, <3>1 DEF SoundSnapshot
    <3>3. was.active # NoId
      <4>1. was \in Snapshot
        BY <1>1 DEF SafeInv, TypeOK, CallInv
      <4>2. \A k \in was.owned : k.id # NoId
        BY <4>1, IdsAssumption DEF Snapshot, Conversation
      <4>. QED BY <3>2, <4>2 DEF Contains
    <3>4. kept = IF was.active = m.id THEN NoId ELSE was.active
      BY <1>3, <1>9, <2>1 DEF Survivor
    <3>. QED BY <3>3, <3>4
  <2>. HIDE DEF kept
  <2>4. now # {}
    BY <2>2 DEF AfterDelete
  <2>5. CASE known
    <3>1. m.pc = "done" /\ m.active = kept /\ kept # NoId
      BY <1>5, <2>5
    <3>2. was.active # m.id /\ kept = was.active
      BY <2>3, <3>1
    <3>3. active = was.active
      BY <2>2, <3>2 DEF AfterDelete
    <3>. HIDE DEF was, now, active, known
    <3>4. Promised(m, was, now, active)
      BY <1>9, <2>2 DEF Promised
    <3>. QED BY <1>6, <1>9, <2>1, <3>1, <3>2, <3>3, <3>4 DEF Progress
  <2>6. CASE ~known
    <3>1. m.pc = "activate"
      BY <1>5, <1>8, <2>4, <2>6
    <3>2. was.active = m.id
      <4>. SUFFICES ASSUME was.active # m.id PROVE FALSE
        OBVIOUS
      <4>1. kept = was.active /\ kept # NoId /\ active = was.active
        BY <2>2, <2>3 DEF AfterDelete
      <4>. QED BY <1>7, <2>4, <2>6, <4>1
    <3>. HIDE DEF was, now, active, known
    <3>. QED BY <1>6, <1>9, <2>1, <2>2, <3>1, <3>2 DEF Progress
  <2>. QED BY <2>5, <2>6
<1>10. CASE m.op = "getActive"
  <2>1. now = was.owned /\ active = was.active /\ was.owned = {}
    BY <1>1, <1>3, <1>10 DEF Progress, Untouched
  <2>2. ~known
    BY <1>3, <1>10
  <2>3. m.pc = "getDefault"
    BY <1>5, <1>8, <2>1, <2>2
  <2>. HIDE DEF was, now, active, known, kept
  <2>. QED BY <1>6, <1>10, <2>1, <2>3 DEF Progress, Untouched
<1>. QED BY <1>5, <1>9, <1>10

LEMMA GetDefaultProgress ==
  ASSUME CallInv, NEW p \in Callers, before[p] # Nobody, GetDefault(p)
  PROVE  Reject(p) \/ OwnProgress(p)'
<1>. SUFFICES ASSUME ~Reject(p) PROVE OwnProgress(p)'
  OBVIOUS
<1>. DEFINE call == calls[p]
            was == before[p]
            c == call.char
            now == Owned(store, c)
            active == store.active[c]
<1>1. /\ SafeInv /\ call # Nobody /\ Progress(call, was, now, active)
      /\ call.pc = "getDefault"
  BY AloneFacts DEF GetDefault, At
<1>2. PICK m : /\ Continues(p, m) /\ m.told = call.told
               /\ m.op \in {"delete", "getActive"} /\ m.active = m.char
               /\ m.pc = (IF Owns(store, m.char, m.char)
                         THEN "activate" ELSE "saveDefault")
               /\ m.announces = ~Owns(store, m.char, m.char)
  BY <1>1, GetDefaultMoves
<1>3. m.op = call.op /\ m.char = c /\ m.id = call.id
  BY <1>1, <1>2, ContinuesFacts
<1>4. store' = store
  BY <1>1, GetDefaultMoves
<1>5. /\ call.op = "getActive"
      /\ now = was.owned /\ active = was.active /\ was.owned = {}
  BY <1>1 DEF Progress, Untouched
<1>6. ~Owns(store, c, c)
  BY <1>5 DEF Owns
<1>7. m.pc = "saveDefault" /\ m.announces /\ m.active = m.char /\ m.op = "getActive"
  BY <1>2, <1>3, <1>5, <1>6
<1>8. Progress(m, was, now, active) => OwnProgress(p)'
  BY <1>1, <1>2, <1>3, <1>4, ContinuesFacts
<1>. HIDE DEF was, now, active
<1>. QED BY <1>5, <1>7, <1>8 DEF Progress, Untouched

LEMMA SaveDefaultProgress ==
  ASSUME CallInv, NEW p \in Callers, before[p] # Nobody, SaveDefault(p)
  PROVE  Reject(p) \/ OwnProgress(p)'
<1>. SUFFICES ASSUME ~Reject(p) PROVE OwnProgress(p)'
  OBVIOUS
<1>. DEFINE call == calls[p]
            was == before[p]
            c == call.char
            now == Owned(store, c)
            active == store.active[c]
            now2 == Owned(store', c)
            active2 == store'.active[c]
            fresh == NewConversation(c, FALSE)
<1>1. /\ SafeInv /\ call # Nobody /\ Progress(call, was, now, active)
      /\ c \in Characters /\ store \in Store /\ Sound(store)
      /\ call.pc = "saveDefault"
  BY AloneFacts DEF SaveDefault, At
<1>2. PICK m : /\ Continues(p, m) /\ SameFlags(call, m)
               /\ m.op \in {"delete", "getActive"} /\ m.pc = "activate"
               /\ m.active = call.active /\ InScope(store, m.char, m.char)
               /\ store' = Save(store, m.char, NewConversation(m.char, FALSE))
  BY <1>1, SaveDefaultMoves
<1>3. m.op = call.op /\ m.char = c /\ m.id = call.id
  BY <1>1, <1>2, ContinuesFacts
<1>4. /\ call.op = "getActive" /\ was.owned = {} /\ now = was.owned
      /\ call.announces
  BY <1>1 DEF Progress, Untouched
<1>5. fresh \in Conversation /\ fresh.id = c
  BY <1>1, TextsAssumption DEF NewConversation, Conversation, Ids
<1>6. now2 = Others(now, c) \cup {fresh}
  <2>1. store' = Save(store, c, fresh) /\ InScope(store, c, c)
    BY <1>2, <1>3
  <2>. HIDE DEF fresh
  <2>. QED BY <1>1, <1>5, <2>1, SaveFacts DEF Scope
<1>7. now2 = {NewConversation(m.char, FALSE)}
  BY <1>3, <1>4, <1>6 DEF Others
<1>8. Progress(m, was, now2, active2) => OwnProgress(p)'
  BY <1>1, <1>2, <1>3, ContinuesFacts
<1>9. m.op = "getActive" /\ m.pc = "activate" /\ m.announces
  BY <1>2, <1>3, <1>4 DEF SameFlags
<1>. HIDE DEF was, now, active, now2, active2
<1>. QED BY <1>4, <1>7, <1>8, <1>9 DEF Progress

LEMMA ActivateProgress ==
  ASSUME CallInv, NEW p \in Callers, before[p] # Nobody, Activate(p)
  PROVE  Reject(p) \/ OwnProgress(p)'
<1>. SUFFICES ASSUME ~Reject(p) PROVE OwnProgress(p)'
  OBVIOUS
<1>. DEFINE call == calls[p]
            was == before[p]
            c == call.char
            now == Owned(store, c)
            active == store.active[c]
            active2 == store'.active[c]
<1>1. /\ SafeInv /\ call # Nobody /\ Progress(call, was, now, active)
      /\ c \in Characters /\ store \in Store /\ Sound(store)
      /\ call.pc = "activate"
  BY AloneFacts DEF Activate, At
<1>2. PICK m : /\ Continues(p, m) /\ SameFlags(call, m)
               /\ m.pc = (IF m.announces THEN "announce" ELSE "done")
               /\ m.active = call.active /\ m.messages = call.messages
               /\ Owns(store, m.char, m.active)
               /\ store' = SetActive(store, m.char, m.active)
  BY <1>1, ActivateMoves
<1>3. m.op = call.op /\ m.char = c /\ m.id = call.id
  BY <1>1, <1>2, ContinuesFacts
<1>4. Owned(store', c) = now /\ active2 = m.active
  <2>1. store' = SetActive(store, c, m.active) /\ Owns(store, c, m.active)
    BY <1>2, <1>3
  <2>. QED BY <1>1, <2>1, SetActiveFacts
<1>5. m.announces = TRUE /\ m.pc = "announce"
  <2>1. call.announces
    BY <1>1 DEF Progress
  <2>2. m.announces
    BY <1>2, <2>1 DEF SameFlags
  <2>3. m \in Call
    BY <1>1, <1>2, ContinuesFacts
  <2>. QED BY <1>2, <2>2, <2>3 DEF Call
<1>6. Progress(m, was, now, active2) => OwnProgress(p)'
  BY <1>1, <1>2, <1>3, <1>4, ContinuesFacts
<1>7. SavedConversation(m) = SavedConversation(call)
  BY <1>2, <1>3 DEF SavedConversation
<1>8. /\ call.op = "create" =>
           /\ call.active = call.id
           /\ now = was.owned \cup {SavedConversation(call)}
      /\ call.op = "setActive" => call.active = call.id /\ now = was.owned
      /\ call.op = "getActive" =>
           was.owned = {} /\ now = {NewConversation(call.char, FALSE)}
      /\ call.op = "delete" =>
           AfterDelete(call, was, now, active) /\ was.active = call.id
  BY <1>1 DEF Progress
<1>9. call.op = "delete" => AfterDelete(m, was, now, active2)
  BY <1>3, <1>8 DEF AfterDelete
<1>. HIDE DEF was, now, active, active2
<1>. QED BY <1>2, <1>3, <1>4, <1>5, <1>6, <1>7, <1>8, <1>9 DEF Progress

LEMMA AnnounceProgress ==
  ASSUME CallInv, NEW p \in Callers, before[p] # Nobody, Announce(p)
  PROVE  OwnProgress(p)'
<1>. DEFINE call == calls[p]
            was == before[p]
            c == call.char
            now == Owned(store, c)
            active == store.active[c]
<1>1. /\ SafeInv /\ call # Nobody /\ Progress(call, was, now, active)
      /\ call.pc = "announce"
  BY AloneFacts DEF Announce, At
<1>2. PICK m : /\ Continues(p, m) /\ m.pc = "done" /\ m.told = TRUE
               /\ m.active = call.active /\ m.messages = call.messages
               /\ m.announces = call.announces
  BY <1>1, AnnounceMoves
<1>3. m.op = call.op /\ m.char = c /\ m.id = call.id
  BY <1>1, <1>2, ContinuesFacts
<1>4. store' = store
  BY <1>1, AnnounceMoves
<1>5. Progress(m, was, now, active) => OwnProgress(p)'
  BY <1>1, <1>2, <1>3, <1>4, ContinuesFacts
<1>6. SavedConversation(m) = SavedConversation(call)
  BY <1>2, <1>3 DEF SavedConversation
<1>7. /\ active = call.active
      /\ call.op \in {"create", "delete", "setActive"} => call.announces
      /\ call.op = "create" =>
           /\ call.active = call.id
           /\ now = was.owned \cup {SavedConversation(call)}
      /\ call.op = "setActive" => call.active = call.id /\ now = was.owned
      /\ call.op = "getActive" =>
           was.owned = {} /\ now = {NewConversation(call.char, FALSE)}
      /\ call.op = "delete" => AfterDelete(call, was, now, active)
  BY <1>1 DEF Progress
<1>8. m.op \notin {"update", "rename"}
  BY <1>1, <1>3, CallFacts DEF Fits
<1>9. m.op = "delete" => AfterDelete(m, was, now, active)
  BY <1>3, <1>7 DEF AfterDelete
<1>. HIDE DEF was, now, active
<1>10. Promised(m, was, now, active)
  BY <1>2, <1>3, <1>6, <1>7, <1>8, <1>9 DEF Promised
<1>11. m.op \in {"create", "delete", "setActive"} => m.announces
  BY <1>2, <1>3, <1>7
<1>. QED BY <1>2, <1>3, <1>5, <1>7, <1>8, <1>10, <1>11 DEF Progress

\* A step of a call with a snapshot keeps to what is promised, unless it
\* ends the call.
LEMMA CommandProgress ==
  ASSUME CallInv, NEW p \in Callers, Command(p), before[p] # Nobody
  PROVE  Reject(p) \/ OwnProgress(p)'
BY GetProgress, SaveProgress, ReadActiveProgress, RemoveProgress, ListProgress,
   GetDefaultProgress, SaveDefaultProgress, ActivateProgress, AnnounceProgress
   DEF Command, Fail, Return

\* The step of a call about another character is no progress and no harm.
LEMMA OthersProgress ==
  ASSUME NEW c, OthersAlike(store, store', c), NEW q \in Callers,
         calls[q].char \in Characters \ {c},
         calls'[q] = calls[q], before'[q] = before[q], OwnProgress(q)
  PROVE  OwnProgress(q)'
<1>1. /\ Owned(store', calls[q].char) = Owned(store, calls[q].char)
      /\ store'.active[calls[q].char] = store.active[calls[q].char]
  BY DEF OthersAlike, Owned
<1>. QED BY <1>1 DEF OwnProgress

LEMMA BeginProgress ==
  ASSUME CallInv, NEW p \in Callers, NEW call, Fresh(call), Begin(p, call)
  PROVE  AloneWith' /\ AllProgress'
<1>. DEFINE rivals == {q \in Callers : ~Idle(q) /\ calls[q].char = call.char}
<1>1. /\ Idle(p) /\ store' = store /\ calls' = [calls EXCEPT ![p] = call]
      /\ before' = [q \in Callers |->
           IF q \in rivals THEN Nobody
           ELSE IF q = p /\ rivals = {} THEN SnapshotOf(call.char)
           ELSE before[q]]
  BY DEF Begin
<1>2. SafeInv /\ AloneWith /\ AllProgress
  BY DEF CallInv
<1>3. /\ call \in Call /\ call # Nobody /\ call.char \in Characters
  BY NobodyAssumption DEF Fresh, Call
<1>4. before[p] = Nobody
  BY <1>1, <1>2 DEF AloneWith
<1>5. calls'[p] = call /\ \A q \in Callers \ {p} : calls'[q] = calls[q]
  BY <1>1, <1>2 DEF SafeInv, TypeOK
<1>6. ASSUME NEW q \in Callers \ {p}, before'[q] # Nobody
      PROVE  before'[q] = before[q] /\ before[q] # Nobody /\ q \notin rivals
  BY <1>1, <1>6
<1>7. ASSUME before'[p] # Nobody
      PROVE  rivals = {} /\ before'[p] = SnapshotOf(call.char)
  BY <1>1, <1>4, <1>7
<1>8. AloneWith'
  <2>. SUFFICES ASSUME NEW q \in Callers, before'[q] # Nobody
                PROVE  /\ calls'[q] # Nobody
                       /\ \A o \in Callers \ {q} :
                            calls'[o] # Nobody => calls'[o].char # calls'[q].char
    BY DEF AloneWith, Idle
  <2>1. CASE q = p
    BY <1>3, <1>5, <1>7, <2>1 DEF Idle
  <2>2. CASE q # p
    <3>1. calls[q] # Nobody /\ q \notin rivals /\ before[q] # Nobody
      BY <1>2, <1>6, <2>2 DEF AloneWith, Idle
    <3>2. calls[q].char # call.char
      BY <3>1 DEF Idle
    <3>3. \A o \in Callers \ {q} : calls[o] # Nobody => calls[o].char # calls[q].char
      BY <1>2, <3>1 DEF AloneWith, Idle
    <3>. QED BY <1>5, <2>2, <3>1, <3>2, <3>3
  <2>. QED BY <2>1, <2>2
<1>9. ASSUME NEW q \in Callers, before'[q] # Nobody
      PROVE  SoundSnapshot(before'[q]) /\ OwnProgress(q)'
  <2>1. CASE q = p
    <3>. DEFINE was == SnapshotOf(call.char)
                now == Owned(store, call.char)
                active == store.active[call.char]
    <3>1. was.owned = now /\ was.active = active
      BY DEF SnapshotOf
    <3>2. SoundFor(store, call.char) /\ store \in Store
      BY <1>2, <1>3 DEF SafeInv, Sound, TypeOK
    <3>. HIDE DEF was
    <3>3. SoundSnapshot(was)
      BY <1>3, <3>1, <3>2, GetActiveFacts, OwnsFacts DEF SoundSnapshot
    <3>4. Progress(call, was, now, active)
      <4>. HIDE DEF now, active
      <4>. QED BY <3>1 DEF Progress, Untouched, Fresh
    <3>5. before'[p] = was
      BY <1>7, <1>9, <2>1 DEF was
    <3>. QED BY <1>1, <1>5, <2>1, <3>3, <3>4, <3>5 DEF OwnProgress
  <2>2. CASE q # p
    <3>1. before'[q] = before[q] /\ before[q] # Nobody /\ calls'[q] = calls[q]
      BY <1>5, <1>6, <1>9, <2>2
    <3>2. SoundSnapshot(before[q]) /\ OwnProgress(q)
      BY <1>2, <3>1 DEF AllProgress
    <3>. QED BY <1>1, <3>1, <3>2 DEF OwnProgress
  <2>. QED BY <2>1, <2>2
<1>. QED BY <1>8, <1>9 DEF AllProgress

LEMMA CommandKeepsProgress ==
  ASSUME CallInv, NEW p \in Callers, Command(p)
  PROVE  AloneWith' /\ AllProgress'
<1>. DEFINE c == calls[p].char
<1>1. SafeInv /\ AloneWith /\ AllProgress
  BY DEF CallInv
<1>2. /\ calls[p] # Nobody /\ OthersAlike(store, store', c)
      /\ Reject(p) \/ \E m : Continues(p, m)
  BY <1>1, CommandFacts DEF StoreStep
<1>3. \A q \in Callers \ {p} : calls'[q] = calls[q] /\ before'[q] = before[q]
  BY <1>1, <1>2 DEF Reject, Continues, SafeInv, TypeOK
<1>4. ASSUME Reject(p) PROVE calls'[p] = Nobody /\ before'[p] = Nobody
  BY <1>1, <1>4 DEF Reject, SafeInv, TypeOK
<1>5. ASSUME ~Reject(p)
      PROVE  /\ calls'[p] # Nobody /\ calls'[p].char = c
             /\ before'[p] = before[p]
             /\ before[p] # Nobody => OwnProgress(p)'
  <2>1. PICK m : Continues(p, m)
    BY <1>2, <1>5
  <2>2. calls'[p] = m /\ m \in Call /\ m.char = c /\ before' = before
    BY <1>1, <2>1 DEF Continues, SafeInv, TypeOK
  <2>. QED BY <1>5, <2>2, NobodyAssumption, CommandProgress
<1>. HIDE DEF c
<1>6. AloneWith'
  <2>. SUFFICES ASSUME NEW q \in Callers, before'[q] # Nobody
                PROVE  /\ calls'[q] # Nobody
                       /\ \A o \in Callers \ {q} :
                            calls'[o] # Nobody => calls'[o].char # calls'[q].char
    BY DEF AloneWith, Idle
  <2>1. before[q] # Nobody
    BY <1>3, <1>4, <1>5
  <2>2. /\ calls[q] # Nobody
        /\ \A o \in Callers \ {q} :
             calls[o] # Nobody => calls[o].char # calls[q].char
    BY <1>1, <2>1 DEF AloneWith, Idle
  <2>. QED BY <1>2, <1>3, <1>4, <1>5, <2>2 DEF c
<1>7. ASSUME NEW q \in Callers, before'[q] # Nobody
      PROVE  SoundSnapshot(before'[q]) /\ OwnProgress(q)'
  <2>1. before[q] # Nobody /\ before'[q] = before[q]
    BY <1>3, <1>4, <1>5, <1>7
  <2>2. SoundSnapshot(before[q]) /\ OwnProgress(q)
    BY <1>1, <2>1 DEF AllProgress
  <2>3. CASE q = p
    BY <1>4, <1>5, <1>7, <2>1, <2>2, <2>3
  <2>4. CASE q # p
    <3>1. calls[q].char \in Characters \ {c}
      <4>1. calls[q] # Nobody /\ calls[q].char # c
        BY <1>1, <1>2, <2>1, <2>4 DEF AloneWith, Idle, c
      <4>. QED BY <1>1, <4>1, CallFacts
    <3>. QED BY <1>2, <1>3, <2>1, <2>2, <2>4, <3>1, OthersProgress
  <2>. QED BY <2>3, <2>4
<1>. QED BY <1>6, <1>7 DEF AllProgress

\* How far every call has got that is alone with its character.
THEOREM CallInvariance == Spec => []CallInv
<1>1. Init => CallInv
  BY SafeInvInitially DEF CallInv, Init, AloneWith, AllProgress
<1>2. CallInv /\ [Next]_vars => CallInv'
  <2>. SUFFICES ASSUME CallInv, [Next]_vars PROVE CallInv'
    OBVIOUS
  <2>1. SafeInv'
    BY SafeInvStep DEF CallInv
  <2>2. CASE Next
    <3>1. PICK p \in Callers : \/ \E call : Fresh(call) /\ Begin(p, call)
                               \/ Command(p)
      BY <2>2, NextCases
    <3>. QED BY <2>1, <3>1, BeginProgress, CommandKeepsProgress DEF CallInv
  <2>3. CASE UNCHANGED vars
    <3>1. store' = store /\ calls' = calls /\ before' = before
      BY <2>3 DEF vars
    <3>2. AloneWith' /\ AllProgress'
      BY <3>1 DEF CallInv, AloneWith, AllProgress, OwnProgress, Idle
    <3>. QED BY <2>1, <3>2 DEF CallInv
  <2>. QED BY <2>2, <2>3
<1>. QED BY <1>1, <1>2, PTL DEF Spec

\* A call that was alone with its character has done what it promises when
\* it resolves, resolves to the right conversation, and whoever subscribes
\* has heard of a new active conversation.
THEOREM AloneCallsDeliverHolds == Spec => []AloneCallsDeliver
<1>1. CallInv => AloneCallsDeliver
  <2>. SUFFICES ASSUME CallInv, NEW p \in Callers, Undisturbed(p)
                PROVE  LET active == store.active[calls[p].char] IN
                         /\ Delivers(calls[p], before[p])
                         /\ calls[p].active =
                              IF calls[p].op \in {"update", "rename"}
                              THEN calls[p].id ELSE active
                         /\ active # before[p].active =>
                              calls[p].told /\ calls[p].active = active
    BY DEF AloneCallsDeliver
  <2>. DEFINE call == calls[p]
              was == before[p]
              c == call.char
              now == Owned(store, c)
              active == store.active[c]
  <2>1. /\ call # Nobody /\ call.pc = "done" /\ was # Nobody
        /\ Progress(call, was, now, active) /\ SafeInv
    BY AloneFacts DEF Undisturbed, At
  <2>2. /\ Promised(call, was, now, active)
        /\ call.active = IF call.op \in {"update", "rename"} THEN call.id ELSE active
        /\ active # was.active => call.told /\ call.active = active
    BY <2>1 DEF Progress
  <2>3. call.op \in Operations
    BY <2>1, CallFacts DEF Call
  <2>4. ASSUME call.op = "delete"
        PROVE  LET rest == Others(was.owned, call.id)
               IN  /\ IF rest # {} THEN now = rest
                      ELSE \E k \in now : /\ now = {k} /\ k.id = c
                                          /\ k.messages = NoText
                   /\ was.active # call.id => active = was.active
    <3>1. AfterDelete(call, was, now, active)
      BY <2>2, <2>4 DEF Promised
    <3>2. /\ NewConversation(c, TauriHost).id = c
          /\ NewConversation(c, TauriHost).messages = NoText
      BY DEF NewConversation
    <3>. HIDE DEF now, active, was
    <3>. QED BY <3>1, <3>2 DEF AfterDelete
  <2>5. Delivers(call, was)
    <3>1. CASE call.op = "create"
      BY <2>2, <3>1 DEF Promised, Delivers
    <3>2. CASE call.op \in {"update", "rename"}
      BY <2>2, <3>2 DEF Promised, Delivers
    <3>3. CASE call.op = "setActive"
      BY <2>2, <3>3 DEF Promised, Delivers
    <3>4. CASE call.op = "getActive"
      BY <2>2, <3>4 DEF Promised, Delivers
    <3>5. CASE call.op = "delete"
      BY <2>4, <3>5 DEF Delivers
    <3>. QED BY <2>3, <3>1, <3>2, <3>3, <3>4, <3>5 DEF Operations
  <2>. QED BY <2>2, <2>5
<1>. QED BY <1>1, CallInvariance, PTL
=============================================================================
