---------------------------- MODULE IniFileProofs ----------------------------
(* Proofs about the configuration files: the types of what load cuts out   *)
(* of any lines, and that what it makes of them can be stored.             *)
EXTENDS IniFile, SequenceTheorems, WellFoundedInduction, TLAPS

-----------------------------------------------------------------------------
(* Lines *)

(* Every non-empty set of naturals has a least element. *)
LEMMA LeastNatural ==
  ASSUME NEW T \in SUBSET Nat, T # {}
  PROVE  \E m \in T : \A k \in T : m <= k
<1>1. PICK m \in T : \A k \in T : ~(<<k, m>> \in OpToRel(<, Nat))
  BY NatLessThanWellFounded, WFMin
<1>2. \A k \in T : ~(k < m)
  BY <1>1, Zenon DEF OpToRel
<1>3. QED
  BY <1>2

(* The first place of a character, or one past the end. *)
LEMMA FirstProperties ==
  ASSUME NEW T, NEW s \in Seq(T), NEW S
  PROVE  /\ First(s, S) \in 1 .. Len(s) + 1
         /\ First(s, S) <= Len(s) => s[First(s, S)] \in S
         /\ \A j \in 1 .. First(s, S) - 1 : s[j] \notin S
<1> DEFINE stops == {i \in 1 .. Len(s) + 1 : i <= Len(s) => s[i] \in S}
<1>1. Len(s) \in Nat
  BY LenProperties
<1>2. Len(s) + 1 \in stops /\ stops \in SUBSET Nat
  BY <1>1
<1>3. PICK i \in stops : \A k \in stops : i <= k
  <2> HIDE DEF stops
  <2>1. \E i \in stops : \A k \in stops : i <= k
    BY <1>2, LeastNatural
  <2>2. QED
    BY <2>1
<1>4. \A j \in 1 .. i - 1 : s[j] \notin S
  <2> SUFFICES ASSUME NEW j \in 1 .. i - 1, s[j] \in S PROVE FALSE
    OBVIOUS
  <2>1. j \in stops /\ ~(i <= j)
    BY <1>1, <1>3
  <2>2. QED
    BY <2>1, <1>3
<1>5. \E k \in 1 .. Len(s) + 1 : /\ k <= Len(s) => s[k] \in S
                                 /\ \A j \in 1 .. k - 1 : s[j] \notin S
  BY <1>3, <1>4
<1>6. QED
  BY <1>5 DEF First

(* A piece of a text is a text, with the same characters. *)
LEMMA PieceProperties ==
  ASSUME NEW T, NEW s \in Seq(T), NEW i \in Nat \ {0}, NEW j \in Int, j <= Len(s)
  PROVE  /\ SubSeq(s, i, j) \in Seq(T)
         /\ Len(SubSeq(s, i, j)) = IF i <= j THEN j - i + 1 ELSE 0
         /\ \A k \in 1 .. Len(SubSeq(s, i, j)) : SubSeq(s, i, j)[k] = s[i + k - 1]
         /\ \A S : Free(s, S) => Free(SubSeq(s, i, j), S)
<1>1. Len(s) \in Nat /\ DOMAIN s = 1 .. Len(s)
  BY LenProperties
<1>2. \A k \in i .. j : s[k] \in T
  BY <1>1, ElementOfSeq
<1>3. /\ SubSeq(s, i, j) \in Seq(T)
      /\ Len(SubSeq(s, i, j)) = IF i <= j THEN j - i + 1 ELSE 0
      /\ \A k \in 1 .. j - i + 1 : SubSeq(s, i, j)[k] = s[i + k - 1]
  BY <1>2, SubSeqProperties
<1>4. \A k \in 1 .. Len(SubSeq(s, i, j)) :
        i + k - 1 \in DOMAIN s /\ SubSeq(s, i, j)[k] = s[i + k - 1]
  BY <1>1, <1>3
<1>5. DOMAIN SubSeq(s, i, j) = 1 .. Len(SubSeq(s, i, j))
  BY <1>3, LenProperties
<1>6. QED
  BY <1>3, <1>4, <1>5 DEF Free

LEMMA BeforeProperties ==
  ASSUME NEW T, NEW s \in Seq(T), NEW S
  PROVE  /\ Before(s, S) \in Seq(T)
         /\ Len(Before(s, S)) = First(s, S) - 1
         /\ \A k \in 1 .. Len(Before(s, S)) : Before(s, S)[k] = s[k]
         /\ Free(Before(s, S), S)
         /\ \A U : Free(s, U) => Free(Before(s, S), U)
<1> DEFINE n == First(s, S)
<1>1. n \in 1 .. Len(s) + 1 /\ Len(s) \in Nat /\ \A j \in 1 .. n - 1 : s[j] \notin S
  BY FirstProperties, LenProperties
<1> HIDE DEF n
<1>2. n - 1 \in Int /\ n - 1 <= Len(s) /\ 1 \in Nat \ {0}
  BY <1>1
<1>3. /\ SubSeq(s, 1, n - 1) \in Seq(T)
      /\ Len(SubSeq(s, 1, n - 1)) = IF 1 <= n - 1 THEN n - 1 - 1 + 1 ELSE 0
      /\ \A k \in 1 .. Len(SubSeq(s, 1, n - 1)) : SubSeq(s, 1, n - 1)[k] = s[1 + k - 1]
      /\ \A U : Free(s, U) => Free(SubSeq(s, 1, n - 1), U)
  BY <1>2, PieceProperties
<1>4. Len(SubSeq(s, 1, n - 1)) = n - 1
  BY <1>1, <1>3
<1>5. \A k \in 1 .. n - 1 : SubSeq(s, 1, n - 1)[k] = s[k]
  BY <1>1, <1>3, <1>4
<1>6. DOMAIN SubSeq(s, 1, n - 1) = 1 .. n - 1
  BY <1>3, <1>4, LenProperties
<1>7. Free(SubSeq(s, 1, n - 1), S)
  BY <1>1, <1>5, <1>6 DEF Free
<1>8. QED
  BY <1>3, <1>4, <1>5, <1>7 DEF Before, n

LEMMA AfterProperties ==
  ASSUME NEW T, NEW s \in Seq(T), NEW S
  PROVE  /\ After(s, S) \in Seq(T)
         /\ \A U : Free(s, U) => Free(After(s, S), U)
<1>1. First(s, S) + 1 \in Nat \ {0} /\ Len(s) \in Int /\ Len(s) <= Len(s)
  BY FirstProperties, LenProperties
<1>2. QED
  BY <1>1, PieceProperties DEF After

-----------------------------------------------------------------------------
(* What load makes of a line *)

FlagsType == flags_ \in Seq(FlagChar) \ {<<>>}

LEMMA FlagChars ==
  ASSUME FlagsType
  PROVE  Flags(flags_) \subseteq FlagChar /\ flags_[1] \in Flags(flags_)
<1>1. DOMAIN flags_ = 1 .. Len(flags_) /\ Len(flags_) \in Nat /\ Len(flags_) # 0
  BY LenProperties, EmptySeq DEF FlagsType
<1>2. \A i \in DOMAIN flags_ : flags_[i] \in FlagChar
  BY <1>1, ElementOfSeq DEF FlagsType
<1>3. 1 \in DOMAIN flags_
  BY <1>1
<1>4. flags_[1] \in Flags(flags_)
  BY <1>3 DEF Flags
<1>5. Flags(flags_) \subseteq FlagChar
  BY <1>2 DEF Flags
<1>6. QED
  BY <1>4, <1>5

(* The code of a line that is no comment holds no flag, and what is behind *)
(* it begins with one.                                                     *)
LEMMA CodeProperties ==
  ASSUME NEW line \in Text
  PROVE  /\ Code(line) \in Text /\ Behind(line) \in Text
         /\ ~isComment(line) => Free(Code(line), Flags(flags_))
         /\ Behind(line) # <<>> => isComment(Behind(line))
<1> DEFINE F == Flags(flags_)
           n == First(line, F)
<1>1. line \in Seq(Char) /\ Len(line) \in Nat
  BY LenProperties DEF Text
<1>2. n \in 1 .. Len(line) + 1 /\ (n <= Len(line) => line[n] \in F)
  BY <1>1, FirstProperties
<1>3. /\ Before(line, F) \in Seq(Char)
      /\ Len(Before(line, F)) = n - 1
      /\ Free(Before(line, F), F)
  BY <1>1, BeforeProperties
<1>4. Code(line) \in Text
  BY <1>1, <1>3 DEF Code, Text
<1>5. ~isComment(line) => Code(line) = Before(line, F)
  BY DEF Code
<1>6. isComment(line) => Code(line) = line
  BY DEF Code
<1> DEFINE m == Len(Code(line))
<1>7. m \in 0 .. Len(line) /\ (isComment(line) => m = Len(line)) /\ (~isComment(line) => m = n - 1)
  BY <1>1, <1>2, <1>3, <1>5, <1>6
<1> HIDE DEF m, n, F
<1>8. /\ SubSeq(line, m + 1, Len(line)) \in Seq(Char)
      /\ Len(SubSeq(line, m + 1, Len(line))) = IF m + 1 <= Len(line) THEN Len(line) - (m + 1) + 1 ELSE 0
      /\ \A k \in 1 .. Len(SubSeq(line, m + 1, Len(line))) :
           SubSeq(line, m + 1, Len(line))[k] = line[m + 1 + k - 1]
  <2>1. m + 1 \in Nat \ {0} /\ Len(line) \in Int /\ Len(line) <= Len(line)
    BY <1>1, <1>7
  <2>2. QED
    BY <1>1, <2>1, PieceProperties
<1>9. Behind(line) = SubSeq(line, m + 1, Len(line))
  BY DEF Behind, m
<1>10. ASSUME Behind(line) # <<>>
       PROVE  isComment(Behind(line))
  <2>1. Len(Behind(line)) \in Nat /\ Len(Behind(line)) # 0
    BY <1>8, <1>9, <1>10, LenProperties, EmptySeq
  <2>2. m + 1 <= Len(line)
    BY <1>1, <1>7, <1>8, <1>9, <2>1
  <2>3. m = n - 1 /\ n <= Len(line)
    BY <1>1, <1>2, <1>7, <2>2
  <2>4. Behind(line)[1] = line[m + 1]
    BY <1>7, <1>8, <1>9, <2>1
  <2>5. Behind(line)[1] \in F
    BY <1>2, <2>3, <2>4
  <2>6. QED
    BY <1>10, <2>5 DEF isComment, F
<1>11. QED
  BY <1>3, <1>4, <1>5, <1>8, <1>9, <1>10 DEF Text, F

(* What is put together of comments is a comment, and each line of it      *)
(* begins with a flag if each of them does.                                *)
LEMMA JoinedProperties ==
  ASSUME NEW c \in Comment, NEW text \in Text
  PROVE  /\ Joined(c, text) \in Comment
         /\ CommentStorable(c) /\ (text # <<>> => isComment(text)) =>
              CommentStorable(Joined(c, text))
<1>1. CASE text = <<>>
  BY <1>1 DEF Joined
<1>2. CASE text # <<>> /\ c = <<>>
  <2>1. Joined(c, text) = <<text>>
    BY <1>2 DEF Joined
  <2>2. <<text>> \in Seq(Text) /\ DOMAIN <<text>> = {1} /\ <<text>>[1] = text
    OBVIOUS
  <2>3. QED
    BY <1>2, <2>1, <2>2 DEF Comment, CommentStorable
<1>3. CASE text # <<>> /\ c # <<>>
  <2> DEFINE n == Len(c)
             last == c[n] \o text
  <2>1. n \in Nat /\ n # 0 /\ DOMAIN c = 1 .. n
    BY <1>3, LenProperties, EmptySeq DEF Comment
  <2>2. n \in DOMAIN c /\ c[n] \in Text
    BY <2>1, ElementOfSeq DEF Comment
  <2>3. last \in Text
    BY <2>2, ConcatProperties DEF Text
  <2>4. Joined(c, text) = [c EXCEPT ![n] = last]
    BY <1>3 DEF Joined
  <2>5. \A i \in DOMAIN c : [c EXCEPT ![n] = last][i] = IF i = n THEN last ELSE c[i]
    BY <2>2
  <2> HIDE DEF n
  <2>6. [c EXCEPT ![n] = last] \in Seq(Text)
    BY <2>2, <2>3, <2>1, ExceptSeq DEF Comment
  <2>7. ASSUME isComment(c[n])
        PROVE  isComment(last)
    <3>1. c[n] # <<>> /\ c[n][1] \in Flags(flags_)
      BY <2>7 DEF isComment
    <3>2. Len(c[n]) \in Nat /\ Len(c[n]) # 0 /\ Len(text) \in Nat
      BY <2>2, <3>1, LenProperties, EmptySeq DEF Text
    <3>3. Len(last) = Len(c[n]) + Len(text) /\ last[1] = c[n][1]
      BY <2>2, <3>2, ConcatProperties DEF Text
    <3>4. last # <<>>
      BY <3>2, <3>3
    <3>5. QED
      BY <3>1, <3>3, <3>4 DEF isComment
  <2>8. ASSUME CommentStorable(c)
        PROVE  CommentStorable([c EXCEPT ![n] = last])
    <3>1. \A i \in DOMAIN c : isComment(c[i])
      BY <2>8 DEF CommentStorable
    <3>2. isComment(last)
      BY <3>1, <2>2, <2>7
    <3>3. \A i \in DOMAIN c : isComment([c EXCEPT ![n] = last][i])
      BY <3>1, <3>2, <2>5
    <3>4. DOMAIN [c EXCEPT ![n] = last] = DOMAIN c
      OBVIOUS
    <3>5. QED
      BY <3>3, <3>4 DEF CommentStorable
  <2>9. QED
    BY <2>4, <2>6, <2>8 DEF Comment
<1>4. QED
  BY <1>1, <1>2, <1>3

(* An item that load makes has a key and a value it reads back. *)
LEMMA ItemProperties ==
  ASSUME NEW line \in Text, comment \in Comment, FlagsType
  PROVE  /\ Item(line) \in ItemType
         /\ IsItem(line) /\ CommentStorable(comment) => ItemStorable(Item(line))
<1> DEFINE code  == Code(line)
           key   == Before(code, {"="})
           value == After(code, {"="})
<1>1. /\ code \in Text /\ Behind(line) \in Text
      /\ ~isComment(line) => Free(code, Flags(flags_))
      /\ Behind(line) # <<>> => isComment(Behind(line))
  BY CodeProperties
<1>2. /\ Pending(line) \in Comment
      /\ CommentStorable(comment) => CommentStorable(Pending(line))
  BY <1>1, JoinedProperties DEF Pending
<1>3. Item(line) = [key |-> key, value |-> value, comment |-> Pending(line)]
  BY DEF Item
<1>4. IsItem(line) => code # <<>> /\ code[1] # "[" /\ ~isComment(line)
  BY DEF IsItem, IsHeader
<1> HIDE DEF code
<1>5. /\ key \in Text
      /\ Len(key) = First(code, {"="}) - 1
      /\ \A k \in 1 .. Len(key) : key[k] = code[k]
      /\ Free(key, {"="})
      /\ \A U : Free(code, U) => Free(key, U)
  BY <1>1, BeforeProperties DEF Text
<1>6. value \in Text /\ \A U : Free(code, U) => Free(value, U)
  BY <1>1, AfterProperties DEF Text
<1> HIDE DEF key, value
<1>7. Item(line) \in ItemType
  BY <1>2, <1>3, <1>5, <1>6 DEF ItemType
<1>8. ASSUME IsItem(line), CommentStorable(comment)
      PROVE  ItemStorable(Item(line))
  <2>1. Free(key, Flags(flags_)) /\ Free(value, Flags(flags_))
    BY <1>1, <1>4, <1>5, <1>6, <1>8
  <2>2. Free(key, {"="} \cup Flags(flags_))
    BY <2>1, <1>5 DEF Free
  <2>3. key # <<>> => key[1] # "["
    <3>1. SUFFICES ASSUME key # <<>> PROVE key[1] = code[1]
      BY <1>4, <1>8
    <3>2. Len(key) \in Nat /\ Len(key) # 0
      BY <3>1, <1>5, LenProperties, EmptySeq DEF Text
    <3>3. 1 \in 1 .. Len(key)
      BY <3>2
    <3>4. QED
      BY <3>3, <1>5
  <2>4. QED
    BY <2>1, <2>2, <2>3, <1>2, <1>3, <1>8 DEF ItemStorable
<1>9. QED
  BY <1>7, <1>8

(* The name in a header is a text that a header can hold. *)
LEMMA HeaderProperties ==
  ASSUME NEW line \in Text, FlagsType, IsHeader(line), HeaderEnd(line) \in 3 .. Len(Code(line))
  PROVE  /\ HeaderName(line) \in Text /\ HeaderName(line) # <<>>
         /\ Free(HeaderName(line), {"]"} \cup Flags(flags_))
<1> DEFINE code == Code(line)
           n    == HeaderEnd(line)
<1>1. /\ code \in Text
      /\ ~isComment(line) => Free(code, Flags(flags_))
  BY CodeProperties
<1>2. ~isComment(line)
  <2>1. "[" \notin Flags(flags_)
    BY FlagChars DEF FlagChar
  <2>2. SUFFICES ASSUME isComment(line) PROVE FALSE
    OBVIOUS
  <2>3. line[1] \in Flags(flags_) /\ Code(line) = line
    BY <2>2 DEF isComment, Code
  <2>4. line[1] = "["
    BY <2>3 DEF IsHeader
  <2>5. QED
    BY <2>1, <2>3, <2>4
<1>3. n = First(code, {"]"})
  BY DEF HeaderEnd
<1>4. n \in 3 .. Len(code)
  OBVIOUS
<1>5. HeaderName(line) = SubSeq(code, 2, n - 1)
  BY DEF HeaderName
<1> HIDE DEF code, n
<1>6. Len(code) \in Nat /\ \A j \in 1 .. n - 1 : code[j] # "]"
  BY <1>1, <1>3, FirstProperties, LenProperties DEF Text
<1> DEFINE name == SubSeq(code, 2, n - 1)
<1>7. 2 \in Nat \ {0} /\ n - 1 \in Int /\ n - 1 <= Len(code)
  BY <1>4, <1>6
<1>8. /\ name \in Seq(Char)
      /\ Len(name) = IF 2 <= n - 1 THEN n - 1 - 2 + 1 ELSE 0
      /\ \A k \in 1 .. Len(name) : name[k] = code[2 + k - 1]
      /\ \A S : Free(code, S) => Free(name, S)
  BY <1>1, <1>7, PieceProperties DEF Text
<1> HIDE DEF name
<1>9. Len(name) = n - 2 /\ DOMAIN name = 1 .. Len(name)
  BY <1>4, <1>6, <1>8, LenProperties
<1>10. name # <<>>
  BY <1>4, <1>6, <1>9
<1>11. Free(name, {"]"})
  <2>1. SUFFICES ASSUME NEW k \in DOMAIN name PROVE name[k] # "]"
    BY DEF Free
  <2>2. 2 + k - 1 \in 1 .. n - 1 /\ name[k] = code[2 + k - 1]
    BY <1>4, <1>6, <1>8, <1>9
  <2>3. QED
    BY <1>6, <2>2
<1>12. Free(name, Flags(flags_))
  BY <1>1, <1>2, <1>8
<1>13. Free(name, {"]"} \cup Flags(flags_))
  BY <1>11, <1>12 DEF Free
<1>14. QED
  BY <1>5, <1>8, <1>10, <1>13 DEF Text, name

-----------------------------------------------------------------------------
(* Types *)

(* Between two calls load and saveas have no section in hand. *)
Idle == pc = "ready" => section = None /\ left = {}

SectionsType ==
  /\ DOMAIN sections_ \subseteq Text
  /\ \A s \in DOMAIN sections_ : sections_[s] \in SectionType

LEMMA StorableUnchanged ==
  ASSUME flags_' = flags_
  PROVE  /\ \A s, sect : Storable(s, sect)' <=> Storable(s, sect)
         /\ \A c : CommentStorable(c)' <=> CommentStorable(c)
BY DEF Storable, ItemStorable, CommentStorable, isComment

LEMMA EmptyTexts ==
  /\ <<>> \in Text /\ <<>> \in Comment /\ <<>> \in Seq(Text)
  /\ NewSection(<<>>) \in SectionType
<1>1. <<>> \in Text /\ <<>> \in Comment /\ <<>> \in Seq(Text) /\ <<>> \in Seq(ItemType)
  BY EmptySeq DEF Text, Comment
<1>2. QED
  BY <1>1 DEF NewSection, SectionType

(* A section put in its place. *)
LEMMA WithType ==
  ASSUME SectionsType, NEW s \in Text, NEW sect \in SectionType
  PROVE  /\ DOMAIN With(s, sect) = DOMAIN sections_ \cup {s}
         /\ DOMAIN With(s, sect) \subseteq Text
         /\ \A t \in DOMAIN With(s, sect) : With(s, sect)[t] \in SectionType
BY DEF With, SectionsType

LEMMA LoadTypes ==
  ASSUME TypeOK, Idle, Load \/ LoadEnds
  PROVE  TypeOK' /\ Idle'
<1>1. IniAssumption /\ FlagsType
  BY IniAssumption DEF TypeOK, FlagsType
<1>2. CASE Load
  <2>1. sections_' = [s \in {<<>>} |-> NewSection(<<>>)] \/ sections_' = NoSections
    BY <1>2 DEF Load
  <2>2. DOMAIN sections_' \subseteq Text /\ \A s \in DOMAIN sections_' : sections_'[s] \in SectionType
    BY <2>1, EmptyTexts DEF NoSections
  <2>3. /\ section' \in DOMAIN sections_' \cup {None} /\ comment' \in Comment
        /\ left' = {} /\ (pc' = "ready" => section' = None)
    BY <1>2, EmptyTexts DEF Load, Call, Idle
  <2>4. calls' \in 0 .. MaxCalls
    BY <1>1, <1>2 DEF Load, Call, TypeOK
  <2>5. pc' \in {"load", "ready"} /\ ret' \in {0, -1}
    BY <1>2 DEF Load, Call, TypeOK
  <2>6. QED
    BY <1>2, <2>2, <2>3, <2>4, <2>5 DEF Load, TypeOK, Idle
<1>3. CASE LoadEnds
  BY <1>3, EmptyTexts DEF LoadEnds, Stop, Returned, objectVars, historyVars, TypeOK, Idle, Comment, Text
<1>4. QED
  BY <1>2, <1>3

LEMMA ReadTypes ==
  ASSUME TypeOK, Idle, ReadLine
  PROVE  TypeOK' /\ Idle'
<1>1. FlagsType /\ comment \in Comment /\ SectionsType /\ pc = "load" /\ disk \in Seq(Text)
  BY DEF ReadLine, TypeOK, FlagsType, SectionsType
<1> DEFINE line == disk[at]
<1>2. line \in Text
  <2>1. at \in 1 .. Len(disk)
    BY LenProperties DEF ReadLine, TypeOK
  <2>2. QED
    BY <2>1, <1>1, ElementOfSeq
<1>3. /\ Pending(line) \in Comment
      /\ Item(line) \in ItemType
  <2>1. Behind(line) \in Text
    BY <1>2, CodeProperties
  <2>2. QED
    BY <2>1, <1>1, <1>2, JoinedProperties, ItemProperties DEF Pending
<1>4. \/ Blank(line) \/ CommentLine(line) \/ Header(line) \/ NamelessHeader(line)
      \/ BadHeader(line) \/ AddItem(line) \/ DropLine(line)
  BY DEF ReadLine
<1> HIDE DEF line
<1>5. ASSUME Advance,
             DOMAIN sections_' \subseteq Text /\ (\A s \in DOMAIN sections_' : sections_'[s] \in SectionType),
             section' \in DOMAIN sections_' \cup {None}, comment' \in Comment,
             DOMAIN sections_ \subseteq DOMAIN sections_'
      PROVE  TypeOK' /\ Idle'
  BY <1>1, <1>5 DEF Advance, historyVars, TypeOK, Idle
<1>6. ASSUME Stop, pc' \in {"ready", "gone"}, ret' \in {0, -1}
      PROVE  TypeOK' /\ Idle'
  BY <1>6, EmptyTexts DEF Stop, Returned, objectVars, historyVars, TypeOK, Idle
<1>7. CASE Blank(line) \/ CommentLine(line) \/ DropLine(line) \/ NamelessHeader(line)
  <2>1. UNCHANGED sections_ /\ section' \in DOMAIN sections_' \cup {None} /\ Advance
    BY <1>7 DEF Blank, CommentLine, DropLine, NamelessHeader, TypeOK
  <2>2. comment' \in Comment
    <3>1. Append(comment, line) \in Comment
      BY <1>1, <1>2, AppendProperties DEF Comment
    <3>2. QED
      BY <3>1, <1>1, <1>3, <1>7, EmptyTexts DEF Blank, CommentLine, DropLine, NamelessHeader
  <2>3. QED
    BY <1>1, <2>1, <2>2, <1>5 DEF SectionsType
<1>8. CASE Header(line)
  <2>1. HeaderName(line) \in Text
    BY <1>1, <1>2, <1>8, HeaderProperties DEF Header
  <2>2. NewSection(Pending(line)) \in SectionType
    BY <1>3, EmptySeq DEF NewSection, SectionType
  <2>3. DOMAIN sections_' \subseteq Text /\ \A s \in DOMAIN sections_' : sections_'[s] \in SectionType
    BY <1>1, <1>8, <2>1, <2>2, WithType DEF Header
  <2>4. /\ sections_' = With(HeaderName(line), NewSection(Pending(line)))
        /\ section' = HeaderName(line) /\ comment' \in Comment /\ Advance
    BY <1>8, EmptyTexts DEF Header, AfterHeader
  <2>5. DOMAIN sections_' = DOMAIN sections_ \cup {HeaderName(line)}
    BY <1>1, <2>1, <2>2, <2>4, WithType
  <2>6. QED
    BY <2>3, <2>4, <2>5, <1>5
<1>9. CASE AddItem(line)
  <2>1. CASE section = None
    <3>1. Stop /\ pc' = "gone" /\ ret' = ret
      BY <1>9, <2>1 DEF AddItem
    <3>2. QED
      BY <3>1, <1>6 DEF TypeOK
  <2>2. CASE section # None
    <3>1. sections_' = [sections_ EXCEPT ![section].items = Append(@, Item(line))]
      BY <1>9, <2>2 DEF AddItem
    <3>2. ASSUME NEW s \in DOMAIN sections_ PROVE sections_'[s] \in SectionType
      <4>1. sections_[s] \in SectionType
        BY <1>1 DEF SectionsType
      <4>2. Append(sections_[s].items, Item(line)) \in Seq(ItemType)
        BY <4>1, <1>3, AppendProperties DEF SectionType
      <4>3. [sections_[s] EXCEPT !.items = Append(sections_[s].items, Item(line))] \in SectionType
        BY <4>1, <4>2 DEF SectionType
      <4>4. QED
        BY <3>1, <4>1, <4>3
    <3>3. DOMAIN sections_' = DOMAIN sections_
      BY <3>1
    <3>4. section' \in DOMAIN sections_' \cup {None} /\ comment' \in Comment /\ Advance
      BY <1>9, <2>2, EmptyTexts DEF AddItem, TypeOK
    <3>5. QED
      BY <1>1, <3>2, <3>3, <3>4, <1>5 DEF SectionsType
  <2>3. QED
    BY <2>1, <2>2
<1>10. CASE BadHeader(line)
  <2>1. Stop /\ pc' = "ready" /\ ret' = -1
    BY <1>10 DEF BadHeader
  <2>2. QED
    BY <2>1, <1>6
<1>11. QED
  BY <1>4, <1>7, <1>8, <1>9, <1>10

LEMMA FirstFlags == DefaultFlags \in Seq(FlagChar) \ {<<>>}
<1>1. "#" \in FlagChar /\ ";" \in FlagChar
  BY DEF FlagChar
<1>2. \A a, b \in FlagChar : <<a, b>> \in Seq(FlagChar)
  OBVIOUS
<1>3. Len(<<"#", ";">>) = 2 /\ Len(<<>>) = 0
  OBVIOUS
<1>4. QED
  BY <1>1, <1>2, <1>3 DEF DefaultFlags

LEMMA SaveTypes ==
  ASSUME TypeOK, Idle, Save \/ Killed \/ Restart
  PROVE  TypeOK' /\ Idle'
<1>1. CASE SaveBegins
  <2>1. calls' \in 0 .. MaxCalls
    BY <1>1, IniAssumption DEF SaveBegins, Call, TypeOK, IniAssumption
  <2>2. left' = DOMAIN sections_ /\ data' \in Seq(Text)
    BY <1>1, EmptyTexts DEF SaveBegins
  <2>3. QED
    BY <1>1, <2>1, <2>2 DEF SaveBegins, objectVars, historyVars, TypeOK, Idle
<1>2. CASE SaveUnnamed
  <2>1. calls' \in 0 .. MaxCalls
    BY <1>2, IniAssumption DEF SaveUnnamed, Call, TypeOK, IniAssumption
  <2>2. QED
    BY <1>2, <2>1 DEF SaveUnnamed, objectVars, loopVars, historyVars, TypeOK, Idle
<1>3. CASE RenderSection
  <2> DEFINE s == NextSection
  <2>1. s \in left /\ left \subseteq DOMAIN sections_ /\ pc = "save"
    <3>1. \E x \in left : <<>> \in left => x = <<>>
      BY <1>3 DEF RenderSection
    <3>2. QED
      BY <1>3, <3>1 DEF RenderSection, NextSection, TypeOK
  <2> HIDE DEF s
  <2>2. s \in Text /\ sections_[s].comment \in Seq(Text)
    BY <2>1 DEF TypeOK, SectionType, Comment
  <2>3. <<<<"[">> \o s \o <<"]">>>> \in Seq(Text)
    <3>1. "[" \in Char /\ "]" \in Char
      BY DEF Char
    <3>2. <<"[">> \in Seq(Char) /\ <<"]">> \in Seq(Char) /\ s \in Seq(Char)
      BY <2>2, <3>1 DEF Text
    <3>3. <<"[">> \o s \in Seq(Char)
      BY <3>2, ConcatProperties
    <3>4. <<"[">> \o s \o <<"]">> \in Text
      BY <3>2, <3>3, ConcatProperties DEF Text
    <3> DEFINE h == <<"[">> \o s \o <<"]">>
    <3> HIDE DEF h
    <3>5. <<h>> \in Seq(Text)
      BY <3>4 DEF h
    <3>6. QED
      BY <3>5 DEF h
  <2> DEFINE header == IF s = <<>> THEN <<>> ELSE <<<<"[">> \o s \o <<"]">>>>
  <2>4. header \in Seq(Text)
    BY <2>3, EmptySeq
  <2>5. data' = data \o sections_[s].comment \o header
    BY <1>3 DEF RenderSection, s
  <2> HIDE DEF header
  <2>6. data \o sections_[s].comment \in Seq(Text)
    BY <2>2, ConcatProperties DEF TypeOK
  <2>7. data' \in Seq(Text)
    BY <2>4, <2>5, <2>6, ConcatProperties
  <2>8. section' = s /\ left' = left \ {s} /\ at' = 1
    BY <1>3 DEF RenderSection, s
  <2>9. QED
    BY <1>3, <2>1, <2>2, <2>7, <2>8 DEF RenderSection, objectVars, historyVars, TypeOK, Idle
<1>4. CASE RenderItem
  <2> DEFINE item == sections_[section].items[at]
  <2>1. section # None /\ at <= Len(sections_[section].items) /\ pc = "save"
    <3>1. section # None /\ ~(at > Len(sections_[section].items)) /\ pc = "save"
      BY <1>4 DEF RenderItem, ItemsDone
    <3>2. sections_[section].items \in Seq(ItemType)
      BY <3>1 DEF Idle, TypeOK, SectionType
    <3>3. Len(sections_[section].items) \in Nat
      BY <3>2, LenProperties
    <3>4. QED
      BY <3>1, <3>3 DEF TypeOK
  <2>2. item \in ItemType
    <3>1. sections_[section].items \in Seq(ItemType)
      BY <2>1 DEF Idle, TypeOK, SectionType
    <3>2. at \in 1 .. Len(sections_[section].items)
      BY <2>1, <3>1, LenProperties DEF TypeOK
    <3>3. QED
      BY <3>1, <3>2, ElementOfSeq
  <2>3. data' = data \o Rendered(item) /\ at' = at + 1
    BY <1>4 DEF RenderItem
  <2> HIDE DEF item
  <2>4. Rendered(item) \in Seq(Text)
    <3>1. item.key \in Seq(Char) /\ item.value \in Seq(Char) /\ item.comment \in Seq(Text)
      BY <2>2 DEF ItemType, Text, Comment
    <3>2. <<"=">> \in Seq(Char)
      BY DEF Char
    <3>3. <<"=">> \o item.value \in Seq(Char) /\ item.key \o <<"=">> \in Seq(Char)
      BY <3>1, <3>2, ConcatProperties
    <3>4. item.key \o <<"=">> \o item.value \in Text
      BY <3>1, <3>3, ConcatProperties DEF Text
    <3> DEFINE t == item.key \o <<"=">> \o item.value
    <3> HIDE DEF t
    <3>5. <<t>> \in Seq(Text)
      BY <3>4 DEF t
    <3>6. item.comment \o <<t>> \in Seq(Text)
      BY <3>1, <3>5, ConcatProperties
    <3>7. QED
      BY <3>6 DEF Rendered, t
  <2>5. data' \in Seq(Text)
    BY <2>3, <2>4, ConcatProperties DEF TypeOK
  <2>6. QED
    BY <1>4, <2>3, <2>5 DEF RenderItem, objectVars, historyVars, TypeOK, Idle
<1>5. CASE OpenForWriting
  BY <1>5, EmptyTexts DEF OpenForWriting, objectVars, loopVars, TypeOK, Idle
<1>6. CASE Write
  BY <1>6, EmptyTexts DEF Write, Returned, objectVars, TypeOK, Idle
<1>7. CASE Killed
  BY <1>7 DEF Killed, objectVars, loopVars, historyVars, TypeOK, Idle
<1>8. CASE Restart
  <2>1. flags_' \in Seq(FlagChar) \ {<<>>}
    BY <1>8, FirstFlags DEF Restart
  <2>2. DOMAIN sections_' = {}
    BY <1>8 DEF Restart, NoSections
  <2>3. /\ at' = 1 /\ section' = None /\ comment' \in Comment
        /\ left' = {} /\ data' \in Seq(Text)
    BY <1>8, EmptyTexts DEF Restart, Returned
  <2>4. /\ pc' = "ready" /\ fname_' = FALSE /\ edited' = "yes"
        /\ UNCHANGED <<disk, ret, calls, original>>
    BY <1>8 DEF Restart
  <2>5. /\ DOMAIN sections_' \subseteq Text /\ left' \subseteq DOMAIN sections_'
        /\ \A s \in DOMAIN sections_' : sections_'[s] \in SectionType
        /\ section' \in DOMAIN sections_' \cup {None} /\ at' \in Nat \ {0}
    BY <2>2, <2>3
  <2>6. /\ disk' \in Seq(Text) /\ original' \in Seq(Text)
        /\ ret' \in {0, -1} /\ calls' \in 0 .. MaxCalls
    BY <2>4 DEF TypeOK
  <2>7. QED
    BY <2>1, <2>3, <2>4, <2>5, <2>6 DEF TypeOK, Idle
<1>9. QED
  BY <1>1, <1>2, <1>3, <1>4, <1>5, <1>6, <1>7, <1>8 DEF Save

LEMMA PlaceType ==
  ASSUME NEW items \in Seq(ItemType), NEW k
  PROVE  Place(items, k) \in 1 .. Len(items) + 1
<1> DEFINE keys == [i \in DOMAIN items |-> items[i].key]
<1>1. DOMAIN items = 1 .. Len(items) /\ Len(items) \in Nat
  BY LenProperties
<1>2. \A i \in DOMAIN items : items[i] \in ItemType
  BY <1>1, ElementOfSeq
<1>3. \A i \in DOMAIN items : items[i].key \in Text
  BY <1>2 DEF ItemType
<1>4. keys \in [1 .. Len(items) -> Text]
  BY <1>1, <1>3
<1>5. keys \in Seq(Text) /\ Len(keys) = Len(items)
  <2>1. keys \in Seq(Text)
    BY <1>1, <1>4, SeqDef
  <2>2. DOMAIN keys = 1 .. Len(keys) /\ DOMAIN keys = DOMAIN items /\ Len(keys) \in Nat
    BY <2>1, LenProperties
  <2>3. QED
    BY <1>1, <2>1, <2>2
<1> HIDE DEF keys
<1>6. First(keys, {k}) \in 1 .. Len(keys) + 1
  BY <1>5, FirstProperties
<1>7. QED
  BY <1>5, <1>6 DEF Place, keys

(* The items without one of them are some of the items. *)
LEMMA WithoutProperties ==
  ASSUME NEW items \in Seq(ItemType), NEW i \in 1 .. Len(items)
  PROVE  LET rest == SubSeq(items, 1, i - 1) \o SubSeq(items, i + 1, Len(items))
         IN  /\ rest \in Seq(ItemType)
             /\ \A j \in DOMAIN rest : \E m \in DOMAIN items : rest[j] = items[m]
<1> DEFINE front == SubSeq(items, 1, i - 1)
           back  == SubSeq(items, i + 1, Len(items))
           rest  == front \o back
<1>1. Len(items) \in Nat /\ DOMAIN items = 1 .. Len(items)
  BY LenProperties
<1>2. /\ front \in Seq(ItemType)
      /\ Len(front) = IF 1 <= i - 1 THEN i - 1 - 1 + 1 ELSE 0
      /\ \A k \in 1 .. Len(front) : front[k] = items[1 + k - 1]
  <2>1. 1 \in Nat \ {0} /\ i - 1 \in Int /\ i - 1 <= Len(items)
    BY <1>1
  <2>2. QED
    BY <2>1, PieceProperties
<1>3. /\ back \in Seq(ItemType)
      /\ Len(back) = IF i + 1 <= Len(items) THEN Len(items) - (i + 1) + 1 ELSE 0
      /\ \A k \in 1 .. Len(back) : back[k] = items[i + 1 + k - 1]
  <2>1. i + 1 \in Nat \ {0} /\ Len(items) \in Int /\ Len(items) <= Len(items)
    BY <1>1
  <2>2. QED
    BY <2>1, PieceProperties
<1> HIDE DEF front, back
<1>4. /\ rest \in Seq(ItemType)
      /\ Len(rest) = Len(front) + Len(back)
      /\ \A k \in 1 .. Len(front) + Len(back) :
           rest[k] = IF k <= Len(front) THEN front[k] ELSE back[k - Len(front)]
  BY <1>2, <1>3, ConcatProperties
<1>5. Len(front) \in Nat /\ Len(back) \in Nat /\ DOMAIN rest = 1 .. Len(rest)
  BY <1>2, <1>3, <1>4, LenProperties
<1>6. ASSUME NEW j \in DOMAIN rest
      PROVE  \E m \in DOMAIN items : rest[j] = items[m]
  <2>1. CASE j <= Len(front)
    <3>1. rest[j] = front[j] /\ front[j] = items[1 + j - 1] /\ 1 + j - 1 \in DOMAIN items
      BY <1>1, <1>2, <1>4, <1>5, <2>1
    <3>2. QED
      BY <3>1
  <2>2. CASE ~(j <= Len(front))
    <3>1. j - Len(front) \in 1 .. Len(back)
      BY <1>4, <1>5, <2>2
    <3>2. /\ rest[j] = back[j - Len(front)]
          /\ back[j - Len(front)] = items[i + 1 + (j - Len(front)) - 1]
      BY <1>3, <1>4, <1>5, <2>2, <3>1
    <3>3. ASSUME NEW m \in 1 .. Len(back) PROVE i + 1 + m - 1 \in DOMAIN items
      <4>1. i + 1 <= Len(items) /\ Len(back) = Len(items) - (i + 1) + 1
        <5>1. Len(back) # 0
          BY <1>5
        <5>2. QED
          BY <5>1, <1>1, <1>3
      <4>2. QED
        BY <4>1, <1>1
    <3>4. QED
      BY <3>1, <3>2, <3>3
  <2>3. QED
    BY <2>1, <2>2
<1>7. QED
  BY <1>4, <1>6 DEF front, back

(* What setValue makes of a section. *)
SetItem(k, v, c) ==
  [key |-> k, value |-> v, comment |-> IF c = <<>> THEN <<>> ELSE <<<<flags_[1]>> \o c>>]

Had(s) == IF s \in DOMAIN sections_ THEN sections_[s] ELSE NewSection(<<>>)

Put(items, k, item) ==
  IF Place(items, k) <= Len(items) THEN [items EXCEPT ![Place(items, k)] = item]
  ELSE Append(items, item)

LEMMA HadType ==
  ASSUME TypeOK, NEW s
  PROVE  Had(s) \in SectionType
BY EmptyTexts DEF Had, TypeOK

LEMMA SetItemProperties ==
  ASSUME TypeOK, NEW k \in Text, NEW v \in Text, NEW c \in Text
  PROVE  SetItem(k, v, c) \in ItemType /\ CommentStorable(SetItem(k, v, c).comment)
<1> DEFINE t == <<flags_[1]>> \o c
           comt == SetItem(k, v, c).comment
<1>1. FlagsType
  BY DEF TypeOK, FlagsType
<1>2. flags_[1] \in Char
  BY <1>1, FlagChars DEF Char
<1>3. t \in Text /\ Len(t) = 1 + Len(c) /\ t[1] = flags_[1]
  <2>1. <<flags_[1]>> \in Seq(Char) /\ Len(<<flags_[1]>>) = 1 /\ <<flags_[1]>>[1] = flags_[1]
    BY <1>2
  <2>2. c \in Seq(Char) /\ Len(c) \in Nat
    BY LenProperties DEF Text
  <2>3. QED
    BY <2>1, <2>2, ConcatProperties DEF Text
<1>4. Len(c) \in Nat
  BY LenProperties DEF Text
<1>5. t # <<>>
  BY <1>3, <1>4, EmptySeq
<1>6. isComment(t)
  BY <1>1, <1>3, <1>5, FlagChars DEF isComment
<1>7. comt = <<>> \/ comt = <<t>>
  BY DEF SetItem
<1> HIDE DEF t, comt
<1>8. <<t>> \in Comment /\ CommentStorable(<<t>>)
  <2>1. <<t>> \in Seq(Text) /\ DOMAIN <<t>> = {1} /\ <<t>>[1] = t
    BY <1>3
  <2>2. QED
    BY <1>6, <2>1 DEF Comment, CommentStorable
<1>9. CommentStorable(<<>>)
  BY DEF CommentStorable
<1>10. comt \in Comment /\ CommentStorable(comt)
  BY <1>7, <1>8, <1>9, EmptyTexts
<1>11. SetItem(k, v, c) \in ItemType
  <2>1. SetItem(k, v, c) = [key |-> k, value |-> v, comment |-> comt]
    BY DEF SetItem, comt
  <2>2. QED
    BY <1>10, <2>1 DEF ItemType
<1>12. QED
  BY <1>10, <1>11 DEF comt

LEMMA PutProperties ==
  ASSUME NEW items \in Seq(ItemType), NEW k, NEW item \in ItemType
  PROVE  /\ Put(items, k, item) \in Seq(ItemType)
         /\ \A j \in DOMAIN Put(items, k, item) :
              \/ Put(items, k, item)[j] = item
              \/ \E m \in DOMAIN items : Put(items, k, item)[j] = items[m]
<1> DEFINE i == Place(items, k)
<1>1. i \in 1 .. Len(items) + 1
  BY PlaceType
<1>2. Len(items) \in Nat /\ DOMAIN items = 1 .. Len(items)
  BY LenProperties
<1> HIDE DEF i
<1>3. CASE i <= Len(items)
  <2>1. Put(items, k, item) = [items EXCEPT ![i] = item]
    BY <1>3 DEF Put, i
  <2>2. [items EXCEPT ![i] = item] \in Seq(ItemType)
    BY <1>1, <1>2, <1>3, ExceptSeq
  <2>3. QED
    BY <2>1, <2>2, <1>1, <1>2, <1>3
<1>4. CASE ~(i <= Len(items))
  <2>1. Put(items, k, item) = Append(items, item)
    BY <1>4 DEF Put, i
  <2>2. /\ Append(items, item) \in Seq(ItemType)
        /\ Len(Append(items, item)) = Len(items) + 1
        /\ \A j \in 1 .. Len(items) : Append(items, item)[j] = items[j]
        /\ Append(items, item)[Len(items) + 1] = item
    BY AppendProperties
  <2>3. DOMAIN Append(items, item) = 1 .. Len(items) + 1
    BY <2>2, LenProperties
  <2>4. QED
    BY <1>2, <2>1, <2>2, <2>3
<1>5. QED
  BY <1>3, <1>4

LEMMA SetValueStep ==
  ASSUME NEW s, NEW k, NEW v, NEW c, setValue(s, k, v, c)
  PROVE  sections_' = With(s, [Had(s) EXCEPT !.items = Put(Had(s).items, k, SetItem(k, v, c))])
BY DEF setValue, Had, Put, SetItem

LEMMA SetterTypes ==
  ASSUME TypeOK, Idle, Setters
  PROVE  TypeOK' /\ Idle'
<1>0. Call
  <2>1. \A s, k, v, c : setValue(s, k, v, c) => Call
    BY DEF setValue, Edit
  <2>2. \A s, c : setSectionComment(s, c) => Call
    BY DEF setSectionComment, Edit
  <2>3. \A s, k : deleteKey(s, k) => Call
    BY DEF deleteKey, Edit
  <2>4. \A s : (deleteSection(s) => Call) /\ (setCommentFlags(s) => Call)
    BY DEF deleteSection, setCommentFlags, Edit
  <2>5. QED
    BY <2>1, <2>2, <2>3, <2>4, Zenon DEF Setters
<1>1. pc = "ready" /\ section = None /\ left = {} /\ SectionsType
  BY <1>0 DEF Call, Idle, TypeOK, SectionsType
<1>2. ASSUME Edit, edited' \in {"no", "yes", "spoilt"},
             DOMAIN sections_' \subseteq Text, \A s \in DOMAIN sections_' : sections_'[s] \in SectionType
      PROVE  TypeOK' /\ Idle'
  <2>1. calls' \in 0 .. MaxCalls
    BY <1>2, IniAssumption DEF Edit, Call, TypeOK, IniAssumption
  <2>2. QED
    BY <1>1, <1>2, <2>1 DEF Edit, loopVars, TypeOK, Idle
<1>3. \A clean : Spoils(clean) \in {"no", "yes", "spoilt"}
  BY DEF Spoils
<1>4. ASSUME NEW s \in Names, NEW k \in Keys, NEW v \in Values, NEW c \in Comments, setValue(s, k, v, c)
      PROVE  TypeOK' /\ Idle'
  <2>1. s \in Text /\ k \in Text /\ v \in Text /\ c \in Text
    BY IniAssumption DEF IniAssumption
  <2> DEFINE items == Put(Had(s).items, k, SetItem(k, v, c))
             sect  == [Had(s) EXCEPT !.items = items]
  <2>2. Had(s) \in SectionType
    BY HadType
  <2>3. items \in Seq(ItemType)
    BY <2>1, <2>2, SetItemProperties, PutProperties DEF SectionType
  <2> HIDE DEF items
  <2>4. sect \in SectionType
    BY <2>2, <2>3 DEF SectionType
  <2>5. sections_' = With(s, sect)
    BY <1>4, SetValueStep DEF items
  <2> HIDE DEF sect
  <2>6. DOMAIN sections_' \subseteq Text /\ \A t \in DOMAIN sections_' : sections_'[t] \in SectionType
    BY <1>1, <2>1, <2>4, <2>5, WithType
  <2>7. Edit /\ edited' \in {"no", "yes", "spoilt"}
    BY <1>3, <1>4 DEF setValue
  <2>8. QED
    BY <2>6, <2>7, <1>2
<1>5. ASSUME NEW s \in Names, NEW c \in Comments, setSectionComment(s, c)
      PROVE  TypeOK' /\ Idle'
  <2> DEFINE d == IF c = <<>> THEN <<>> ELSE <<c>>
  <2>1. d \in Comment
    <3>1. c \in Text
      BY IniAssumption DEF IniAssumption
    <3>2. <<c>> \in Seq(Text)
      BY <3>1
    <3>3. QED
      BY <3>2, EmptyTexts DEF Comment
  <2>2. sections_' = [sections_ EXCEPT ![s].comment = d]
    BY <1>5 DEF setSectionComment
  <2> HIDE DEF d
  <2>3. DOMAIN sections_' \subseteq Text /\ \A t \in DOMAIN sections_' : sections_'[t] \in SectionType
    BY <1>1, <2>1, <2>2 DEF SectionsType, SectionType
  <2>4. Edit /\ edited' \in {"no", "yes", "spoilt"}
    BY <1>3, <1>5 DEF setSectionComment
  <2>5. QED
    BY <2>3, <2>4, <1>2
<1>6. ASSUME NEW s \in Names, NEW k \in Keys, deleteKey(s, k)
      PROVE  TypeOK' /\ Idle'
  <2> DEFINE items == sections_[s].items
             i     == Place(items, k)
             rest  == SubSeq(items, 1, i - 1) \o SubSeq(items, i + 1, Len(items))
  <2>1. s \in DOMAIN sections_ /\ i <= Len(items) /\ sections_' = [sections_ EXCEPT ![s].items = rest]
    BY <1>6 DEF deleteKey
  <2>2. items \in Seq(ItemType)
    BY <1>1, <2>1 DEF SectionsType, SectionType
  <2>3. i \in 1 .. Len(items)
    BY <2>1, <2>2, PlaceType, LenProperties
  <2>4. rest \in Seq(ItemType)
    BY <2>2, <2>3, WithoutProperties
  <2> HIDE DEF rest, i, items
  <2>5. DOMAIN sections_' \subseteq Text /\ \A t \in DOMAIN sections_' : sections_'[t] \in SectionType
    BY <1>1, <2>1, <2>4 DEF SectionsType, SectionType
  <2>6. Edit /\ edited' \in {"no", "yes", "spoilt"}
    BY <1>3, <1>6 DEF deleteKey
  <2>7. QED
    BY <2>5, <2>6, <1>2
<1>7. ASSUME NEW s \in Names, deleteSection(s)
      PROVE  TypeOK' /\ Idle'
  <2>1. DOMAIN sections_' \subseteq Text /\ \A t \in DOMAIN sections_' : sections_'[t] \in SectionType
    BY <1>1, <1>7 DEF deleteSection, SectionsType
  <2>2. Edit /\ edited' \in {"no", "yes", "spoilt"}
    BY <1>3, <1>7 DEF deleteSection
  <2>3. QED
    BY <2>1, <2>2, <1>2
<1>8. ASSUME NEW flags \in FlagLists, setCommentFlags(flags)
      PROVE  TypeOK' /\ Idle'
  <2>1. flags_' \in Seq(FlagChar) \ {<<>>}
    BY <1>8, IniAssumption DEF setCommentFlags, IniAssumption
  <2>2. calls' \in 0 .. MaxCalls
    BY <1>8, IniAssumption DEF setCommentFlags, Call, TypeOK, IniAssumption
  <2>3. QED
    BY <1>1, <1>8, <2>1, <2>2 DEF setCommentFlags, loopVars, TypeOK, Idle
<1>9. QED
  BY <1>4, <1>5, <1>6, <1>7, <1>8 DEF Setters

LEMMA TypesInit == Init => TypeOK /\ Idle
<1> SUFFICES ASSUME Init PROVE TypeOK /\ Idle
  OBVIOUS
<1>1. disk \in Seq(Text)
  BY IniAssumption DEF Init, IniAssumption
<1>2. DOMAIN sections_ = {}
  BY DEF Init, NoSections
<1>3. calls \in 0 .. MaxCalls
  BY IniAssumption DEF Init, IniAssumption
<1>4. /\ original \in Seq(Text) /\ data \in Seq(Text) /\ comment \in Comment
      /\ section = None /\ left = {} /\ at = 1 /\ ret = 0
      /\ flags_ \in Seq(FlagChar) \ {<<>>}
      /\ fname_ = FALSE /\ pc = "ready" /\ edited = "yes"
  BY EmptyTexts, FirstFlags DEF Init
<1>5. /\ DOMAIN sections_ \subseteq Text /\ left \subseteq DOMAIN sections_
      /\ \A s \in DOMAIN sections_ : sections_[s] \in SectionType
      /\ section \in DOMAIN sections_ \cup {None} /\ at \in Nat \ {0}
  BY <1>2, <1>4
<1>6. QED
  BY <1>1, <1>3, <1>4, <1>5 DEF TypeOK, Idle

LEMMA TypesNext == TypeOK /\ Idle /\ [Next]_vars => TypeOK' /\ Idle'
<1> SUFFICES ASSUME TypeOK, Idle, [Next]_vars PROVE TypeOK' /\ Idle'
  OBVIOUS
<1>1. CASE Next
  BY <1>1, LoadTypes, ReadTypes, SaveTypes, SetterTypes DEF Next
<1>2. CASE UNCHANGED vars
  BY <1>2 DEF vars, objectVars, loopVars, historyVars, TypeOK, Idle
<1>3. QED
  BY <1>1, <1>2

(* For any file, any arguments of the setters and any list of flags, every *)
(* variable keeps its type: whatever lines load cuts up at computed        *)
(* places, texts stay texts, and a section it adds to or saveas writes is  *)
(* one of the object's.                                                    *)
THEOREM Typing == Spec => []TypeOK
<1>1. Spec => [](TypeOK /\ Idle)
  BY TypesInit, TypesNext, PTL DEF Spec
<1>2. QED
  BY <1>1, PTL

-----------------------------------------------------------------------------
(* What load makes can be stored *)

(* The comment that load holds for the next item can be stored as well. *)
Sound ==
  edited # "spoilt" =>
    /\ \A s \in DOMAIN sections_ : Storable(s, sections_[s])
    /\ CommentStorable(comment)

LEMMA StorableEmpty ==
  /\ CommentStorable(<<>>)
  /\ Storable(<<>>, NewSection(<<>>))
  /\ \A s : Free(s, {"]"} \cup Flags(flags_)) => Storable(s, NewSection(<<>>))
<1>1. DOMAIN <<>> = {}
  OBVIOUS
<1>2. CommentStorable(<<>>)
  BY <1>1 DEF CommentStorable
<1>3. \A S : Free(<<>>, S)
  BY <1>1 DEF Free
<1>4. QED
  BY <1>1, <1>2, <1>3 DEF Storable, NewSection

(* A section with one more item, or one less, that can be stored. *)
LEMMA StorableItems ==
  ASSUME NEW s, NEW sect \in SectionType, NEW items, Storable(s, sect),
         \A j \in DOMAIN items :
           ItemStorable(items[j]) \/ \E m \in DOMAIN sect.items : items[j] = sect.items[m]
  PROVE  Storable(s, [sect EXCEPT !.items = items])
<1>1. /\ [sect EXCEPT !.items = items].comment = sect.comment
      /\ [sect EXCEPT !.items = items].items = items
  BY DEF SectionType
<1>2. \A m \in DOMAIN sect.items : ItemStorable(sect.items[m])
  BY DEF Storable
<1>3. \A j \in DOMAIN items : ItemStorable(items[j])
  BY <1>2
<1>4. QED
  BY <1>1, <1>3 DEF Storable

LEMMA LoadSound ==
  ASSUME Load
  PROVE  Sound'
<1>1. flags_' = flags_ /\ comment' = <<>>
  BY DEF Load
<1>2. sections_' = [s \in {<<>>} |-> NewSection(<<>>)] \/ sections_' = NoSections
  BY DEF Load
<1>3. \A s \in DOMAIN sections_' : s = <<>> /\ sections_'[s] = NewSection(<<>>)
  BY <1>2 DEF NoSections
<1>4. Storable(<<>>, NewSection(<<>>)) /\ CommentStorable(<<>>)
  BY StorableEmpty
<1>5. \A s \in DOMAIN sections_' : Storable(s, sections_'[s])
  BY <1>3, <1>4
<1>6. QED
  BY <1>1, <1>4, <1>5, StorableUnchanged DEF Sound

LEMMA ReadSound ==
  ASSUME TypeOK, Sound, ReadLine
  PROVE  Sound'
<1>1. FlagsType /\ comment \in Comment /\ SectionsType /\ disk \in Seq(Text)
  BY DEF TypeOK, FlagsType, SectionsType
<1> DEFINE line == disk[at]
<1>2. line \in Text
  <2>1. at \in 1 .. Len(disk)
    BY LenProperties DEF ReadLine, TypeOK
  <2>2. QED
    BY <2>1, <1>1, ElementOfSeq
<1>3. \/ Blank(line) \/ CommentLine(line) \/ Header(line) \/ NamelessHeader(line)
      \/ BadHeader(line) \/ AddItem(line) \/ DropLine(line)
  BY DEF ReadLine
<1> HIDE DEF line
<1>4. flags_' = flags_ /\ edited' = edited
  <2>1. Advance => flags_' = flags_ /\ edited' = edited
    BY DEF Advance, historyVars
  <2>2. Stop => flags_' = flags_ /\ edited' = edited
    BY DEF Stop, objectVars, historyVars
  <2>3. QED
    BY <1>3, <2>1, <2>2 DEF Blank, CommentLine, Header, NamelessHeader, BadHeader, AddItem, DropLine
<1>5. SUFFICES ASSUME edited # "spoilt"
      PROVE  (\A s \in DOMAIN sections_' : Storable(s, sections_'[s])) /\ CommentStorable(comment')
  BY <1>4, StorableUnchanged DEF Sound
<1>6. (\A s \in DOMAIN sections_ : Storable(s, sections_[s])) /\ CommentStorable(comment)
  BY <1>5 DEF Sound
<1>7. CommentStorable(Pending(line)) /\ Pending(line) \in Comment
  <2>1. Behind(line) \in Text /\ (Behind(line) # <<>> => isComment(Behind(line)))
    BY <1>2, CodeProperties
  <2>2. QED
    BY <1>1, <1>6, <2>1, JoinedProperties DEF Pending
<1>8. CommentStorable(<<>>)
  BY StorableEmpty
<1>9. CASE Blank(line) \/ CommentLine(line) \/ DropLine(line) \/ NamelessHeader(line)
  <2>1. UNCHANGED sections_
    BY <1>9 DEF Blank, CommentLine, DropLine, NamelessHeader
  <2>2. comment' = comment \/ comment' = Pending(line) \/ comment' = <<>>
          \/ (comment' = Append(comment, line) /\ isComment(line))
    BY <1>9 DEF Blank, CommentLine, DropLine, NamelessHeader
  <2>3. isComment(line) => CommentStorable(Append(comment, line))
    <3>1. /\ Append(comment, line) \in Seq(Text)
          /\ Len(Append(comment, line)) = Len(comment) + 1 /\ Len(comment) \in Nat
          /\ \A j \in 1 .. Len(comment) : Append(comment, line)[j] = comment[j]
          /\ Append(comment, line)[Len(comment) + 1] = line
      BY <1>1, <1>2, AppendProperties, LenProperties DEF Comment
    <3>2. /\ DOMAIN Append(comment, line) = 1 .. Len(comment) + 1
          /\ DOMAIN comment = 1 .. Len(comment)
      BY <1>1, <3>1, LenProperties DEF Comment
    <3>3. \A j \in DOMAIN comment : isComment(comment[j])
      BY <1>6 DEF CommentStorable
    <3>4. QED
      BY <3>1, <3>2, <3>3 DEF CommentStorable
  <2>4. QED
    BY <1>6, <1>7, <1>8, <2>1, <2>2, <2>3
<1>10. CASE Header(line)
  <2> DEFINE name == HeaderName(line)
  <2>1. /\ name \in Text /\ name # <<>> /\ Free(name, {"]"} \cup Flags(flags_))
        /\ sections_' = With(name, NewSection(Pending(line)))
        /\ comment' = <<>>
    BY <1>1, <1>2, <1>10, HeaderProperties DEF Header, AfterHeader
  <2> HIDE DEF name
  <2>2. Storable(name, NewSection(Pending(line)))
    <3>1. DOMAIN <<>> = {}
      OBVIOUS
    <3>2. QED
      BY <2>1, <3>1, <1>7 DEF Storable, NewSection
  <2>3. \A s \in DOMAIN sections_' :
          \/ s = name /\ sections_'[s] = NewSection(Pending(line))
          \/ s \in DOMAIN sections_ /\ sections_'[s] = sections_[s]
    BY <2>1 DEF With
  <2>4. QED
    BY <1>6, <1>8, <2>1, <2>2, <2>3
<1>11. CASE AddItem(line)
  <2>1. CASE section = None
    <3>1. UNCHANGED sections_ /\ comment' = <<>>
      BY <1>11, <2>1 DEF AddItem, Stop, Returned, objectVars
    <3>2. QED
      BY <3>1, <1>6, <1>8
  <2>2. CASE section # None
    <3> DEFINE items == Append(sections_[section].items, Item(line))
    <3>1. /\ sections_' = [sections_ EXCEPT ![section].items = items]
          /\ comment' = <<>> /\ section \in DOMAIN sections_
      BY <1>11, <2>2 DEF AddItem, TypeOK
    <3>2. Item(line) \in ItemType /\ ItemStorable(Item(line))
      BY <1>1, <1>2, <1>6, <1>11, ItemProperties DEF AddItem
    <3>3. sections_[section] \in SectionType /\ sections_[section].items \in Seq(ItemType)
      BY <1>1, <3>1 DEF SectionsType, SectionType
    <3>4. \A j \in DOMAIN items :
            \/ items[j] = Item(line)
            \/ \E m \in DOMAIN sections_[section].items : items[j] = sections_[section].items[m]
      <4>1. /\ items \in Seq(ItemType)
            /\ Len(items) = Len(sections_[section].items) + 1
            /\ \A j \in 1 .. Len(sections_[section].items) : items[j] = sections_[section].items[j]
            /\ items[Len(sections_[section].items) + 1] = Item(line)
        BY <3>2, <3>3, AppendProperties
      <4>2. /\ DOMAIN items = 1 .. Len(sections_[section].items) + 1
            /\ DOMAIN sections_[section].items = 1 .. Len(sections_[section].items)
            /\ Len(sections_[section].items) \in Nat
        BY <3>3, <4>1, LenProperties
      <4> HIDE DEF items
      <4>3. QED
        BY <4>1, <4>2
    <3> HIDE DEF items
    <3>5. Storable(section, [sections_[section] EXCEPT !.items = items])
      BY <1>6, <3>1, <3>2, <3>3, <3>4, StorableItems
    <3>6. \A s \in DOMAIN sections_' :
            \/ s = section /\ sections_'[s] = [sections_[section] EXCEPT !.items = items]
            \/ s \in DOMAIN sections_ /\ sections_'[s] = sections_[s]
      BY <3>1
    <3>7. QED
      BY <1>6, <1>8, <3>1, <3>5, <3>6
  <2>3. QED
    BY <2>1, <2>2
<1>12. CASE BadHeader(line)
  <2>1. UNCHANGED sections_ /\ comment' = <<>>
    BY <1>12 DEF BadHeader, Stop, Returned, objectVars
  <2>2. QED
    BY <2>1, <1>6, <1>8
<1>13. QED
  BY <1>3, <1>9, <1>10, <1>11, <1>12

LEMMA EditSound ==
  ASSUME TypeOK, Sound, Setters
  PROVE  Sound'
<1>1. SectionsType
  BY DEF TypeOK, SectionsType
<1>2. ASSUME NEW clean, Edit, edited' = Spoils(clean),
             edited # "spoilt" /\ clean /\ Sound =>
               \A s \in DOMAIN sections_' : Storable(s, sections_'[s])
      PROVE  Sound'
  <2>1. flags_' = flags_ /\ comment' = comment
    BY <1>2 DEF Edit, loopVars
  <2>2. edited' # "spoilt" => edited # "spoilt" /\ clean
    BY <1>2 DEF Spoils
  <2>3. QED
    BY <1>2, <2>1, <2>2, StorableUnchanged DEF Sound
<1>3. ASSUME NEW s \in Names, NEW k \in Keys, NEW v \in Values, NEW c \in Comments, setValue(s, k, v, c)
      PROVE  Sound'
  <2>1. s \in Text /\ k \in Text /\ v \in Text /\ c \in Text
    BY IniAssumption DEF IniAssumption
  <2> DEFINE clean == /\ Free(s, {"]"} \cup Flags(flags_))
                      /\ Free(k, {"="} \cup Flags(flags_)) /\ (k # <<>> => k[1] # "[")
                      /\ Free(v, Flags(flags_))
             item  == SetItem(k, v, c)
             items == Put(Had(s).items, k, item)
             sect  == [Had(s) EXCEPT !.items = items]
  <2>2. Edit /\ edited' = Spoils(clean)
    BY <1>3 DEF setValue
  <2>3. sections_' = With(s, sect)
    BY <1>3, SetValueStep
  <2>4. Had(s) \in SectionType /\ Had(s).items \in Seq(ItemType)
    BY HadType DEF SectionType
  <2>5. item \in ItemType /\ CommentStorable(item.comment) /\ item.key = k /\ item.value = v
    BY <2>1, SetItemProperties DEF SetItem
  <2> HIDE DEF item
  <2>6. \A j \in DOMAIN items :
          items[j] = item \/ \E m \in DOMAIN Had(s).items : items[j] = Had(s).items[m]
    BY <2>4, <2>5, PutProperties
  <2> HIDE DEF items
  <2>7. ASSUME edited # "spoilt", clean, Sound, NEW t \in DOMAIN sections_'
        PROVE  Storable(t, sections_'[t])
    <3>1. ItemStorable(item)
      BY <2>5, <2>7 DEF ItemStorable
    <3>2. Storable(s, Had(s))
      BY <2>7, StorableEmpty DEF Sound, Had
    <3>3. Storable(s, sect)
      BY <2>4, <2>6, <3>1, <3>2, StorableItems
    <3>4. \/ t = s /\ sections_'[t] = sect
          \/ t \in DOMAIN sections_ /\ sections_'[t] = sections_[t]
      <4> HIDE DEF sect
      <4>1. QED
        BY <2>3 DEF With
    <3>5. QED
      BY <2>7, <3>3, <3>4 DEF Sound
  <2> HIDE DEF clean
  <2>8. QED
    BY <1>2, <2>2, <2>7
<1>4. ASSUME NEW s \in Names, NEW c \in Comments, setSectionComment(s, c)
      PROVE  Sound'
  <2> DEFINE clean == c # <<>> => s # <<>> /\ isComment(c)
             d     == IF c = <<>> THEN <<>> ELSE <<c>>
  <2>1. /\ Edit /\ edited' = Spoils(clean) /\ s \in DOMAIN sections_
        /\ sections_' = [sections_ EXCEPT ![s].comment = d]
    BY <1>4 DEF setSectionComment
  <2>2. clean => CommentStorable(d) /\ (s = <<>> => d = <<>>)
    <3>1. DOMAIN <<c>> = {1} /\ <<c>>[1] = c
      OBVIOUS
    <3>2. QED
      BY <3>1, StorableEmpty DEF CommentStorable
  <2> HIDE DEF d, clean
  <2>3. ASSUME edited # "spoilt", clean, Sound, NEW t \in DOMAIN sections_'
        PROVE  Storable(t, sections_'[t])
    <3>1. t \in DOMAIN sections_ /\ Storable(t, sections_[t]) /\ sections_[t] \in SectionType
      BY <1>1, <2>1, <2>3 DEF Sound, SectionsType
    <3>2. /\ sections_'[t].items = sections_[t].items
          /\ sections_'[t].comment = IF t = s THEN d ELSE sections_[t].comment
      BY <2>1, <3>1 DEF SectionType
    <3>3. QED
      BY <2>2, <2>3, <3>1, <3>2 DEF Storable
  <2>4. QED
    BY <1>2, <2>1, <2>3
<1>5. ASSUME NEW s \in Names, NEW k \in Keys, deleteKey(s, k)
      PROVE  Sound'
  <2> DEFINE items == sections_[s].items
             i     == Place(items, k)
             rest  == SubSeq(items, 1, i - 1) \o SubSeq(items, i + 1, Len(items))
  <2>1. /\ s \in DOMAIN sections_ /\ i <= Len(items)
        /\ sections_' = [sections_ EXCEPT ![s].items = rest]
        /\ Edit /\ edited' = Spoils(TRUE)
    BY <1>5 DEF deleteKey
  <2>2. items \in Seq(ItemType) /\ sections_[s] \in SectionType
    BY <1>1, <2>1 DEF SectionsType, SectionType
  <2>3. i \in 1 .. Len(items)
    BY <2>1, <2>2, PlaceType, LenProperties
  <2>4. \A j \in DOMAIN rest : \E m \in DOMAIN items : rest[j] = items[m]
    BY <2>2, <2>3, WithoutProperties
  <2> HIDE DEF rest, i
  <2>5. ASSUME edited # "spoilt", TRUE, Sound, NEW t \in DOMAIN sections_'
        PROVE  Storable(t, sections_'[t])
    <3>1. Storable(s, [sections_[s] EXCEPT !.items = rest])
      BY <2>1, <2>2, <2>4, <2>5, StorableItems DEF Sound
    <3>2. \/ t = s /\ sections_'[t] = [sections_[s] EXCEPT !.items = rest]
          \/ t \in DOMAIN sections_ /\ sections_'[t] = sections_[t]
      BY <2>1
    <3>3. QED
      BY <2>5, <3>1, <3>2 DEF Sound
  <2>6. QED
    BY <1>2, <2>1, <2>5
<1>6. ASSUME NEW s \in Names, deleteSection(s)
      PROVE  Sound'
  <2>1. Edit /\ edited' = Spoils(TRUE) /\ sections_' = [t \in DOMAIN sections_ \ {s} |-> sections_[t]]
    BY <1>6 DEF deleteSection
  <2>2. edited # "spoilt" /\ Sound => \A t \in DOMAIN sections_' : Storable(t, sections_'[t])
    BY <2>1 DEF Sound
  <2>3. QED
    BY <1>2, <2>1, <2>2
<1>7. ASSUME NEW flags \in FlagLists, setCommentFlags(flags)
      PROVE  Sound'
  BY <1>7 DEF setCommentFlags, Sound
<1>8. QED
  BY <1>3, <1>4, <1>5, <1>6, <1>7 DEF Setters

LEMMA OthersSound ==
  ASSUME Sound, LoadEnds \/ Save \/ Killed \/ UNCHANGED vars
  PROVE  Sound'
<1>1. UNCHANGED <<sections_, flags_, edited>>
  BY DEF LoadEnds, Stop, Save, SaveBegins, SaveUnnamed, RenderSection, RenderItem, OpenForWriting,
         Write, Killed, vars, objectVars, historyVars
<1>2. comment' = comment \/ comment' = <<>>
  BY DEF LoadEnds, Stop, Save, SaveBegins, SaveUnnamed, RenderSection, RenderItem, OpenForWriting,
         Write, Killed, Returned, vars, loopVars
<1>3. QED
  BY <1>1, <1>2, StorableUnchanged, StorableEmpty DEF Sound

LEMMA FreshSound ==
  ASSUME Restart
  PROVE  Sound'
<1>1. DOMAIN sections_' = {} /\ comment' = <<>>
  BY DEF Restart, NoSections, Returned
<1>2. CommentStorable(<<>>)'
  <2>1. DOMAIN <<>> = {}
    OBVIOUS
  <2>2. QED
    BY <2>1 DEF CommentStorable
<1>3. QED
  BY <1>1, <1>2 DEF Sound

LEMMA Soundness == Spec => []Sound
<1>1. Init => Sound
  BY StorableEmpty DEF Init, NoSections, Sound
<1>2. TypeOK /\ Sound /\ [Next]_vars => Sound'
  <2> SUFFICES ASSUME TypeOK, Sound, [Next]_vars PROVE Sound'
    OBVIOUS
  <2>1. CASE Next
    BY <2>1, LoadSound, ReadSound, EditSound, OthersSound, FreshSound DEF Next
  <2>2. CASE UNCHANGED vars
    BY <2>2, OthersSound
  <2>3. QED
    BY <2>1, <2>2
<1>3. QED
  BY <1>1, <1>2, Typing, PTL DEF Spec

(* For any files and any calls in any order, load gives up wherever it may: *)
(* what the object holds can be written as text that means the same, unless *)
(* a setter was given a text that load never makes.                         *)
THEOREM LoadMakesStorable == Spec => []OnlyEditsSpoil
<1>1. Sound => OnlyEditsSpoil
  BY DEF Sound, OnlyEditsSpoil
<1>2. QED
  BY <1>1, Soundness, PTL

-----------------------------------------------------------------------------
(* What saveas writes is read back as it was *)

LEMMA FirstUnique ==
  ASSUME NEW T, NEW s \in Seq(T), NEW S, NEW i \in 1 .. Len(s) + 1,
         i <= Len(s) => s[i] \in S, \A j \in 1 .. i - 1 : s[j] \notin S
  PROVE  First(s, S) = i
<1>1. /\ First(s, S) \in 1 .. Len(s) + 1
      /\ First(s, S) <= Len(s) => s[First(s, S)] \in S
      /\ \A j \in 1 .. First(s, S) - 1 : s[j] \notin S
  BY FirstProperties
<1>2. Len(s) \in Nat
  BY LenProperties
<1>3. ~(First(s, S) < i)
  BY <1>1, <1>2
<1>4. ~(i < First(s, S))
  BY <1>1, <1>2
<1>5. QED
  BY <1>1, <1>2, <1>3, <1>4

(* A line without a flag is all code. *)
LEMMA FreeIsCode ==
  ASSUME NEW line \in Text, Free(line, Flags(flags_))
  PROVE  ~isComment(line) /\ Code(line) = line /\ Behind(line) = <<>>
<1>1. line \in Seq(Char) /\ Len(line) \in Nat /\ DOMAIN line = 1 .. Len(line)
  BY LenProperties DEF Text
<1>2. ~isComment(line)
  <2>1. SUFFICES ASSUME line # <<>> PROVE line[1] \notin Flags(flags_)
    BY DEF isComment
  <2>2. 1 \in DOMAIN line
    BY <1>1, <2>1, EmptySeq
  <2>3. QED
    BY <2>2 DEF Free
<1>3. First(line, Flags(flags_)) = Len(line) + 1
  <2>1. \A j \in 1 .. Len(line) : line[j] \notin Flags(flags_)
    BY <1>1 DEF Free
  <2> DEFINE n == Len(line) + 1
  <2>2. n \in 1 .. Len(line) + 1 /\ n - 1 = Len(line) /\ ~(n <= Len(line))
    BY <1>1
  <2>3. \A j \in 1 .. n - 1 : line[j] \notin Flags(flags_)
    BY <2>1, <2>2
  <2> HIDE DEF n
  <2>4. First(line, Flags(flags_)) = n
    BY <1>1, <2>2, <2>3, FirstUnique
  <2>5. QED
    BY <2>4 DEF n
<1>4. SubSeq(line, 1, Len(line)) = line
  BY <1>1, SubSeqFull
<1>5. Code(line) = line
  BY <1>1, <1>2, <1>3, <1>4 DEF Code, Before
<1>6. SubSeq(line, Len(line) + 1, Len(line)) = <<>>
  BY <1>1, SubSeqEmpty
<1>7. QED
  BY <1>2, <1>5, <1>6 DEF Behind

(* A text that has a character of S is what is before it, the character,   *)
(* and what is after it.                                                   *)
LEMMA CutAtFirst ==
  ASSUME NEW s \in Text, NEW c, First(s, {c}) <= Len(s)
  PROVE  s = Before(s, {c}) \o <<c>> \o After(s, {c})
<1> DEFINE n == First(s, {c})
           b == Before(s, {c})
           a == After(s, {c})
           t == b \o <<c>>
<1>1. /\ s \in Seq(Char) /\ Len(s) \in Nat /\ DOMAIN s = 1 .. Len(s)
      /\ n \in 1 .. Len(s) /\ s[n] = c
  BY FirstProperties, LenProperties DEF Text
<1>2. b \in Seq(Char) /\ Len(b) = n - 1 /\ \A k \in 1 .. Len(b) : b[k] = s[k]
  BY <1>1, BeforeProperties
<1>3. n + 1 \in Nat \ {0} /\ Len(s) \in Int /\ Len(s) <= Len(s)
  BY <1>1
<1>4. a = SubSeq(s, n + 1, Len(s))
  BY DEF After
<1> HIDE DEF n, b, a
<1>5. /\ a \in Seq(Char)
      /\ Len(a) = IF n + 1 <= Len(s) THEN Len(s) - (n + 1) + 1 ELSE 0
      /\ \A k \in 1 .. Len(a) : a[k] = s[n + 1 + k - 1]
  BY <1>1, <1>3, <1>4, PieceProperties
<1>6. Len(a) = Len(s) - n
  <2>1. n \in Nat /\ n <= Len(s) /\ Len(s) \in Nat
    BY <1>1
  <2>2. Len(a) = IF n + 1 <= Len(s) THEN Len(s) - (n + 1) + 1 ELSE 0
    BY <1>5
  <2>3. QED
    BY <2>1, <2>2
<1>7. c \in Char
  BY <1>1, ElementOfSeq
<1>8. <<c>> \in Seq(Char) /\ Len(<<c>>) = 1 /\ <<c>>[1] = c
  BY <1>7
<1>9. /\ t \in Seq(Char) /\ Len(t) = Len(b) + 1
      /\ \A k \in 1 .. Len(b) + 1 : t[k] = IF k <= Len(b) THEN b[k] ELSE <<c>>[k - Len(b)]
  BY <1>2, <1>8, ConcatProperties
<1> HIDE DEF t
<1>10. /\ t \o a \in Seq(Char) /\ Len(t \o a) = Len(t) + Len(a)
       /\ \A k \in 1 .. Len(t) + Len(a) : (t \o a)[k] = IF k <= Len(t) THEN t[k] ELSE a[k - Len(t)]
  BY <1>5, <1>9, ConcatProperties
<1>11. Len(t \o a) = Len(s)
  BY <1>1, <1>2, <1>6, <1>9, <1>10
<1>12. ASSUME NEW k \in 1 .. Len(s)
       PROVE  (t \o a)[k] = s[k]
  <2>1. CASE k < n
    BY <1>1, <1>2, <1>6, <1>9, <1>10, <2>1
  <2>2. CASE k = n
    <3>1. (t \o a)[k] = t[k] /\ t[k] = <<c>>[1]
      BY <1>1, <1>2, <1>6, <1>9, <1>10, <2>2
    <3>2. QED
      BY <3>1, <1>1, <1>8, <2>2
  <2>3. CASE k > n
    <3>1. k - Len(t) \in 1 .. Len(a) /\ n + 1 + (k - Len(t)) - 1 = k
      BY <1>1, <1>2, <1>6, <1>9, <2>3
    <3>2. (t \o a)[k] = a[k - Len(t)]
      BY <1>1, <1>2, <1>6, <1>9, <1>10, <2>3
    <3>3. QED
      BY <1>5, <3>1, <3>2
  <2>4. k < n \/ k = n \/ k > n
    BY <1>1
  <2>5. QED
    BY <2>1, <2>2, <2>3, <2>4
<1>13. t \o a = s
  BY <1>1, <1>10, <1>11, <1>12, SeqEqual
<1>14. QED
  BY <1>13 DEF t, b, a

(* The line that an item is written as, and what load cuts it into. *)
ItemLine(item) == item.key \o <<"=">> \o item.value

LEMMA ItemLineProperties ==
  ASSUME NEW item \in ItemType, FlagsType, ItemStorable(item)
  PROVE  LET line == ItemLine(item) IN
         /\ line \in Text /\ line # <<>> /\ line[1] # "["
         /\ Free(line, Flags(flags_))
         /\ First(line, {"="}) <= Len(line)
         /\ Before(line, {"="}) = item.key /\ After(line, {"="}) = item.value
<1> DEFINE k == item.key
           v == item.value
           t == k \o <<"=">>
           line == t \o v
<1>1. /\ k \in Seq(Char) /\ v \in Seq(Char) /\ Len(k) \in Nat /\ Len(v) \in Nat
      /\ DOMAIN k = 1 .. Len(k) /\ DOMAIN v = 1 .. Len(v)
  BY LenProperties DEF ItemType, Text
<1>2. <<"=">> \in Seq(Char) /\ Len(<<"=">>) = 1 /\ <<"=">>[1] = "="
  BY DEF Char
<1>3. "=" \notin Flags(flags_)
  BY FlagChars DEF FlagChar
<1>4. /\ \A j \in 1 .. Len(k) : k[j] # "=" /\ k[j] \notin Flags(flags_)
      /\ \A j \in 1 .. Len(v) : v[j] \notin Flags(flags_)
      /\ k # <<>> => k[1] # "["
  BY <1>1 DEF ItemStorable, Free
<1>5. /\ t \in Seq(Char) /\ Len(t) = Len(k) + 1
      /\ \A j \in 1 .. Len(k) + 1 : t[j] = IF j <= Len(k) THEN k[j] ELSE <<"=">>[j - Len(k)]
  BY <1>1, <1>2, ConcatProperties
<1>15. ItemLine(item) = line
  BY DEF ItemLine
<1> HIDE DEF k, v, t
<1>6. t[Len(k) + 1] = "=" /\ \A j \in 1 .. Len(k) : t[j] = k[j]
  BY <1>1, <1>2, <1>5
<1>7. /\ line \in Seq(Char) /\ Len(line) = Len(t) + Len(v)
      /\ \A j \in 1 .. Len(t) + Len(v) : line[j] = IF j <= Len(t) THEN t[j] ELSE v[j - Len(t)]
  <2>1. t \in Seq(Char) /\ v \in Seq(Char)
    BY <1>1, <1>5
  <2>2. QED
    BY <2>1, ConcatProperties
<1> HIDE DEF line
<1>8. /\ Len(line) = Len(k) + 1 + Len(v) /\ line[Len(k) + 1] = "="
      /\ \A j \in 1 .. Len(k) : line[j] = k[j]
      /\ \A j \in 1 .. Len(v) : line[Len(k) + 1 + j] = v[j]
  <2>1. Len(line) = Len(k) + 1 + Len(v) /\ Len(t) = Len(k) + 1 /\ Len(k) \in Nat /\ Len(v) \in Nat
    BY <1>1, <1>5, <1>7
  <2>2. \A j \in 1 .. Len(k) + 1 : line[j] = t[j]
    BY <1>7, <2>1
  <2>3. line[Len(k) + 1] = "=" /\ \A j \in 1 .. Len(k) : line[j] = k[j]
    BY <1>6, <2>1, <2>2
  <2>4. ASSUME NEW j \in 1 .. Len(v) PROVE line[Len(k) + 1 + j] = v[j]
    <3>1. /\ Len(k) + 1 + j \in 1 .. Len(t) + Len(v) /\ ~(Len(k) + 1 + j <= Len(t))
          /\ (Len(k) + 1 + j) - Len(t) = j
      BY <2>1
    <3>2. QED
      BY <1>7, <3>1
  <2>5. QED
    BY <2>1, <2>3, <2>4
<1>9. DOMAIN line = 1 .. Len(line)
  BY <1>7, LenProperties
<1>10. line # <<>> /\ line[1] # "["
  <2>1. line # <<>>
    BY <1>1, <1>7, <1>8, EmptySeq
  <2>2. CASE k = <<>>
    <3>1. Len(k) = 0
      BY <2>2, EmptySeq
    <3>2. QED
      BY <3>1, <2>1, <1>8
  <2>3. CASE k # <<>>
    <3>1. 1 \in 1 .. Len(k)
      BY <1>1, <2>3, EmptySeq
    <3>2. QED
      BY <3>1, <2>1, <1>4, <1>8, <2>3
  <2>4. QED
    BY <2>2, <2>3
<1>11. Free(line, Flags(flags_))
  <2>1. SUFFICES ASSUME NEW j \in 1 .. Len(line) PROVE line[j] \notin Flags(flags_)
    BY <1>9 DEF Free
  <2>2. CASE j <= Len(k)
    BY <1>1, <1>4, <1>8, <2>2
  <2>3. CASE j = Len(k) + 1
    BY <1>3, <1>8, <2>3
  <2>4. CASE j > Len(k) + 1
    <3>1. j - (Len(k) + 1) \in 1 .. Len(v) /\ Len(k) + 1 + (j - (Len(k) + 1)) = j
      BY <1>1, <1>8, <2>4
    <3>2. line[j] = v[j - (Len(k) + 1)]
      BY <1>8, <3>1
    <3>3. QED
      BY <1>4, <3>1, <3>2
  <2>5. QED
    BY <1>1, <1>8, <2>2, <2>3, <2>4
<1>12. First(line, {"="}) = Len(k) + 1
  <2>1. Len(k) + 1 \in 1 .. Len(line) + 1
    BY <1>1, <1>8
  <2>2. \A j \in 1 .. (Len(k) + 1) - 1 : line[j] \notin {"="}
    BY <1>1, <1>4, <1>8
  <2>3. QED
    BY <1>7, <1>8, <2>1, <2>2, FirstUnique
<1>13. Before(line, {"="}) = k
  <2>1. /\ Before(line, {"="}) \in Seq(Char) /\ Len(Before(line, {"="})) = Len(k)
        /\ \A j \in 1 .. Len(k) : Before(line, {"="})[j] = line[j]
    BY <1>1, <1>7, <1>12, BeforeProperties
  <2>2. QED
    BY <1>1, <1>8, <2>1, SeqEqual
<1>14. After(line, {"="}) = v
  <2>1. After(line, {"="}) = SubSeq(line, Len(k) + 2, Len(line))
    BY <1>1, <1>12 DEF After
  <2>2. Len(k) + 2 \in Nat \ {0} /\ Len(line) \in Int /\ Len(line) <= Len(line)
    BY <1>1, <1>8
  <2> DEFINE w == SubSeq(line, Len(k) + 2, Len(line))
  <2>3. /\ w \in Seq(Char)
        /\ Len(w) = IF Len(k) + 2 <= Len(line) THEN Len(line) - (Len(k) + 2) + 1 ELSE 0
        /\ \A j \in 1 .. Len(w) : w[j] = line[Len(k) + 2 + j - 1]
    BY <1>7, <2>2, PieceProperties
  <2> HIDE DEF w
  <2>4. Len(w) = Len(v)
    BY <1>1, <1>8, <2>3
  <2>5. \A j \in 1 .. Len(v) : w[j] = v[j]
    <3>1. \A j \in 1 .. Len(v) : Len(k) + 2 + j - 1 = Len(k) + 1 + j
      BY <1>1
    <3>2. QED
      BY <1>8, <2>3, <2>4, <3>1
  <2>6. w = v
    BY <1>1, <2>3, <2>4, <2>5, SeqEqual
  <2>7. QED
    BY <2>1, <2>6 DEF w
<1>16. First(line, {"="}) <= Len(line)
  BY <1>1, <1>8, <1>12
<1>17. QED
  BY <1>7, <1>10, <1>11, <1>13, <1>14, <1>15, <1>16 DEF k, v, Text

(* The header of a section, and what load cuts out of it. *)
HeaderLine(s) == <<"[">> \o s \o <<"]">>

LEMMA HeaderLineProperties ==
  ASSUME NEW s \in Text, FlagsType, Free(s, {"]"} \cup Flags(flags_))
  PROVE  LET line == HeaderLine(s) IN
         /\ line \in Text /\ line # <<>> /\ line[1] = "["
         /\ Free(line, Flags(flags_))
         /\ Len(line) = Len(s) + 2 /\ First(line, {"]"}) = Len(s) + 2
         /\ SubSeq(line, 2, Len(s) + 1) = s
<1> DEFINE t == <<"[">> \o s
           line == t \o <<"]">>
<1>1. s \in Seq(Char) /\ Len(s) \in Nat /\ DOMAIN s = 1 .. Len(s)
  BY LenProperties DEF Text
<1>2. /\ <<"[">> \in Seq(Char) /\ Len(<<"[">>) = 1 /\ <<"[">>[1] = "["
      /\ <<"]">> \in Seq(Char) /\ Len(<<"]">>) = 1 /\ <<"]">>[1] = "]"
  BY DEF Char
<1>3. "[" \notin Flags(flags_) /\ "]" \notin Flags(flags_)
  BY FlagChars DEF FlagChar
<1>4. \A j \in 1 .. Len(s) : s[j] # "]" /\ s[j] \notin Flags(flags_)
  BY <1>1 DEF Free
<1>5. /\ t \in Seq(Char) /\ Len(t) = 1 + Len(s)
      /\ \A j \in 1 .. 1 + Len(s) : t[j] = IF j <= 1 THEN <<"[">>[j] ELSE s[j - 1]
  BY <1>1, <1>2, ConcatProperties
<1>6. HeaderLine(s) = line
  BY DEF HeaderLine
<1> HIDE DEF t
<1>7. /\ line \in Seq(Char) /\ Len(line) = Len(t) + 1
      /\ \A j \in 1 .. Len(t) + 1 : line[j] = IF j <= Len(t) THEN t[j] ELSE <<"]">>[j - Len(t)]
  BY <1>2, <1>5, ConcatProperties
<1> HIDE DEF line
<1>8. Len(line) = Len(s) + 2 /\ line[1] = "[" /\ line[Len(s) + 2] = "]"
  BY <1>1, <1>2, <1>5, <1>7
<1>9. \A j \in 1 .. Len(s) : line[j + 1] = s[j]
  <2>1. SUFFICES ASSUME NEW j \in 1 .. Len(s) PROVE line[j + 1] = s[j]
    OBVIOUS
  <2>2. j + 1 <= Len(t) /\ j + 1 \in 1 .. Len(t) + 1 /\ j + 1 \in 1 .. 1 + Len(s) /\ ~(j + 1 <= 1) /\ (j + 1) - 1 = j
    BY <1>1, <1>5
  <2>3. QED
    BY <1>5, <1>7, <2>2
<1>10. DOMAIN line = 1 .. Len(line) /\ line # <<>>
  BY <1>1, <1>7, <1>8, LenProperties, EmptySeq
<1>11. \A j \in 2 .. Len(s) + 1 : line[j] # "]" /\ line[j] \notin Flags(flags_)
  <2>1. SUFFICES ASSUME NEW j \in 2 .. Len(s) + 1
                 PROVE  line[j] # "]" /\ line[j] \notin Flags(flags_)
    OBVIOUS
  <2>2. j - 1 \in 1 .. Len(s) /\ (j - 1) + 1 = j
    BY <1>1
  <2>3. QED
    BY <1>4, <1>9, <2>2
<1>12. Free(line, Flags(flags_))
  <2>1. SUFFICES ASSUME NEW j \in 1 .. Len(line) PROVE line[j] \notin Flags(flags_)
    BY <1>10 DEF Free
  <2>2. j = 1 \/ j \in 2 .. Len(s) + 1 \/ j = Len(s) + 2
    BY <1>1, <1>8
  <2>3. QED
    BY <1>3, <1>8, <1>11, <2>2
<1>13. First(line, {"]"}) = Len(s) + 2
  <2>1. Len(s) + 2 \in 1 .. Len(line) + 1
    BY <1>1, <1>8
  <2>2. \A j \in 1 .. (Len(s) + 2) - 1 : line[j] \notin {"]"}
    <3>1. SUFFICES ASSUME NEW j \in 1 .. (Len(s) + 2) - 1 PROVE line[j] # "]"
      OBVIOUS
    <3>2. j = 1 \/ j \in 2 .. Len(s) + 1
      BY <1>1
    <3>3. QED
      BY <1>8, <1>11, <3>2
  <2>3. QED
    BY <1>7, <1>8, <2>1, <2>2, FirstUnique
<1>14. SubSeq(line, 2, Len(s) + 1) = s
  <2> DEFINE w == SubSeq(line, 2, Len(s) + 1)
  <2>1. 2 \in Nat \ {0} /\ Len(s) + 1 \in Int /\ Len(s) + 1 <= Len(line)
    BY <1>1, <1>8
  <2>2. /\ w \in Seq(Char)
        /\ Len(w) = IF 2 <= Len(s) + 1 THEN Len(s) + 1 - 2 + 1 ELSE 0
        /\ \A j \in 1 .. Len(w) : w[j] = line[2 + j - 1]
    BY <1>7, <2>1, PieceProperties
  <2> HIDE DEF w
  <2>3. Len(w) = Len(s)
    BY <1>1, <2>2
  <2>4. \A j \in 1 .. Len(s) : w[j] = s[j]
    <3>1. \A j \in 1 .. Len(s) : 2 + j - 1 = j + 1
      BY <1>1
    <3>2. QED
      BY <1>9, <2>2, <2>3, <3>1
  <2>5. w = s
    BY <1>1, <2>2, <2>3, <2>4, SeqEqual
  <2>6. QED
    BY <2>5 DEF w
<1>15. QED
  BY <1>6, <1>7, <1>8, <1>10, <1>12, <1>13, <1>14 DEF Text

-----------------------------------------------------------------------------
(* Loading and saving keeps every item *)

LEMMA BeginsPointwise ==
  ASSUME NEW s \in Text, NEW t \in Text
  PROVE  Begins(s, t) <=> Len(s) <= Len(t) /\ \A j \in 1 .. Len(s) : t[j] = s[j]
<1>1. s \in Seq(Char) /\ t \in Seq(Char) /\ Len(s) \in Nat /\ Len(t) \in Nat
  BY LenProperties DEF Text
<1>2. SUFFICES ASSUME Len(s) <= Len(t)
               PROVE  SubSeq(t, 1, Len(s)) = s <=> \A j \in 1 .. Len(s) : t[j] = s[j]
  BY DEF Begins
<1> DEFINE w == SubSeq(t, 1, Len(s))
<1>3. 1 \in Nat \ {0} /\ Len(s) \in Int /\ Len(s) <= Len(t)
  BY <1>1, <1>2
<1>4. /\ w \in Seq(Char)
      /\ Len(w) = IF 1 <= Len(s) THEN Len(s) - 1 + 1 ELSE 0
      /\ \A j \in 1 .. Len(w) : w[j] = t[1 + j - 1]
  BY <1>1, <1>3, PieceProperties
<1> HIDE DEF w
<1>5. Len(w) = Len(s)
  BY <1>1, <1>4
<1>6. \A j \in 1 .. Len(s) : w[j] = t[j]
  BY <1>1, <1>4, <1>5
<1>7. w = s <=> \A j \in 1 .. Len(s) : w[j] = s[j]
  BY <1>1, <1>4, <1>5, SeqEqual
<1>8. w = s <=> \A j \in 1 .. Len(s) : t[j] = s[j]
  BY <1>6, <1>7
<1>9. QED
  BY <1>8 DEF w

LEMMA BeginsTransitive ==
  ASSUME NEW s \in Text, NEW t \in Text, NEW u \in Text, Begins(s, t), Begins(t, u)
  PROVE  Begins(s, u)
<1>1. Len(s) \in Nat /\ Len(t) \in Nat /\ Len(u) \in Nat
  BY LenProperties DEF Text
<1>2. Len(s) <= Len(t) /\ \A j \in 1 .. Len(s) : t[j] = s[j]
  BY BeginsPointwise
<1>3. Len(t) <= Len(u) /\ \A j \in 1 .. Len(t) : u[j] = t[j]
  BY BeginsPointwise
<1>4. Len(s) <= Len(u) /\ \A j \in 1 .. Len(s) : u[j] = s[j]
  BY <1>1, <1>2, <1>3
<1>5. QED
  BY <1>4, BeginsPointwise

(* Text behind a comment does not change how its lines begin. *)
LEMMA JoinedBegins ==
  ASSUME NEW c \in Comment, NEW text \in Text, NEW n \in DOMAIN c
  PROVE  n \in DOMAIN Joined(c, text) /\ Begins(c[n], Joined(c, text)[n])
<1>1. /\ c \in Seq(Text) /\ DOMAIN c = 1 .. Len(c) /\ Len(c) \in Nat
      /\ \A i \in 1 .. Len(c) : c[i] \in Text
  BY LenProperties, ElementOfSeq DEF Comment
<1>2. \A s \in Text : Begins(s, s)
  <2>1. \A s \in Text : Len(s) \in Nat
    BY LenProperties DEF Text
  <2>2. QED
    BY <2>1, BeginsPointwise
<1>3. CASE text = <<>>
  BY <1>1, <1>2, <1>3 DEF Joined
<1>4. CASE text # <<>>
  <2> DEFINE k == Len(c)
             last == c[k] \o text
  <2>1. c # <<>>
    BY <1>1, EmptySeq
  <2>2. Joined(c, text) = [c EXCEPT ![k] = last]
    BY <1>4, <2>1 DEF Joined
  <2>3. k \in 1 .. Len(c)
    BY <1>1
  <2>4. Begins(c[k], last)
    <3>1. c[k] \in Text /\ Len(c[k]) \in Nat /\ Len(text) \in Nat
      BY <1>1, <2>3, LenProperties DEF Text
    <3>2. /\ last \in Text /\ Len(last) = Len(c[k]) + Len(text)
          /\ \A j \in 1 .. Len(c[k]) + Len(text) :
               last[j] = IF j <= Len(c[k]) THEN c[k][j] ELSE text[j - Len(c[k])]
      BY <3>1, ConcatProperties DEF Text
    <3> DEFINE s == c[k]
    <3> HIDE DEF last, s
    <3>3. Len(s) <= Len(last) /\ \A j \in 1 .. Len(s) : last[j] = s[j]
      BY <3>1, <3>2 DEF s
    <3>4. s \in Text
      BY <3>1 DEF s
    <3>5. Begins(s, last)
      BY <3>2, <3>3, <3>4, BeginsPointwise
    <3>6. QED
      BY <3>5 DEF s
  <2> HIDE DEF k, last
  <2>5. [c EXCEPT ![k] = last][n] = IF n = k THEN last ELSE c[n]
    OBVIOUS
  <2>6. QED
    BY <1>1, <1>2, <2>2, <2>4, <2>5
<1>5. QED
  BY <1>3, <1>4

(* An item of the sections that a line was read into, or its comment. *)
HasItem(sections, code) ==
  \E s \in DOMAIN sections : \E j \in DOMAIN sections[s].items :
    ItemLine(sections[s].items[j]) = code

HasComment(sections, line) ==
  \E s \in DOMAIN sections : \E j \in DOMAIN sections[s].items :
    \E n \in DOMAIN sections[s].items[j].comment :
      Begins(line, sections[s].items[j].comment[n])

(* What the lines in front of the e-th were, the sections hold. *)
AnItem(line) == IsItem(line) /\ Parsed(line)

Held(e) ==
  \A i \in 1 .. e - 1 :
    /\ AnItem(original[i]) => HasItem(sections_, Code(original[i]))
    /\ (\E n \in i + 1 .. e - 1 :
          AnItem(original[n]) /\ \A m \in i .. n - 1 : isComment(original[m]))
         => HasComment(sections_, original[i])

(* The comments directly in front of it wait for their item. *)
Waiting ==
  \A i \in 1 .. at - 1 :
    (\A m \in i .. at - 1 : isComment(original[m])) =>
      \E n \in DOMAIN comment : Begins(original[i], comment[n])

(* An item is written with its comment. *)
IsIn(item, lines) ==
  /\ \E m \in DOMAIN lines : lines[m] = ItemLine(item)
  /\ \A n \in DOMAIN item.comment : \E m \in DOMAIN lines : lines[m] = item.comment[n]

AllIn(lines) ==
  \A s \in DOMAIN sections_ : \A j \in DOMAIN sections_[s].items :
    IsIn(sections_[s].items[j], lines)

Loading ==
  pc = "load" => /\ original = disk /\ edited = "no" /\ at <= Len(original) + 1
                 /\ Held(at) /\ Waiting

Loaded ==
  pc \in {"ready", "save", "write"} /\ edited = "no" /\ ret = 0 => Held(Len(original) + 1)

Saving ==
  /\ pc = "save" => \A s \in DOMAIN sections_ \ left : \A j \in DOMAIN sections_[s].items :
                      (s = section => j < at) => IsIn(sections_[s].items[j], data)
  /\ pc = "write" => AllIn(data)
  /\ pc = "ready" /\ edited = "no" => disk = original \/ AllIn(disk)

Keeping == Loading /\ Loaded /\ Saving

LEMMA LineUnchanged ==
  ASSUME flags_' = flags_
  PROVE  /\ \A line : (isComment(line)' <=> isComment(line)) /\ Code(line)' = Code(line)
         /\ \A line : AnItem(line)' <=> AnItem(line)
BY DEF AnItem, IsItem, IsHeader, Parsed, Code, isComment

(* Sections only grow while a file is read. *)
Grows(sections, others) ==
  \A s \in DOMAIN sections :
    /\ s \in DOMAIN others
    /\ \A j \in DOMAIN sections[s].items :
         j \in DOMAIN others[s].items /\ others[s].items[j] = sections[s].items[j]

LEMMA HasGrows ==
  ASSUME NEW sections, NEW others, Grows(sections, others)
  PROVE  /\ \A code : HasItem(sections, code) => HasItem(others, code)
         /\ \A line : HasComment(sections, line) => HasComment(others, line)
<1>1. ASSUME NEW code, HasItem(sections, code) PROVE HasItem(others, code)
  <2>1. PICK s \in DOMAIN sections : \E j \in DOMAIN sections[s].items :
               ItemLine(sections[s].items[j]) = code
    BY <1>1 DEF HasItem
  <2>2. PICK j \in DOMAIN sections[s].items : ItemLine(sections[s].items[j]) = code
    BY <2>1
  <2>3. s \in DOMAIN others /\ j \in DOMAIN others[s].items
          /\ others[s].items[j] = sections[s].items[j]
    BY DEF Grows
  <2>4. QED
    BY <2>2, <2>3 DEF HasItem
<1>2. ASSUME NEW line, HasComment(sections, line) PROVE HasComment(others, line)
  <2>1. PICK s \in DOMAIN sections : \E j \in DOMAIN sections[s].items :
               \E n \in DOMAIN sections[s].items[j].comment :
                 Begins(line, sections[s].items[j].comment[n])
    BY <1>2 DEF HasComment
  <2>2. PICK j \in DOMAIN sections[s].items :
               \E n \in DOMAIN sections[s].items[j].comment :
                 Begins(line, sections[s].items[j].comment[n])
    BY <2>1
  <2>3. s \in DOMAIN others /\ j \in DOMAIN others[s].items
          /\ others[s].items[j] = sections[s].items[j]
    BY DEF Grows
  <2>4. \E n \in DOMAIN others[s].items[j].comment :
           Begins(line, others[s].items[j].comment[n])
    BY <2>2, <2>3
  <2>5. QED
    BY <2>3, <2>4 DEF HasComment
<1>3. QED
  BY <1>1, <1>2

(* One more line is read: what must be shown of it. *)
LEMMA OneMoreLine ==
  ASSUME TypeOK, Loading, pc = "load", at <= Len(disk), Advance, Grows(sections_, sections_'),
         AnItem(disk[at]) =>
           /\ HasItem(sections_', Code(disk[at]))
           /\ \A i \in 1 .. at - 1 :
                (\E n \in DOMAIN comment : Begins(original[i], comment[n])) =>
                  HasComment(sections_', original[i]),
         isComment(disk[at]) =>
           /\ \A n \in DOMAIN comment : n \in DOMAIN comment' /\ comment'[n] = comment[n]
           /\ \E n \in DOMAIN comment' : Begins(disk[at], comment'[n])
  PROVE  Loading'
<1>1. /\ original = disk /\ edited = "no" /\ Held(at) /\ Waiting
      /\ at \in Nat \ {0} /\ Len(disk) \in Nat
  BY LenProperties DEF Loading, TypeOK
<1>2. /\ at' = at + 1 /\ original' = original /\ disk' = disk /\ edited' = edited
      /\ flags_' = flags_ /\ pc' = "load"
  BY DEF Advance, historyVars
<1>3. /\ \A code : HasItem(sections_, code) => HasItem(sections_', code)
      /\ \A line : HasComment(sections_, line) => HasComment(sections_', line)
  BY HasGrows
<1>4. ASSUME NEW i \in 1 .. at, AnItem(original[i])
      PROVE  HasItem(sections_', Code(original[i]))
  <2>1. CASE i = at
    BY <1>1, <1>4, <2>1
  <2>2. CASE i # at
    <3>1. i \in 1 .. at - 1
      BY <1>1, <2>2
    <3>2. QED
      BY <1>1, <1>3, <1>4, <3>1 DEF Held
  <2>3. QED
    BY <2>1, <2>2
<1>5. ASSUME NEW i \in 1 .. at, NEW n \in i + 1 .. at,
             AnItem(original[n]), \A m \in i .. n - 1 : isComment(original[m])
      PROVE  HasComment(sections_', original[i])
  <2>1. i \in 1 .. at - 1
    BY <1>1
  <2>2. CASE n = at
    <3>1. \E k \in DOMAIN comment : Begins(original[i], comment[k])
      BY <1>1, <1>5, <2>1, <2>2 DEF Waiting
    <3>2. QED
      BY <1>1, <1>5, <2>1, <2>2, <3>1
  <2>3. CASE n # at
    <3>1. n \in i + 1 .. at - 1
      BY <1>1, <2>3
    <3>2. HasComment(sections_, original[i])
      BY <1>1, <1>5, <2>1, <3>1 DEF Held
    <3>3. QED
      BY <1>3, <3>2
  <2>4. QED
    BY <2>2, <2>3
<1>6. Held(at)'
  <2>1. at' - 1 = at
    BY <1>1, <1>2
  <2>2. QED
    BY <1>2, <1>4, <1>5, <2>1, LineUnchanged DEF Held
<1>7. Waiting'
  <2>1. at' - 1 = at
    BY <1>1, <1>2
  <2>2. SUFFICES ASSUME NEW i \in 1 .. at, \A m \in i .. at : isComment(original[m])
                 PROVE  \E n \in DOMAIN comment' : Begins(original[i], comment'[n])
    BY <1>2, <2>1, LineUnchanged DEF Waiting
  <2>3. isComment(disk[at])
    BY <1>1, <2>2
  <2>4. CASE i = at
    BY <1>1, <2>3, <2>4
  <2>5. CASE i # at
    <3>1. i \in 1 .. at - 1 /\ \A m \in i .. at - 1 : isComment(original[m])
      BY <1>1, <2>2, <2>5
    <3>2. PICK n \in DOMAIN comment : Begins(original[i], comment[n])
      BY <1>1, <3>1 DEF Waiting
    <3>3. QED
      BY <2>3, <3>2
  <2>6. QED
    BY <2>4, <2>5
<1>8. at' <= Len(original') + 1
  BY <1>1, <1>2
<1>9. QED
  BY <1>1, <1>2, <1>6, <1>7, <1>8 DEF Loading

LEMMA TheLine ==
  ASSUME TypeOK, ReadLine
  PROVE  /\ pc = "load" /\ at <= Len(disk) /\ disk[at] \in Text
         /\ FlagsType /\ comment \in Comment /\ SectionsType
<1>1. disk \in Seq(Text) /\ at \in 1 .. Len(disk)
  BY LenProperties DEF ReadLine, TypeOK
<1>2. QED
  BY <1>1, ElementOfSeq DEF ReadLine, TypeOK, FlagsType, SectionsType

LEMMA GrowsReflexive == Grows(sections_, sections_)
BY DEF Grows

(* Only a comment line is a comment: neither a blank nor a header is. *)
LEMMA KindsOfLines ==
  ASSUME NEW line \in Text, FlagsType
  PROVE  /\ isComment(line) => Code(line) = line /\ Code(line) # <<>> /\ ~IsHeader(line) /\ ~IsItem(line)
         /\ IsHeader(line) => ~AnItem(line)
         /\ Code(line) = <<>> => ~AnItem(line)
<1>1. "[" \notin Flags(flags_)
  BY FlagChars DEF FlagChar
<1>2. QED
  BY <1>1 DEF isComment, Code, IsHeader, IsItem, AnItem

LEMMA AppendGrows ==
  ASSUME NEW T, NEW s \in Seq(T), NEW e \in T
  PROVE  /\ Len(s) \in Nat
         /\ DOMAIN s = 1 .. Len(s) /\ DOMAIN Append(s, e) = 1 .. Len(s) + 1
         /\ \A j \in DOMAIN s : j \in DOMAIN Append(s, e) /\ Append(s, e)[j] = s[j]
         /\ Len(s) + 1 \in DOMAIN Append(s, e) /\ Append(s, e)[Len(s) + 1] = e
<1>1. /\ Append(s, e) \in Seq(T) /\ Len(Append(s, e)) = Len(s) + 1 /\ Len(s) \in Nat
      /\ \A j \in 1 .. Len(s) : Append(s, e)[j] = s[j]
      /\ Append(s, e)[Len(s) + 1] = e
  BY AppendProperties, LenProperties
<1>2. DOMAIN s = 1 .. Len(s) /\ DOMAIN Append(s, e) = 1 .. Len(s) + 1
  BY <1>1, LenProperties
<1>3. QED
  BY <1>1, <1>2

LEMMA ReadKeeps ==
  ASSUME TypeOK, Keeping, ReadLine
  PROVE  Keeping'
<1> DEFINE line == disk[at]
<1>1. /\ pc = "load" /\ at <= Len(disk) /\ line \in Text
      /\ FlagsType /\ comment \in Comment /\ SectionsType
  BY TheLine
<1>2. /\ isComment(line) => Code(line) = line /\ Code(line) # <<>> /\ ~IsHeader(line) /\ ~IsItem(line)
      /\ IsHeader(line) => ~AnItem(line)
      /\ Code(line) = <<>> => ~AnItem(line)
  BY <1>1, KindsOfLines
<1>3. \/ Blank(line) \/ CommentLine(line) \/ Header(line) \/ NamelessHeader(line)
      \/ BadHeader(line) \/ AddItem(line) \/ DropLine(line)
  BY DEF ReadLine
<1>4. ASSUME Advance, Loading' PROVE Keeping'
  <2>1. pc' = "load"
    BY <1>1, <1>4 DEF Advance
  <2>2. QED
    BY <1>4, <2>1 DEF Keeping, Loaded, Saving
<1>5. Loading /\ original = disk
  BY <1>1 DEF Keeping, Loading
<1> HIDE DEF line
<1>6. ASSUME Advance, Grows(sections_, sections_'), ~AnItem(line), ~isComment(line)
      PROVE  Keeping'
  <2>1. Loading'
    BY <1>1, <1>5, <1>6, OneMoreLine DEF line
  <2>2. QED
    BY <1>4, <1>6, <2>1
<1>7. CASE Blank(line) \/ NamelessHeader(line) \/ DropLine(line)
  <2>1. Advance /\ sections_' = sections_ /\ ~AnItem(line) /\ ~isComment(line)
    BY <1>2, <1>7 DEF Blank, NamelessHeader, DropLine, AnItem
  <2>2. QED
    BY <1>6, <2>1, GrowsReflexive
<1>8. CASE CommentLine(line)
  <2>1. Advance /\ sections_' = sections_ /\ isComment(line) /\ ~AnItem(line) /\ comment' = Append(comment, line)
    BY <1>2, <1>8 DEF CommentLine, AnItem
  <2>2. /\ \A n \in DOMAIN comment : n \in DOMAIN comment' /\ comment'[n] = comment[n]
        /\ Len(comment) + 1 \in DOMAIN comment' /\ comment'[Len(comment) + 1] = line
    <3>1. comment \in Seq(Text)
      BY <1>1 DEF Comment
    <3>2. QED
      BY <1>1, <2>1, <3>1, AppendGrows
  <2>3. Begins(line, line)
    <3>1. Len(line) \in Nat
      BY <1>1, LenProperties DEF Text
    <3>2. QED
      BY <1>1, <3>1, BeginsPointwise
  <2>4. Loading'
    BY <1>1, <1>5, <2>1, <2>2, <2>3, GrowsReflexive, OneMoreLine DEF line
  <2>5. QED
    BY <1>4, <2>1, <2>4
<1>9. CASE Header(line)
  <2>1. /\ Advance /\ ~AnItem(line) /\ ~isComment(line) /\ HeaderName(line) \notin DOMAIN sections_
        /\ sections_' = With(HeaderName(line), NewSection(Pending(line)))
    BY <1>2, <1>9 DEF Header
  <2>2. Grows(sections_, sections_')
    BY <2>1 DEF With, Grows
  <2>3. QED
    BY <1>6, <2>1, <2>2
<1>10. CASE BadHeader(line)
  <2>1. pc' = "ready" /\ ret' = -1 /\ UNCHANGED <<disk, original>>
    BY <1>10 DEF BadHeader, Stop, historyVars
  <2>2. QED
    BY <1>5, <2>1 DEF Keeping, Loading, Loaded, Saving
<1>11. CASE AddItem(line) /\ section = None
  <2>1. pc' = "gone"
    BY <1>11 DEF AddItem
  <2>2. QED
    BY <2>1 DEF Keeping, Loading, Loaded, Saving
<1>12. CASE AddItem(line) /\ section # None
  <2> DEFINE items == sections_[section].items
             added == Append(items, Item(line))
  <2>1. /\ Advance /\ sections_' = [sections_ EXCEPT ![section].items = added]
        /\ IsItem(line) /\ Parsed(line) /\ ~isComment(line)
    BY <1>12 DEF AddItem, IsItem
  <2>2. /\ section \in DOMAIN sections_ /\ sections_[section] \in SectionType
        /\ items \in Seq(ItemType) /\ Item(line) \in ItemType
    BY <1>1, <1>12, ItemProperties DEF TypeOK, SectionType
  <2>3. /\ \A j \in DOMAIN items : j \in DOMAIN added /\ added[j] = items[j]
        /\ Len(items) + 1 \in DOMAIN added /\ added[Len(items) + 1] = Item(line)
    BY <2>2, AppendGrows
  <2> HIDE DEF added
  <2>4. DOMAIN sections_' = DOMAIN sections_ /\ sections_'[section].items = added
          /\ \A s \in DOMAIN sections_ : s # section => sections_'[s] = sections_[s]
    BY <2>1, <2>2 DEF SectionType
  <2>5. Grows(sections_, sections_')
    BY <2>3, <2>4 DEF Grows
  <2>6. /\ section \in DOMAIN sections_' /\ Len(items) + 1 \in DOMAIN sections_'[section].items
        /\ sections_'[section].items[Len(items) + 1] = Item(line)
    BY <2>2, <2>3, <2>4
  <2>7. HasItem(sections_', Code(line))
    <3>1. ItemLine(Item(line)) = Code(line)
      <4>1. Code(line) \in Text /\ First(Code(line), {"="}) <= Len(Code(line))
        BY <1>1, <2>1, CodeProperties DEF Parsed
      <4>2. Code(line) = Before(Code(line), {"="}) \o <<"=">> \o After(Code(line), {"="})
        BY <4>1, CutAtFirst
      <4>3. QED
        BY <4>2 DEF ItemLine, Item
    <3>2. QED
      BY <2>6, <3>1 DEF HasItem
  <2>8. ASSUME NEW i \in 1 .. at - 1, NEW n \in DOMAIN comment, Begins(original[i], comment[n])
        PROVE  HasComment(sections_', original[i])
    <3> DEFINE c == Joined(comment, Behind(line))
    <3>1. Item(line).comment = c
      BY DEF Item, Pending
    <3>2. Behind(line) \in Text
      BY <1>1, CodeProperties
    <3>3. n \in DOMAIN c /\ Begins(comment[n], c[n])
      BY <1>1, <3>2, JoinedBegins
    <3>4. c \in Comment
      BY <1>1, <3>2, JoinedProperties
    <3> HIDE DEF c
    <3>5. c[n] \in Text /\ comment[n] \in Text
      <4>1. c \in Seq(Text) /\ comment \in Seq(Text)
        BY <1>1, <3>4 DEF Comment
      <4>2. DOMAIN c = 1 .. Len(c) /\ DOMAIN comment = 1 .. Len(comment)
        BY <4>1, LenProperties
      <4>3. QED
        BY <2>8, <3>3, <4>1, <4>2, ElementOfSeq
    <3>6. original[i] \in Text
      <4>1. disk \in Seq(Text) /\ Len(disk) \in Nat /\ at \in Nat
        BY LenProperties DEF TypeOK
      <4>2. i \in 1 .. Len(disk)
        BY <1>1, <4>1
      <4>3. QED
        BY <1>5, <4>1, <4>2, ElementOfSeq
    <3>7. Begins(original[i], c[n])
      BY <2>8, <3>3, <3>5, <3>6, BeginsTransitive
    <3>8. QED
      BY <2>6, <3>1, <3>3, <3>7 DEF HasComment
  <2>9. Loading'
    BY <1>1, <1>5, <2>1, <2>5, <2>7, <2>8, OneMoreLine DEF line
  <2>10. QED
    BY <1>4, <2>1, <2>9
<1>13. QED
  BY <1>3, <1>7, <1>8, <1>9, <1>10, <1>11, <1>12

LEMMA HeldUnchanged ==
  ASSUME flags_' = flags_, sections_' = sections_, original' = original
  PROVE  /\ Held(at) /\ at = Len(original) + 1 => Held(Len(original) + 1)'
         /\ Held(Len(original) + 1) => Held(Len(original) + 1)'
BY LineUnchanged DEF Held

LEMMA LoadKeeps ==
  ASSUME TypeOK, Keeping, Load \/ LoadEnds
  PROVE  Keeping'
<1>1. CASE Load /\ pc' = "load"
  <2>1. original' = disk /\ disk' = disk /\ edited' = "no" /\ at' = 1
    BY <1>1 DEF Load
  <2>2. Len(original') \in Nat
    BY <2>1, LenProperties DEF TypeOK
  <2>3. Held(at)' /\ Waiting'
    BY <2>1 DEF Held, Waiting
  <2>4. at' <= Len(original') + 1
    BY <2>1, <2>2
  <2>5. QED
    BY <1>1, <2>1, <2>3, <2>4 DEF Keeping, Loading, Loaded, Saving
<1>2. CASE Load /\ pc' # "load"
  <2>1. original' = disk /\ disk' = disk /\ ret' = -1 /\ pc' = "ready"
    BY <1>2 DEF Load, Call
  <2>2. QED
    BY <2>1 DEF Keeping, Loading, Loaded, Saving
<1>3. CASE LoadEnds
  <2>1. /\ pc = "load" /\ at > Len(disk) /\ pc' = "ready"
        /\ UNCHANGED <<disk, original, sections_, flags_>>
    BY <1>3 DEF LoadEnds, Stop, objectVars, historyVars
  <2>2. original = disk /\ at <= Len(original) + 1 /\ Held(at)
    BY <2>1 DEF Keeping, Loading
  <2>3. at = Len(original) + 1
    <3>1. at \in Nat /\ Len(disk) \in Nat
      BY LenProperties DEF TypeOK
    <3>2. QED
      BY <2>1, <2>2, <3>1
  <2>4. Held(Len(original) + 1)'
    BY <2>1, <2>2, <2>3, HeldUnchanged
  <2>5. QED
    BY <2>1, <2>2, <2>4 DEF Keeping, Loading, Loaded, Saving
<1>4. QED
  BY <1>1, <1>2, <1>3

(* What is in the text stays in it as it grows. *)
LEMMA IsInGrows ==
  ASSUME NEW lines \in Seq(Text), NEW more \in Seq(Text), NEW item
  PROVE  /\ DOMAIN lines \subseteq DOMAIN (lines \o more)
         /\ \A m \in DOMAIN lines : (lines \o more)[m] = lines[m]
         /\ IsIn(item, lines) => IsIn(item, lines \o more)
         /\ IsIn(item, more) => IsIn(item, lines \o more)
<1> DEFINE all == lines \o more
<1>1. /\ Len(lines) \in Nat /\ Len(more) \in Nat
      /\ DOMAIN lines = 1 .. Len(lines) /\ DOMAIN more = 1 .. Len(more)
  BY LenProperties
<1>2. /\ all \in Seq(Text) /\ Len(all) = Len(lines) + Len(more)
      /\ \A k \in 1 .. Len(lines) + Len(more) :
           all[k] = IF k <= Len(lines) THEN lines[k] ELSE more[k - Len(lines)]
  BY ConcatProperties
<1> HIDE DEF all
<1>3. DOMAIN all = 1 .. Len(lines) + Len(more)
  BY <1>2, LenProperties
<1>4. \A m \in DOMAIN lines : m \in DOMAIN all /\ all[m] = lines[m]
  BY <1>1, <1>2, <1>3
<1>5. ASSUME NEW m \in DOMAIN more
      PROVE  Len(lines) + m \in DOMAIN all /\ all[Len(lines) + m] = more[m]
  <2>1. /\ Len(lines) + m \in 1 .. Len(lines) + Len(more) /\ ~(Len(lines) + m <= Len(lines))
        /\ (Len(lines) + m) - Len(lines) = m
    BY <1>1
  <2>2. QED
    BY <1>2, <1>3, <2>1
<1>6. \A x : (\E m \in DOMAIN lines : lines[m] = x) => \E m \in DOMAIN all : all[m] = x
  BY <1>4
<1>7. \A x : (\E m \in DOMAIN more : more[m] = x) => \E m \in DOMAIN all : all[m] = x
  BY <1>5
<1>8. QED
  BY <1>4, <1>6, <1>7 DEF IsIn, all

(* The lines that saveas writes for a section and for an item of it. *)
HeaderOf(s) == IF s = <<>> THEN <<>> ELSE <<HeaderLine(s)>>

(* The text of the sections and of their items is made of lines. *)
LEMMA ChunkTypes ==
  ASSUME NEW X, DOMAIN X \subseteq Text, \A s \in DOMAIN X : X[s] \in SectionType,
         NEW s \in DOMAIN X
  PROVE  /\ HeaderLine(s) \in Text /\ HeaderOf(s) \in Seq(Text) /\ X[s].comment \in Seq(Text)
         /\ X[s].comment \o HeaderOf(s) \in Seq(Text)
         /\ X[s].items \in Seq(ItemType)
         /\ \A j \in 1 .. Len(X[s].items) :
              /\ X[s].items[j] \in ItemType /\ ItemLine(X[s].items[j]) \in Text
              /\ Rendered(X[s].items[j]) = X[s].items[j].comment \o <<ItemLine(X[s].items[j])>>
              /\ Rendered(X[s].items[j]) \in Seq(Text)
<1>1. s \in Text /\ X[s].comment \in Seq(Text) /\ X[s].items \in Seq(ItemType)
  BY DEF SectionType, Comment
<1>2. HeaderLine(s) \in Text
  <2>1. <<"[">> \in Seq(Char) /\ <<"]">> \in Seq(Char) /\ s \in Seq(Char)
    BY <1>1 DEF Char, Text
  <2>2. <<"[">> \o s \in Seq(Char)
    BY <2>1, ConcatProperties
  <2>3. QED
    BY <2>1, <2>2, ConcatProperties DEF HeaderLine, Text
<1>3. HeaderOf(s) \in Seq(Text)
  BY <1>2, EmptyTexts DEF HeaderOf
<1>4. ASSUME NEW j \in 1 .. Len(X[s].items)
      PROVE  /\ X[s].items[j] \in ItemType /\ ItemLine(X[s].items[j]) \in Text
             /\ Rendered(X[s].items[j]) = X[s].items[j].comment \o <<ItemLine(X[s].items[j])>>
             /\ Rendered(X[s].items[j]) \in Seq(Text)
  <2> DEFINE item == X[s].items[j]
  <2>1. item \in ItemType
    BY <1>1, ElementOfSeq
  <2> HIDE DEF item
  <2>2. item.key \in Seq(Char) /\ item.value \in Seq(Char) /\ item.comment \in Seq(Text)
        /\ <<"=">> \in Seq(Char)
    BY <2>1 DEF ItemType, Text, Comment, Char
  <2>3. item.key \o <<"=">> \in Seq(Char)
    BY <2>2, ConcatProperties
  <2>4. ItemLine(item) \in Text
    BY <2>2, <2>3, ConcatProperties DEF ItemLine, Text
  <2>5. Rendered(item) = item.comment \o <<ItemLine(item)>>
    BY DEF Rendered, ItemLine
  <2>6. Rendered(item) \in Seq(Text)
    BY <2>2, <2>4, <2>5, ConcatProperties
  <2>7. QED
    BY <2>1, <2>4, <2>5, <2>6 DEF item
<1>5. X[s].comment \o HeaderOf(s) \in Seq(Text)
  BY <1>1, <1>3, ConcatProperties
<1>6. QED
  BY <1>1, <1>2, <1>3, <1>4, <1>5

LEMMA RenderSectionStep ==
  ASSUME TypeOK, RenderSection
  PROVE  \E s \in left :
           /\ section' = s /\ at' = 1 /\ left' = left \ {s}
           /\ <<>> \in left => s = <<>>
           /\ s \in DOMAIN sections_ /\ s \in Text /\ sections_[s] \in SectionType
           /\ HeaderOf(s) \in Seq(Text)
           /\ data \o sections_[s].comment \in Seq(Text)
           /\ data' = (data \o sections_[s].comment) \o HeaderOf(s)
           /\ pc = "save" /\ pc' = "save" /\ ItemsDone
           /\ UNCHANGED <<disk, sections_, flags_, original, edited, ret, saved>>
<1> DEFINE s == NextSection
<1>1. s \in left /\ left \subseteq DOMAIN sections_ /\ (<<>> \in left => s = <<>>)
  <2>1. \E x \in left : <<>> \in left => x = <<>>
    BY DEF RenderSection
  <2>2. QED
    BY <2>1 DEF RenderSection, NextSection, TypeOK
<1> HIDE DEF s
<1>2. s \in Text /\ sections_[s] \in SectionType /\ sections_[s].comment \in Seq(Text)
  BY <1>1 DEF TypeOK, SectionType, Comment
<1>4. HeaderOf(s) \in Seq(Text)
  BY <1>1, ChunkTypes DEF TypeOK
<1>5. data' = (data \o sections_[s].comment) \o HeaderOf(s)
  BY DEF RenderSection, HeaderOf, HeaderLine, s
<1>6. data \o sections_[s].comment \in Seq(Text)
  BY <1>2, ConcatProperties DEF TypeOK
<1>7. section' = s /\ at' = 1 /\ left' = left \ {s}
  BY DEF RenderSection, s
<1>8. pc = "save" /\ pc' = "save" /\ ItemsDone
      /\ UNCHANGED <<disk, sections_, flags_, original, edited, ret, saved>>
  BY DEF RenderSection, objectVars, historyVars
<1>9. QED
  BY <1>1, <1>2, <1>4, <1>5, <1>6, <1>7, <1>8

LEMMA RenderItemStep ==
  ASSUME TypeOK, RenderItem
  PROVE  LET items == sections_[section].items
             item  == items[at]
         IN  /\ section # None /\ section \in DOMAIN sections_ /\ sections_[section] \in SectionType
             /\ at \in DOMAIN items /\ at \in 1 .. Len(items) /\ item \in ItemType
             /\ ItemLine(item) \in Text /\ Rendered(item) = item.comment \o <<ItemLine(item)>>
             /\ Rendered(item) \in Seq(Text)
             /\ data' = data \o Rendered(item) /\ at' = at + 1
             /\ pc = "save" /\ pc' = "save"
             /\ UNCHANGED <<disk, sections_, section, left, flags_, original, edited, ret, saved>>
<1> DEFINE items == sections_[section].items
           item  == items[at]
<1>1. /\ section # None /\ ~(at > Len(items)) /\ pc = "save" /\ pc' = "save"
      /\ UNCHANGED <<disk, sections_, section, left, flags_, original, edited, ret, saved>>
      /\ data' = data \o Rendered(item) /\ at' = at + 1
  BY DEF RenderItem, ItemsDone, objectVars, historyVars
<1>2. section \in DOMAIN sections_ /\ sections_[section] \in SectionType /\ items \in Seq(ItemType)
  BY <1>1 DEF TypeOK, SectionType
<1>3. at \in DOMAIN items /\ at \in 1 .. Len(items)
  <2>1. DOMAIN items = 1 .. Len(items) /\ Len(items) \in Nat
    BY <1>2, LenProperties
  <2>2. at \in Nat \ {0}
    BY DEF TypeOK
  <2> HIDE DEF items
  <2>3. QED
    BY <1>1, <2>1, <2>2
<1>4. item \in ItemType
  BY <1>2, <1>3, ElementOfSeq
<1>7. /\ ItemLine(item) \in Text /\ Rendered(item) = item.comment \o <<ItemLine(item)>>
      /\ Rendered(item) \in Seq(Text)
  BY <1>2, <1>3, ChunkTypes DEF TypeOK
<1>8. QED
  BY <1>1, <1>2, <1>3, <1>4, <1>7

(* An item and its comment are among the lines rendered for it. *)
LEMMA RenderedHolds ==
  ASSUME NEW item \in ItemType, ItemLine(item) \in Text
  PROVE  IsIn(item, item.comment \o <<ItemLine(item)>>)
<1> DEFINE line == ItemLine(item)
           c == item.comment
<1>1. c \in Seq(Text)
  BY DEF ItemType, Comment
<1> HIDE DEF line, c
<1>2. line \in Text
  BY DEF line
<1>3. <<line>> \in Seq(Text) /\ DOMAIN <<line>> = {1} /\ <<line>>[1] = line
  BY <1>2
<1>4. /\ Len(c) \in Nat /\ DOMAIN c = 1 .. Len(c) /\ Len(<<line>>) = 1
      /\ c \o <<line>> \in Seq(Text) /\ Len(c \o <<line>>) = Len(c) + 1
      /\ \A k \in 1 .. Len(c) + 1 :
           (c \o <<line>>)[k] = IF k <= Len(c) THEN c[k] ELSE <<line>>[k - Len(c)]
  BY <1>1, <1>3, ConcatProperties, LenProperties
<1> DEFINE all == c \o <<line>>
<1> HIDE DEF all
<1>5. DOMAIN all = 1 .. Len(c) + 1
  BY <1>4, LenProperties DEF all
<1>6. /\ Len(c) + 1 \in DOMAIN all /\ all[Len(c) + 1] = line
      /\ \A n \in DOMAIN c : n \in DOMAIN all /\ all[n] = c[n]
  BY <1>3, <1>4, <1>5 DEF all
<1>7. QED
  BY <1>6 DEF IsIn, all, c, line

LEMMA SaveKeeps ==
  ASSUME TypeOK, Idle, Keeping, Save \/ Killed \/ Restart
  PROVE  Keeping'
<1>1. CASE SaveBegins
  <2>1. /\ pc = "ready" /\ pc' = "save" /\ left' = DOMAIN sections_
        /\ UNCHANGED <<disk, sections_, flags_, original, edited, ret>>
    BY <1>1 DEF SaveBegins, Call, objectVars, historyVars
  <2>2. DOMAIN sections_' \ left' = {}
    BY <2>1
  <2>3. Loaded'
    BY <2>1, HeldUnchanged DEF Keeping, Loaded
  <2>4. QED
    BY <2>1, <2>2, <2>3 DEF Keeping, Loading, Saving
<1>2. CASE SaveUnnamed \/ Killed
  <2>1. pc' = "gone"
    BY <1>2 DEF SaveUnnamed, Killed
  <2>2. QED
    BY <2>1 DEF Keeping, Loading, Loaded, Saving
<1>3. CASE RenderSection
  <2>1. PICK s \in left :
           /\ section' = s /\ at' = 1 /\ left' = left \ {s}
           /\ <<>> \in left => s = <<>>
           /\ s \in DOMAIN sections_ /\ s \in Text /\ sections_[s] \in SectionType
           /\ HeaderOf(s) \in Seq(Text)
           /\ data \o sections_[s].comment \in Seq(Text)
           /\ data' = (data \o sections_[s].comment) \o HeaderOf(s)
           /\ pc = "save" /\ pc' = "save" /\ ItemsDone
           /\ UNCHANGED <<disk, sections_, flags_, original, edited, ret, saved>>
    BY <1>3, RenderSectionStep
  <2>2. ASSUME NEW t \in DOMAIN sections_ \ left', NEW j \in DOMAIN sections_[t].items, t = s => j < 1
        PROVE  IsIn(sections_[t].items[j], data')
    <3>1. sections_[t].items \in Seq(ItemType) /\ at \in Nat
      BY <2>2 DEF TypeOK, SectionType
    <3>2. j \in 1 .. Len(sections_[t].items) /\ Len(sections_[t].items) \in Nat
      BY <2>2, <3>1, LenProperties
    <3>3. t # s
      BY <2>2, <3>2
    <3>4. t \in DOMAIN sections_ \ left /\ (t = section => j < at)
      <4>1. t = section => t # None
        <5>1. DOMAIN sections_ \subseteq Text
          BY DEF TypeOK
        <5>2. QED
          BY <5>1, IniAssumption DEF IniAssumption
      <4>2. ASSUME t = section PROVE j < at
        <5>1. at > Len(sections_[t].items)
          BY <4>1, <4>2, <2>1 DEF ItemsDone
        <5>2. QED
          BY <5>1, <3>1, <3>2
      <4>3. QED
        BY <2>1, <2>2, <3>3, <4>2
    <3>5. IsIn(sections_[t].items[j], data)
      BY <2>1, <2>2, <3>4 DEF Keeping, Saving
    <3>6. data \in Seq(Text) /\ sections_[s].comment \in Seq(Text)
      BY <2>1 DEF TypeOK, SectionType, Comment
    <3>7. IsIn(sections_[t].items[j], data \o sections_[s].comment)
      BY <3>5, <3>6, IsInGrows
    <3>8. QED
      BY <2>1, <3>7, IsInGrows
  <2>3. Loaded'
    BY <2>1, HeldUnchanged DEF Keeping, Loaded
  <2>4. QED
    BY <2>1, <2>2, <2>3 DEF Keeping, Loading, Saving
<1>4. CASE RenderItem
  <2> DEFINE item == sections_[section].items[at]
  <2>1. /\ section # None /\ section \in DOMAIN sections_ /\ sections_[section] \in SectionType
        /\ at \in DOMAIN sections_[section].items /\ at \in 1 .. Len(sections_[section].items)
        /\ item \in ItemType
        /\ ItemLine(item) \in Text /\ Rendered(item) = item.comment \o <<ItemLine(item)>>
        /\ Rendered(item) \in Seq(Text)
        /\ data' = data \o Rendered(item) /\ at' = at + 1
        /\ pc = "save" /\ pc' = "save"
        /\ UNCHANGED <<disk, sections_, section, left, flags_, original, edited, ret, saved>>
    BY <1>4, RenderItemStep
  <2>2. IsIn(item, Rendered(item)) /\ data \in Seq(Text)
    BY <2>1, RenderedHolds DEF TypeOK
  <2>3. ASSUME NEW t \in DOMAIN sections_ \ left, NEW j \in DOMAIN sections_[t].items,
               t = section => j < at + 1
        PROVE  IsIn(sections_[t].items[j], data')
    <3>1. sections_[t].items \in Seq(ItemType) /\ at \in Nat
      BY <2>3 DEF TypeOK, SectionType
    <3>2. j \in 1 .. Len(sections_[t].items) /\ Len(sections_[t].items) \in Nat
      BY <2>3, <3>1, LenProperties
    <3>3. CASE t = section /\ j = at
      <4>1. IsIn(item, data \o Rendered(item))
        BY <2>1, <2>2, IsInGrows
      <4>2. QED
        BY <2>1, <3>3, <4>1
    <3>4. CASE ~(t = section /\ j = at)
      <4>1. t = section => j < at
        BY <2>3, <3>1, <3>2, <3>4
      <4>2. IsIn(sections_[t].items[j], data)
        BY <2>1, <2>3, <4>1 DEF Keeping, Saving
      <4>3. QED
        BY <2>1, <2>2, <4>2, IsInGrows
    <3>5. QED
      BY <3>3, <3>4
  <2>4. Loaded'
    BY <2>1, HeldUnchanged DEF Keeping, Loaded
  <2>5. QED
    BY <2>1, <2>3, <2>4 DEF Keeping, Loading, Saving
<1>5. CASE OpenForWriting
  <2>1. /\ pc = "save" /\ ItemsDone /\ left = {} /\ pc' \in {"write", "gone"}
        /\ UNCHANGED <<data, sections_, flags_, original, edited, ret>>
    BY <1>5 DEF OpenForWriting, objectVars, loopVars
  <2>2. ASSUME NEW t \in DOMAIN sections_, NEW j \in DOMAIN sections_[t].items
        PROVE  IsIn(sections_[t].items[j], data)
    <3>1. sections_[t].items \in Seq(ItemType) /\ at \in Nat
      BY <2>2 DEF TypeOK, SectionType
    <3>2. j \in 1 .. Len(sections_[t].items) /\ Len(sections_[t].items) \in Nat
      BY <2>2, <3>1, LenProperties
    <3>3. DOMAIN sections_ \subseteq Text /\ None \notin Text
      BY IniAssumption DEF TypeOK, IniAssumption
    <3>4. t = section => j < at
      <4>1. ASSUME t = section PROVE j < at
        <5>1. at > Len(sections_[t].items)
          BY <4>1, <3>3, <2>1 DEF ItemsDone
        <5>2. QED
          BY <5>1, <3>1, <3>2
      <4>2. QED
        BY <4>1
    <3>5. QED
      BY <2>1, <2>2, <3>4 DEF Keeping, Saving
  <2>3. AllIn(data)'
    BY <2>1, <2>2 DEF AllIn, IsIn
  <2>4. Loaded'
    BY <2>1, HeldUnchanged DEF Keeping, Loaded
  <2>5. QED
    BY <2>1, <2>3, <2>4 DEF Keeping, Loading, Saving
<1>6. CASE Write
  <2>1. /\ pc = "write" /\ pc' = "ready" /\ disk' = data
        /\ UNCHANGED <<sections_, flags_, original, edited, ret>>
    BY <1>6 DEF Write, objectVars
  <2>2. AllIn(disk)'
    BY <2>1 DEF AllIn, IsIn, Keeping, Saving
  <2>3. Loaded'
    BY <2>1, HeldUnchanged DEF Keeping, Loaded
  <2>4. QED
    BY <2>1, <2>2, <2>3 DEF Keeping, Loading, Saving
<1>7. CASE Restart
  <2>1. pc' = "ready" /\ edited' = "yes"
    BY <1>7 DEF Restart
  <2>2. QED
    BY <2>1 DEF Keeping, Loading, Loaded, Saving
<1>8. QED
  BY <1>1, <1>2, <1>3, <1>4, <1>5, <1>6, <1>7 DEF Save

LEMMA SettersKeep ==
  ASSUME Setters \/ UNCHANGED vars, Keeping
  PROVE  Keeping'
<1>1. CASE Setters
  <2>1. \A clean : Spoils(clean) # "no"
    BY DEF Spoils
  <2>2. \A s, k, v, c : setValue(s, k, v, c) => pc' = "ready" /\ edited' # "no"
    BY <2>1 DEF setValue, Edit, Call
  <2>3. \A s, c : setSectionComment(s, c) => pc' = "ready" /\ edited' # "no"
    BY <2>1 DEF setSectionComment, Edit, Call
  <2>4. \A s, k : deleteKey(s, k) => pc' = "ready" /\ edited' # "no"
    BY <2>1 DEF deleteKey, Edit, Call
  <2>5. \A s : deleteSection(s) => pc' = "ready" /\ edited' # "no"
    BY <2>1 DEF deleteSection, Edit, Call
  <2>6. \A s : setCommentFlags(s) => pc' = "ready" /\ edited' # "no"
    BY DEF setCommentFlags, Call
  <2>7. pc' = "ready" /\ edited' # "no"
    BY <1>1, <2>2, <2>3, <2>4, <2>5, <2>6, Zenon DEF Setters
  <2>8. QED
    BY <2>7 DEF Keeping, Loading, Loaded, Saving
<1>2. CASE UNCHANGED vars
  <2>1. UNCHANGED <<disk, sections_, flags_, pc, at, section, comment, left, data, ret, original, edited>>
    BY <1>2 DEF vars, objectVars, loopVars, historyVars
  <2>2. \A line : (isComment(line)' <=> isComment(line)) /\ Code(line)' = Code(line)
    BY <2>1, LineUnchanged
  <2>3. \A line : AnItem(line)' <=> AnItem(line)
    BY <2>1, LineUnchanged
  <2>4. Held(at)' <=> Held(at)
    BY <2>1, <2>2, <2>3 DEF Held
  <2>5. Held(Len(original) + 1)' <=> Held(Len(original) + 1)
    BY <2>1, <2>2, <2>3 DEF Held
  <2>6. Waiting' <=> Waiting
    BY <2>1, <2>2 DEF Waiting
  <2>7. AllIn(data)' <=> AllIn(data)
    BY <2>1 DEF AllIn, IsIn
  <2>8. AllIn(disk)' <=> AllIn(disk)
    BY <2>1 DEF AllIn, IsIn
  <2>9. Loading'
    BY <2>1, <2>4, <2>6 DEF Keeping, Loading
  <2>10. Loaded'
    BY <2>1, <2>5 DEF Keeping, Loaded
  <2>11. Saving'
    BY <2>1, <2>7, <2>8 DEF Keeping, Saving
  <2>12. QED
    BY <2>9, <2>10, <2>11 DEF Keeping
<1>3. QED
  BY <1>1, <1>2

LEMMA KeptItems ==
  ASSUME TypeOK, Sound, Keeping
  PROVE  KeepsItems
<1>1. SUFFICES ASSUME pc = "ready", ret = 0, edited = "no", NEW i \in DOMAIN original
      PROVE  /\ AnItem(original[i]) => \E j \in DOMAIN disk : Code(disk[j]) = Code(original[i])
             /\ InFrontOfItem(i) => \E j \in DOMAIN disk : Begins(original[i], disk[j])
  BY DEF KeepsItems, AnItem
<1>2. /\ original \in Seq(Text) /\ DOMAIN original = 1 .. Len(original) /\ Len(original) \in Nat
      /\ original[i] \in Text /\ FlagsType
  BY LenProperties, ElementOfSeq DEF TypeOK, FlagsType
<1>3. CASE disk = original
  <2>1. Begins(original[i], original[i])
    <3>1. Len(original[i]) \in Nat
      BY <1>2, LenProperties DEF Text
    <3>2. QED
      BY <1>2, <3>1, BeginsPointwise
  <2>2. QED
    BY <1>3, <2>1
<1>4. CASE AllIn(disk)
  <2>1. Held(Len(original) + 1) /\ (Len(original) + 1) - 1 = Len(original)
    BY <1>1, <1>2 DEF Keeping, Loaded
  <2>2. ASSUME AnItem(original[i])
        PROVE  \E j \in DOMAIN disk : Code(disk[j]) = Code(original[i])
    <3>1. HasItem(sections_, Code(original[i]))
      BY <1>2, <2>1, <2>2 DEF Held
    <3>2. PICK s \in DOMAIN sections_ : \E j \in DOMAIN sections_[s].items :
                 ItemLine(sections_[s].items[j]) = Code(original[i])
      BY <3>1 DEF HasItem
    <3>3. PICK j \in DOMAIN sections_[s].items : ItemLine(sections_[s].items[j]) = Code(original[i])
      BY <3>2
    <3> DEFINE item == sections_[s].items[j]
    <3>4. item \in ItemType /\ ItemStorable(item)
      <4>1. sections_[s].items \in Seq(ItemType)
        BY DEF TypeOK, SectionType
      <4>2. DOMAIN sections_[s].items = 1 .. Len(sections_[s].items)
        BY <4>1, LenProperties
      <4>3. Storable(s, sections_[s])
        BY <1>1 DEF Sound
      <4>4. QED
        BY <4>1, <4>2, <4>3, ElementOfSeq DEF Storable
    <3>5. \E m \in DOMAIN disk : disk[m] = ItemLine(item)
      BY <1>4 DEF AllIn, IsIn
    <3>6. ItemLine(item) = Code(original[i])
      BY <3>3
    <3> HIDE DEF item
    <3>7. Code(ItemLine(item)) = ItemLine(item)
      <4>1. ItemLine(item) \in Text /\ Free(ItemLine(item), Flags(flags_))
        BY <1>2, <3>4, ItemLineProperties
      <4>2. QED
        BY <4>1, FreeIsCode
    <3>8. QED
      BY <3>5, <3>6, <3>7
  <2>3. ASSUME InFrontOfItem(i)
        PROVE  \E j \in DOMAIN disk : Begins(original[i], disk[j])
    <3>1. HasComment(sections_, original[i])
      <4>1. \E n \in i + 1 .. Len(original) :
              AnItem(original[n]) /\ \A m \in i .. n - 1 : isComment(original[m])
        BY <2>3 DEF InFrontOfItem, AnItem
      <4>2. QED
        BY <1>2, <2>1, <4>1 DEF Held
    <3>2. PICK s \in DOMAIN sections_ : \E j \in DOMAIN sections_[s].items :
                 \E n \in DOMAIN sections_[s].items[j].comment :
                   Begins(original[i], sections_[s].items[j].comment[n])
      BY <3>1 DEF HasComment
    <3>3. PICK j \in DOMAIN sections_[s].items :
                 \E n \in DOMAIN sections_[s].items[j].comment :
                   Begins(original[i], sections_[s].items[j].comment[n])
      BY <3>2
    <3>4. IsIn(sections_[s].items[j], disk)
      BY <1>4 DEF AllIn
    <3>5. QED
      BY <3>3, <3>4 DEF IsIn
  <2>4. QED
    BY <2>2, <2>3
<1>5. QED
  BY <1>1, <1>3, <1>4 DEF Keeping, Saving

LEMMA KeepingHolds == Spec => []Keeping
<1>1. Init => Keeping
  BY DEF Init, Keeping, Loading, Loaded, Saving
<1>2. TypeOK /\ Idle /\ Keeping /\ [Next]_vars => Keeping'
  <2> SUFFICES ASSUME TypeOK, Idle, Keeping, [Next]_vars PROVE Keeping'
    OBVIOUS
  <2>1. CASE Next
    BY <2>1, LoadKeeps, ReadKeeps, SaveKeeps, SettersKeep DEF Next
  <2>2. CASE UNCHANGED vars
    BY <2>2, SettersKeep
  <2>3. QED
    BY <2>1, <2>2
<1>3. Spec => [](TypeOK /\ Idle)
  BY TypesInit, TypesNext, PTL DEF Spec
<1>4. QED
  BY <1>1, <1>2, <1>3, PTL DEF Spec

(* For any file and any flags: after a load that ended well and a save     *)
(* without an edit in between, the file still has a line for every item    *)
(* that load read, with the key and the value it had, and every comment in *)
(* front of one begins a line.                                             *)
THEOREM ItemsAreKept == Spec => []KeepsItems
<1>1. TypeOK /\ Sound /\ Keeping => KeepsItems
  BY KeptItems
<1>2. QED
  BY <1>1, Typing, Soundness, KeepingHolds, PTL

-----------------------------------------------------------------------------
(* What saveas wrote is read back                                          *)

(* A place in the text of the sections X: the sections to come, the one    *)
(* being written, its next item, and the lines in front of the place.      *)
Places(X) == [left : SUBSET DOMAIN X, section : DOMAIN X \cup {None}, at : Nat \ {0}, pos : Nat]

Beginning(X) == [left |-> DOMAIN X, section |-> None, at |-> 1, pos |-> 0]

Done(X, c) == c.section # None => c.at > Len(X[c.section].items)

(* The lines of chunk come behind the p-th. *)
Comes(lines, p, chunk) ==
  p + Len(chunk) <= Len(lines) /\ \A n \in 1 .. Len(chunk) : lines[p + n] = chunk[n]

ChunkOf(X, d) == X[d.section].comment \o HeaderOf(d.section)

ToSection(X, c, d, lines) ==
  /\ Done(X, c) /\ d.section \in c.left /\ (<<>> \in c.left => d.section = <<>>)
  /\ d.left = c.left \ {d.section} /\ d.at = 1
  /\ Comes(lines, c.pos, ChunkOf(X, d)) /\ d.pos = c.pos + Len(ChunkOf(X, d))

ItemOf(X, c) == Rendered(X[c.section].items[c.at])

ToItem(X, c, d, lines) ==
  /\ ~Done(X, c) /\ d.left = c.left /\ d.section = c.section /\ d.at = c.at + 1
  /\ Comes(lines, c.pos, ItemOf(X, c)) /\ d.pos = c.pos + Len(ItemOf(X, c))

Onward(X, c, d, lines) == ToSection(X, c, d, lines) \/ ToItem(X, c, d, lines)

AtEnd(X, c, lines) == Done(X, c) /\ c.left = {} /\ c.pos = Len(lines)

(* The places C lead through the whole text, or up to the place c. *)
Through(X, C, lines) ==
  /\ C \subseteq Places(X) /\ Beginning(X) \in C
  /\ \A c \in C : AtEnd(X, c, lines) \/ \E d \in C : Onward(X, c, d, lines)

UpTo(X, C, cur, lines) ==
  /\ C \subseteq Places(X) /\ Beginning(X) \in C /\ cur \in C
  /\ \A c \in C : c = cur \/ \E d \in C : Onward(X, c, d, lines)

LEMMA ComesBehind ==
  ASSUME NEW lines \in Seq(Text), NEW chunk \in Seq(Text)
  PROVE  /\ lines \o chunk \in Seq(Text) /\ Len(lines) \in Nat /\ Len(chunk) \in Nat
         /\ Len(lines \o chunk) = Len(lines) + Len(chunk)
         /\ Comes(lines \o chunk, Len(lines), chunk)
         /\ \A p \in Nat : \A other : Len(other) \in Nat /\ Comes(lines, p, other) => Comes(lines \o chunk, p, other)
<1> DEFINE all == lines \o chunk
<1>1. /\ Len(lines) \in Nat /\ Len(chunk) \in Nat
      /\ all \in Seq(Text) /\ Len(all) = Len(lines) + Len(chunk)
      /\ \A k \in 1 .. Len(lines) + Len(chunk) :
           all[k] = IF k <= Len(lines) THEN lines[k] ELSE chunk[k - Len(lines)]
  BY ConcatProperties, LenProperties
<1> HIDE DEF all
<1>2. ASSUME NEW n \in 1 .. Len(chunk)
      PROVE  all[Len(lines) + n] = chunk[n]
  <2>1. /\ Len(lines) + n \in 1 .. Len(lines) + Len(chunk) /\ ~(Len(lines) + n <= Len(lines))
        /\ (Len(lines) + n) - Len(lines) = n
    BY <1>1
  <2>2. QED
    BY <1>1, <2>1
<1>3. ASSUME NEW p \in Nat, NEW other, Len(other) \in Nat, Comes(lines, p, other)
      PROVE  Comes(all, p, other)
  <2>1. p + Len(other) <= Len(lines) /\ \A n \in 1 .. Len(other) : lines[p + n] = other[n]
    BY <1>3 DEF Comes
  <2>2. \A n \in 1 .. Len(other) : p + n \in 1 .. Len(lines) + Len(chunk) /\ p + n <= Len(lines)
    BY <1>1, <1>3, <2>1
  <2>3. \A n \in 1 .. Len(other) : all[p + n] = other[n]
    BY <1>1, <2>1, <2>2
  <2>4. p + Len(other) <= Len(all)
    BY <1>1, <1>3, <2>1
  <2>5. QED
    BY <2>3, <2>4 DEF Comes
<1>4. Comes(all, Len(lines), chunk)
  BY <1>1, <1>2 DEF Comes
<1>5. QED
  BY <1>1, <1>3, <1>4 DEF all

LEMMA BehindBehind ==
  ASSUME NEW a \in Seq(Text), NEW b \in Seq(Text), NEW c \in Seq(Text)
  PROVE  (a \o b) \o c = a \o (b \o c)
<1> DEFINE l == a \o b
           r == b \o c
<1>1. Len(a) \in Nat /\ Len(b) \in Nat /\ Len(c) \in Nat
  BY LenProperties
<1>2. /\ l \in Seq(Text) /\ Len(l) = Len(a) + Len(b)
      /\ \A k \in 1 .. Len(a) + Len(b) : l[k] = IF k <= Len(a) THEN a[k] ELSE b[k - Len(a)]
  BY ConcatProperties
<1>3. /\ r \in Seq(Text) /\ Len(r) = Len(b) + Len(c)
      /\ \A k \in 1 .. Len(b) + Len(c) : r[k] = IF k <= Len(b) THEN b[k] ELSE c[k - Len(b)]
  BY ConcatProperties
<1> HIDE DEF l, r
<1>4. /\ l \o c \in Seq(Text) /\ Len(l \o c) = Len(l) + Len(c)
      /\ \A k \in 1 .. Len(l) + Len(c) : (l \o c)[k] = IF k <= Len(l) THEN l[k] ELSE c[k - Len(l)]
  <2>1. l \in Seq(Text)
    BY <1>2
  <2>2. QED
    BY <2>1, ConcatProperties
<1>5. /\ a \o r \in Seq(Text) /\ Len(a \o r) = Len(a) + Len(r)
      /\ \A k \in 1 .. Len(a) + Len(r) : (a \o r)[k] = IF k <= Len(a) THEN a[k] ELSE r[k - Len(a)]
  <2>1. r \in Seq(Text)
    BY <1>3
  <2>2. QED
    BY <2>1, ConcatProperties
<1> DEFINE x == l \o c
           y == a \o r
<1> HIDE DEF x, y
<1>6. Len(x) = Len(a) + Len(b) + Len(c) /\ Len(y) = Len(x)
  BY <1>1, <1>2, <1>3, <1>4, <1>5 DEF x, y
<1>7. ASSUME NEW k \in 1 .. Len(x) PROVE x[k] = y[k]
  <2>1. CASE k <= Len(a)
    BY <1>1, <1>2, <1>3, <1>4, <1>5, <1>6, <2>1 DEF x, y
  <2>2. CASE ~(k <= Len(a)) /\ k <= Len(a) + Len(b)
    <3>1. k - Len(a) \in 1 .. Len(b) + Len(c) /\ k - Len(a) <= Len(b)
      BY <1>1, <1>6, <2>2
    <3>2. x[k] = b[k - Len(a)]
      BY <1>1, <1>2, <1>4, <1>6, <2>2 DEF x
    <3>3. y[k] = r[k - Len(a)] /\ r[k - Len(a)] = b[k - Len(a)]
      BY <1>1, <1>3, <1>5, <1>6, <2>2, <3>1 DEF y
    <3>4. QED
      BY <3>2, <3>3
  <2>3. CASE ~(k <= Len(a) + Len(b))
    <3>1. k - Len(a) \in 1 .. Len(b) + Len(c) /\ ~(k - Len(a) <= Len(b))
          /\ (k - Len(a)) - Len(b) = k - (Len(a) + Len(b))
      BY <1>1, <1>6, <2>3
    <3>2. x[k] = c[k - (Len(a) + Len(b))]
      BY <1>1, <1>2, <1>4, <1>6, <2>3 DEF x
    <3>3. y[k] = r[k - Len(a)]
      BY <1>1, <1>3, <1>5, <1>6, <2>3 DEF y
    <3>4. r[k - Len(a)] = c[(k - Len(a)) - Len(b)]
      BY <1>3, <3>1
    <3>5. QED
      BY <3>1, <3>2, <3>3, <3>4
  <2>4. QED
    BY <2>1, <2>2, <2>3
<1>8. x = y
  BY <1>4, <1>5, <1>6, <1>7, SeqEqual DEF x, y
<1>9. QED
  BY <1>8 DEF x, y, l, r

LEMMA OnwardGrows ==
  ASSUME NEW X, DOMAIN X \subseteq Text, \A s \in DOMAIN X : X[s] \in SectionType,
         NEW c \in Places(X), NEW d, NEW lines \in Seq(Text), NEW more \in Seq(Text),
         Onward(X, c, d, lines)
  PROVE  Onward(X, c, d, lines \o more)
<1>1. c.left \subseteq DOMAIN X /\ c.section \in DOMAIN X \cup {None} /\ c.at \in Nat \ {0} /\ c.pos \in Nat
  BY DEF Places
<1>2. CASE ToSection(X, c, d, lines)
  <2>1. Len(ChunkOf(X, d)) \in Nat
    <3>1. d.section \in DOMAIN X
      BY <1>1, <1>2 DEF ToSection
    <3>2. ChunkOf(X, d) \in Seq(Text)
      BY <3>1, ChunkTypes DEF ChunkOf
    <3>3. QED
      BY <3>2, LenProperties
  <2>2. Comes(lines \o more, c.pos, ChunkOf(X, d))
    BY <1>1, <1>2, <2>1, ComesBehind DEF ToSection
  <2>3. QED
    BY <1>2, <2>2 DEF Onward, ToSection
<1>3. CASE ToItem(X, c, d, lines)
  <2>1. Len(ItemOf(X, c)) \in Nat
    <3>1. c.section \in DOMAIN X /\ ~(c.at > Len(X[c.section].items))
      BY <1>1, <1>3 DEF ToItem, Done
    <3>2. Len(X[c.section].items) \in Nat
      BY <3>1, LenProperties DEF SectionType
    <3>3. c.at \in 1 .. Len(X[c.section].items)
      BY <1>1, <3>1, <3>2
    <3>4. ItemOf(X, c) \in Seq(Text)
      BY <3>1, <3>3, ChunkTypes DEF ItemOf
    <3>5. QED
      BY <3>4, LenProperties
  <2>2. Comes(lines \o more, c.pos, ItemOf(X, c))
    BY <1>1, <1>3, <2>1, ComesBehind DEF ToItem
  <2>3. QED
    BY <1>3, <2>2 DEF Onward, ToItem
<1>4. QED
  BY <1>2, <1>3 DEF Onward

LEMMA OneMorePlace ==
  ASSUME NEW X, DOMAIN X \subseteq Text, \A s \in DOMAIN X : X[s] \in SectionType,
         NEW C, NEW c, NEW d \in Places(X), NEW lines \in Seq(Text), NEW more \in Seq(Text),
         UpTo(X, C, c, lines), Onward(X, c, d, lines \o more)
  PROVE  UpTo(X, C \cup {d}, d, lines \o more)
<1>1. C \subseteq Places(X) /\ Beginning(X) \in C /\ c \in C
  BY DEF UpTo
<1>2. ASSUME NEW b \in C PROVE \E e \in C \cup {d} : Onward(X, b, e, lines \o more)
  <2>1. CASE b = c
    BY <2>1
  <2>2. CASE b # c
    <3>1. PICK e \in C : Onward(X, b, e, lines)
      BY <2>2 DEF UpTo
    <3>2. b \in Places(X)
      BY <1>1
    <3>3. Onward(X, b, e, lines \o more)
      BY <3>1, <3>2, OnwardGrows
    <3>4. QED
      BY <3>3
  <2>3. QED
    BY <2>1, <2>2
<1>3. QED
  BY <1>1, <1>2 DEF UpTo

Here == [left |-> left, section |-> section, at |-> at, pos |-> Len(data)]

Writing ==
  /\ pc = "save" => \E C : UpTo(sections_, C, Here, data)
  /\ pc = "write" => \E C : Through(sections_, C, data)

(* Storable, with any flags. *)
StorableWith(flags, s, sect) ==
  LET comments(c) == \A i \in DOMAIN c : c[i] # <<>> /\ c[i][1] \in Flags(flags) IN
  /\ Free(s, {"]"} \cup Flags(flags))
  /\ s = <<>> => sect.comment = <<>>
  /\ comments(sect.comment)
  /\ \A i \in DOMAIN sect.items :
       LET item == sect.items[i] IN
       /\ Free(item.key, {"="} \cup Flags(flags)) /\ (item.key # <<>> => item.key[1] # "[")
       /\ Free(item.value, Flags(flags))
       /\ comments(item.comment)

LEMMA StorableWithFlags ==
  ASSUME NEW s, NEW sect
  PROVE  Storable(s, sect) <=> StorableWith(flags_, s, sect)
BY DEF Storable, ItemStorable, CommentStorable, isComment, StorableWith

Written ==
  saved # None =>
    LET X == saved.sections IN
    /\ DOMAIN X \subseteq Text /\ \A s \in DOMAIN X : X[s] \in SectionType
    /\ \A s \in DOMAIN X : StorableWith(saved.flags, s, X[s])
    /\ \E C : Through(X, C, disk)

LEMMA SaveWrites ==
  ASSUME TypeOK, Sound, Writing, Written, Save \/ Killed \/ Restart
  PROVE  Writing' /\ Written'
<1>0. DOMAIN sections_ \subseteq Text /\ (\A s \in DOMAIN sections_ : sections_[s] \in SectionType)
      /\ data \in Seq(Text) /\ disk \in Seq(Text)
  BY DEF TypeOK
<1>1. CASE SaveBegins
  <2>1. /\ pc' = "save" /\ left' = DOMAIN sections_ /\ section' = None /\ at' = 1 /\ data' = <<>>
        /\ UNCHANGED <<sections_, disk, saved>>
    BY <1>1 DEF SaveBegins, objectVars, historyVars
  <2>2. Here' = Beginning(sections_)
    <3>1. Len(<<>>) = 0
      BY EmptySeq
    <3>2. QED
      BY <2>1, <3>1 DEF Here, Beginning
  <2>3. Beginning(sections_) \in Places(sections_)
    BY DEF Beginning, Places
  <2>4. UpTo(sections_, {Beginning(sections_)}, Beginning(sections_), <<>>)
    BY <2>3 DEF UpTo
  <2>5. Writing'
    BY <2>1, <2>2, <2>4 DEF Writing
  <2>6. Written'
    BY <2>1 DEF Written
  <2>7. QED
    BY <2>5, <2>6
<1>2. CASE SaveUnnamed \/ Killed
  <2>1. pc' = "gone" /\ UNCHANGED <<disk, saved>>
    BY <1>2 DEF SaveUnnamed, Killed, historyVars
  <2>2. QED
    BY <2>1 DEF Writing, Written
<1>3. CASE RenderSection
  <2>1. PICK s \in left :
           /\ section' = s /\ at' = 1 /\ left' = left \ {s}
           /\ <<>> \in left => s = <<>>
           /\ s \in DOMAIN sections_ /\ s \in Text /\ sections_[s] \in SectionType
           /\ HeaderOf(s) \in Seq(Text)
           /\ data \o sections_[s].comment \in Seq(Text)
           /\ data' = (data \o sections_[s].comment) \o HeaderOf(s)
           /\ pc = "save" /\ pc' = "save" /\ ItemsDone
           /\ UNCHANGED <<disk, sections_, flags_, original, edited, ret, saved>>
    BY <1>3, RenderSectionStep
  <2> DEFINE chunk == sections_[s].comment \o HeaderOf(s)
  <2>2. chunk \in Seq(Text) /\ data' = data \o chunk
    <3>1. sections_[s].comment \in Seq(Text)
      BY <2>1 DEF SectionType, Comment
    <3>2. HeaderOf(s) \in Seq(Text) /\ data \in Seq(Text)
      BY <1>0, <2>1
    <3>3. (data \o sections_[s].comment) \o HeaderOf(s) = data \o (sections_[s].comment \o HeaderOf(s))
      BY <3>1, <3>2, BehindBehind
    <3>4. chunk \in Seq(Text)
      BY <3>1, <3>2, ConcatProperties
    <3>5. QED
      BY <2>1, <3>3, <3>4
  <2>3. ChunkOf(sections_, Here') = chunk
    BY <2>1 DEF ChunkOf, Here
  <2> HIDE DEF chunk
  <2>4. /\ Len(data) \in Nat /\ Len(chunk) \in Nat /\ Len(data') = Len(data) + Len(chunk)
        /\ Comes(data', Len(data), chunk)
    BY <1>0, <2>2, ComesBehind
  <2>5. Here' \in Places(sections_)
    <3>1. left \subseteq DOMAIN sections_
      BY DEF TypeOK
    <3>2. QED
      BY <2>1, <2>4, <3>1 DEF Here, Places
  <2>6. Done(sections_, Here)
    BY <2>1 DEF Done, Here, ItemsDone
  <2>7. ToSection(sections_, Here, Here', data')
    <3>1. Here.left = left /\ Here.pos = Len(data)
      BY DEF Here
    <3>2. Here'.left = left' /\ Here'.section = section' /\ Here'.at = at' /\ Here'.pos = Len(data')
      BY DEF Here
    <3>3. QED
      BY <2>1, <2>3, <2>4, <2>6, <3>1, <3>2 DEF ToSection
  <2>8. PICK C : UpTo(sections_, C, Here, data)
    BY <2>1 DEF Writing
  <2>9. UpTo(sections_, C \cup {Here'}, Here', data \o chunk)
    BY <1>0, <2>2, <2>5, <2>7, <2>8, OneMorePlace DEF Onward
  <2>10. Writing'
    BY <2>1, <2>2, <2>9 DEF Writing
  <2>11. Written'
    BY <2>1 DEF Written
  <2>12. QED
    BY <2>10, <2>11
<1>4. CASE RenderItem
  <2> DEFINE item == sections_[section].items[at]
             chunk == Rendered(item)
  <2>1. /\ section # None /\ section \in DOMAIN sections_
        /\ at \in 1 .. Len(sections_[section].items)
        /\ chunk \in Seq(Text)
        /\ data' = data \o chunk /\ at' = at + 1
        /\ pc = "save" /\ pc' = "save"
        /\ UNCHANGED <<disk, sections_, section, left, saved>>
    BY <1>4, RenderItemStep
  <2>2. ItemOf(sections_, Here) = chunk
    BY DEF ItemOf, Here
  <2>3. ~Done(sections_, Here)
    <3>1. Len(sections_[section].items) \in Nat
      BY <1>0, <2>1, LenProperties DEF SectionType
    <3>2. QED
      BY <2>1, <3>1 DEF Done, Here
  <2> HIDE DEF chunk
  <2>4. /\ Len(data) \in Nat /\ Len(chunk) \in Nat /\ Len(data') = Len(data) + Len(chunk)
        /\ Comes(data', Len(data), chunk)
    BY <1>0, <2>1, ComesBehind
  <2>5. Here' \in Places(sections_)
    <3>1. left \subseteq DOMAIN sections_ /\ at + 1 \in Nat \ {0}
      BY DEF TypeOK
    <3>2. QED
      BY <2>1, <2>4, <3>1 DEF Here, Places
  <2>6. ToItem(sections_, Here, Here', data')
    <3>1. Here.left = left /\ Here.section = section /\ Here.at = at /\ Here.pos = Len(data)
      BY DEF Here
    <3>2. Here'.left = left' /\ Here'.section = section' /\ Here'.at = at' /\ Here'.pos = Len(data')
      BY DEF Here
    <3>3. QED
      BY <2>1, <2>2, <2>3, <2>4, <3>1, <3>2 DEF ToItem
  <2>7. PICK C : UpTo(sections_, C, Here, data)
    BY <2>1 DEF Writing
  <2>8. UpTo(sections_, C \cup {Here'}, Here', data \o chunk)
    BY <1>0, <2>1, <2>5, <2>6, <2>7, OneMorePlace DEF Onward
  <2>9. Writing'
    BY <2>1, <2>8 DEF Writing
  <2>10. Written'
    BY <2>1 DEF Written
  <2>11. QED
    BY <2>9, <2>10
<1>5. CASE OpenForWriting
  <2>1. /\ pc = "save" /\ ItemsDone /\ left = {} /\ UNCHANGED <<sections_, data>>
        /\ (pc' = "write" /\ saved' = None) \/ (pc' = "gone" /\ UNCHANGED <<disk, saved>>)
    BY <1>5 DEF OpenForWriting, objectVars, loopVars
  <2>2. PICK C : UpTo(sections_, C, Here, data)
    BY <2>1 DEF Writing
  <2>3. AtEnd(sections_, Here, data)
    BY <2>1 DEF AtEnd, Done, Here, ItemsDone
  <2>4. Through(sections_, C, data)
    BY <2>2, <2>3 DEF UpTo, Through
  <2>5. Writing'
    BY <2>1, <2>4 DEF Writing
  <2>6. Written'
    BY <2>1 DEF Written
  <2>7. QED
    BY <2>5, <2>6
<1>6. CASE Write
  <2>1. /\ pc = "write" /\ pc' = "ready" /\ disk' = data
        /\ saved' = IF edited = "spoilt" THEN None ELSE [sections |-> sections_, flags |-> flags_]
    BY <1>6 DEF Write
  <2>2. PICK C : Through(sections_, C, data)
    BY <2>1 DEF Writing
  <2>3. edited # "spoilt" => \A s \in DOMAIN sections_ : StorableWith(flags_, s, sections_[s])
    BY StorableWithFlags DEF Sound
  <2>4. Written'
    <3>1. SUFFICES ASSUME saved' # None PROVE Written'
      BY DEF Written
    <3>2. edited # "spoilt" /\ saved' = [sections |-> sections_, flags |-> flags_]
      BY <2>1, <3>1
    <3>3. saved'.sections = sections_ /\ saved'.flags = flags_
      BY <3>2
    <3>4. QED
      BY <1>0, <2>1, <2>2, <2>3, <3>2, <3>3 DEF Written
  <2>5. QED
    BY <2>1, <2>4 DEF Writing
<1>7. CASE Restart
  <2>1. pc' = "ready" /\ UNCHANGED <<disk, saved>>
    BY <1>7 DEF Restart
  <2>2. QED
    BY <2>1 DEF Writing, Written
<1>8. QED
  BY <1>1, <1>2, <1>3, <1>4, <1>5, <1>6, <1>7 DEF Save

LEMMA OthersWrite ==
  ASSUME Writing, Written, Load \/ ReadLine \/ LoadEnds \/ Setters \/ UNCHANGED vars
  PROVE  Writing' /\ Written'
<1>1. CASE UNCHANGED vars
  BY <1>1 DEF vars, objectVars, loopVars, historyVars, Writing, Written, Here
<1>2. CASE Load
  <2>1. pc' \in {"load", "ready"} /\ UNCHANGED <<disk, saved>>
    BY <1>2 DEF Load, Call
  <2>2. QED
    BY <2>1 DEF Writing, Written
<1>3. CASE LoadEnds
  <2>1. pc' = "ready" /\ UNCHANGED <<disk, saved>>
    BY <1>3 DEF LoadEnds, Stop, historyVars
  <2>2. QED
    BY <2>1 DEF Writing, Written
<1>4. CASE ReadLine
  <2>1. pc' \in {"load", "ready", "gone"} /\ UNCHANGED <<disk, saved>>
    BY <1>4 DEF ReadLine, Blank, CommentLine, Header, NamelessHeader, BadHeader, AddItem, DropLine,
                Advance, Stop, historyVars
  <2>2. QED
    BY <2>1 DEF Writing, Written
<1>5. CASE Setters
  <2>1. \A s, k, v, c : setValue(s, k, v, c) => pc' = "ready" /\ UNCHANGED <<disk, saved>>
    BY DEF setValue, Edit, Call
  <2>2. \A s, c : setSectionComment(s, c) => pc' = "ready" /\ UNCHANGED <<disk, saved>>
    BY DEF setSectionComment, Edit, Call
  <2>3. \A s, k : deleteKey(s, k) => pc' = "ready" /\ UNCHANGED <<disk, saved>>
    BY DEF deleteKey, Edit, Call
  <2>4. \A s : deleteSection(s) => pc' = "ready" /\ UNCHANGED <<disk, saved>>
    BY DEF deleteSection, Edit, Call
  <2>5. \A s : setCommentFlags(s) => pc' = "ready" /\ UNCHANGED <<disk, saved>>
    BY DEF setCommentFlags, Call
  <2>6. pc' = "ready" /\ UNCHANGED <<disk, saved>>
    BY <1>5, <2>1, <2>2, <2>3, <2>4, <2>5, Zenon DEF Setters
  <2>7. QED
    BY <2>6 DEF Writing, Written
<1>6. QED
  BY <1>1, <1>2, <1>3, <1>4, <1>5

(* Sections that the flags of the object let load read back. *)
Readable(X) ==
  /\ DOMAIN X \subseteq Text /\ \A s \in DOMAIN X : X[s] \in SectionType
  /\ \A s \in DOMAIN X : Storable(s, X[s])

(* The object holds what comes in front of the place c. *)
HasReadTo(X, c) ==
  /\ <<>> \notin c.left
  /\ c.section # None => /\ c.section \in DOMAIN X \ c.left
                         /\ c.at <= Len(X[c.section].items) + 1
  /\ section = IF c.section = None THEN <<>> ELSE c.section
  /\ DOMAIN sections_ = {<<>>} \cup (DOMAIN X \ c.left)
  /\ \A s \in DOMAIN X \ c.left : s # c.section => sections_[s] = X[s]
  /\ c.section # None =>
       sections_[c.section] = [comment |-> X[c.section].comment,
                               items |-> SubSeq(X[c.section].items, 1, c.at - 1)]
  /\ <<>> \notin DOMAIN X => sections_[<<>>] = NewSection(<<>>)
  /\ sections_ = [s \in DOMAIN sections_ |-> sections_[s]]

(* The comment holds the lines behind the place c. *)
InHand(c) ==
  /\ c.pos <= at - 1 /\ Len(comment) = at - 1 - c.pos
  /\ \A n \in 1 .. Len(comment) : comment[n] = original[c.pos + n]

Reading(X, C) ==
  \E c \in C :
    /\ HasReadTo(X, c) /\ InHand(c)
    /\ \/ AtEnd(X, c, original)
       \/ \E d \in C : Onward(X, c, d, original) /\ at <= d.pos

LEMMA LastLine ==
  ASSUME NEW cm \in Seq(Text), NEW line \in Text
  PROVE  LET chunk == cm \o <<line>> IN
         /\ Len(cm) \in Nat /\ chunk \in Seq(Text) /\ Len(chunk) = Len(cm) + 1
         /\ chunk[Len(cm) + 1] = line
         /\ \A n \in 1 .. Len(cm) : chunk[n] = cm[n]
<1>1. <<line>> \in Seq(Text) /\ Len(<<line>>) = 1 /\ <<line>>[1] = line
  OBVIOUS
<1> DEFINE one == <<line>>
<1> HIDE DEF one
<1>2. one \in Seq(Text) /\ Len(one) = 1 /\ one[1] = line
  BY <1>1 DEF one
<1>3. /\ Len(cm) \in Nat /\ cm \o one \in Seq(Text) /\ Len(cm \o one) = Len(cm) + 1
      /\ \A k \in 1 .. Len(cm) + 1 : (cm \o one)[k] = IF k <= Len(cm) THEN cm[k] ELSE one[k - Len(cm)]
  <2>1. one \in Seq(Text)
    BY <1>2
  <2>2. /\ Len(cm) \in Nat /\ cm \o one \in Seq(Text) /\ Len(cm \o one) = Len(cm) + Len(one)
        /\ \A k \in 1 .. Len(cm) + Len(one) :
             (cm \o one)[k] = IF k <= Len(cm) THEN cm[k] ELSE one[k - Len(cm)]
    BY <2>1, ConcatProperties, LenProperties
  <2>3. QED
    BY <1>2, <2>2
<1>4. (cm \o one)[Len(cm) + 1] = line /\ \A n \in 1 .. Len(cm) : (cm \o one)[n] = cm[n]
  BY <1>2, <1>3
<1>5. QED
  BY <1>3, <1>4 DEF one

(* Every step but the one to the default section is over some comment and a line. *)
LEMMA OverLines ==
  ASSUME NEW X, Readable(X), NEW c \in Places(X), <<>> \notin c.left, NEW d, NEW lines,
         Onward(X, c, d, lines)
  PROVE  \E cm \in Seq(Text), line \in Text :
           /\ CommentStorable(cm)
           /\ Comes(lines, c.pos, cm \o <<line>>) /\ d.pos = c.pos + Len(cm) + 1 /\ c.pos < d.pos
           /\ \/ /\ ToSection(X, c, d, lines) /\ d.section \in DOMAIN X \ {<<>>}
                 /\ cm = X[d.section].comment /\ line = HeaderLine(d.section)
              \/ /\ ToItem(X, c, d, lines) /\ c.section \in DOMAIN X
                 /\ c.at \in 1 .. Len(X[c.section].items)
                 /\ cm = X[c.section].items[c.at].comment
                 /\ line = ItemLine(X[c.section].items[c.at])
<1>1. c.left \subseteq DOMAIN X /\ c.section \in DOMAIN X \cup {None} /\ c.at \in Nat \ {0} /\ c.pos \in Nat
  BY DEF Places
<1>2. DOMAIN X \subseteq Text /\ (\A s \in DOMAIN X : X[s] \in SectionType)
      /\ \A s \in DOMAIN X : Storable(s, X[s])
  BY DEF Readable
<1>3. ASSUME NEW cm \in Seq(Text), NEW line \in Text, CommentStorable(cm),
             Comes(lines, c.pos, cm \o <<line>>), d.pos = c.pos + Len(cm \o <<line>>)
      PROVE  d.pos = c.pos + Len(cm) + 1 /\ c.pos < d.pos
  <2>1. Len(cm) \in Nat /\ Len(cm \o <<line>>) = Len(cm) + 1
    BY LastLine
  <2>2. QED
    BY <1>1, <1>3, <2>1
<1>4. CASE ToSection(X, c, d, lines)
  <2>1. d.section \in DOMAIN X \ {<<>>}
    BY <1>1, <1>4 DEF ToSection
  <2>2. X[d.section].comment \in Seq(Text) /\ CommentStorable(X[d.section].comment)
    BY <1>2, <2>1 DEF SectionType, Comment, Storable
  <2>3. HeaderLine(d.section) \in Text /\ HeaderOf(d.section) = <<HeaderLine(d.section)>>
    <3>1. HeaderOf(d.section) = <<HeaderLine(d.section)>>
      BY <2>1 DEF HeaderOf
    <3>2. QED
      BY <1>2, <2>1, <3>1, ChunkTypes
  <2>4. /\ Comes(lines, c.pos, X[d.section].comment \o <<HeaderLine(d.section)>>)
        /\ d.pos = c.pos + Len(X[d.section].comment \o <<HeaderLine(d.section)>>)
    BY <1>4, <2>3 DEF ToSection, ChunkOf
  <2>5. QED
    BY <1>3, <1>4, <2>1, <2>2, <2>3, <2>4
<1>5. CASE ToItem(X, c, d, lines)
  <2>1. c.section \in DOMAIN X /\ ~(c.at > Len(X[c.section].items))
    BY <1>1, <1>5 DEF ToItem, Done
  <2> DEFINE item == X[c.section].items[c.at]
  <2>2. c.at \in 1 .. Len(X[c.section].items)
    <3>1. Len(X[c.section].items) \in Nat
      BY <1>2, <2>1, LenProperties DEF SectionType
    <3>2. QED
      BY <1>1, <2>1, <3>1
  <2>3. item \in ItemType /\ ItemLine(item) \in Text /\ Rendered(item) = item.comment \o <<ItemLine(item)>>
    BY <1>2, <2>1, <2>2, ChunkTypes
  <2>4. CommentStorable(item.comment)
    <3>1. DOMAIN X[c.section].items = 1 .. Len(X[c.section].items)
      BY <1>2, <2>1, LenProperties DEF SectionType
    <3>2. QED
      BY <1>2, <2>1, <2>2, <3>1 DEF Storable, ItemStorable
  <2>5. ItemOf(X, c) = Rendered(item)
    BY DEF ItemOf
  <2> HIDE DEF item
  <2>6. item.comment \in Seq(Text)
    BY <2>3 DEF ItemType, Comment
  <2>7. /\ Comes(lines, c.pos, item.comment \o <<ItemLine(item)>>)
        /\ d.pos = c.pos + Len(item.comment \o <<ItemLine(item)>>)
    BY <1>5, <2>3, <2>5 DEF ToItem
  <2>8. d.pos = c.pos + Len(item.comment) + 1 /\ c.pos < d.pos
    BY <1>3, <2>3, <2>4, <2>6, <2>7
  <2>9. QED
    BY <1>5, <2>1, <2>2, <2>3, <2>4, <2>6, <2>7, <2>8 DEF item
<1>6. QED
  BY <1>4, <1>5 DEF Onward

LEMMA NextPlace ==
  ASSUME NEW X, Readable(X), NEW C, NEW lines, Through(X, C, lines),
         NEW c \in C, <<>> \notin c.left
  PROVE  AtEnd(X, c, lines) \/ \E d \in C : Onward(X, c, d, lines) /\ c.pos < d.pos
<1>1. SUFFICES ASSUME ~AtEnd(X, c, lines)
               PROVE  \E d \in C : Onward(X, c, d, lines) /\ c.pos < d.pos
  OBVIOUS
<1>2. PICK d \in C : Onward(X, c, d, lines)
  BY <1>1 DEF Through
<1>3. c \in Places(X)
  BY DEF Through
<1>4. c.pos < d.pos
  BY <1>2, <1>3, OverLines
<1>5. QED
  BY <1>2, <1>4

LEMMA ReadableUnchanged ==
  ASSUME flags_' = flags_, NEW X
  PROVE  Readable(X)' <=> Readable(X)
BY StorableUnchanged DEF Readable

(* A place that has been read to, with nothing in hand. *)
LEMMA ReachedPlace ==
  ASSUME NEW X, Readable(X), NEW C, NEW lines, Through(X, C, lines), NEW d \in C,
         original' = lines, HasReadTo(X, d)', comment' = <<>>, at' = d.pos + 1
  PROVE  Reading(X, C)'
<1>1. d.pos \in Nat
  BY DEF Through, Places
<1>2. <<>> \notin d.left
  BY DEF HasReadTo
<1>3. AtEnd(X, d, lines) \/ \E e \in C : Onward(X, d, e, lines) /\ d.pos < e.pos
  BY <1>2, NextPlace
<1>4. ASSUME NEW e \in C, Onward(X, d, e, lines), d.pos < e.pos PROVE at' <= e.pos
  <2>1. e.pos \in Nat
    BY DEF Through, Places
  <2>2. QED
    BY <1>1, <1>4, <2>1
<1>5. InHand(d)'
  <2>1. Len(<<>>) = 0
    OBVIOUS
  <2>2. d.pos <= at' - 1 /\ Len(comment') = at' - 1 - d.pos /\ 1 .. Len(comment') = {}
    BY <1>1, <2>1
  <2>3. QED
    BY <2>2 DEF InHand
<1>6. QED
  BY <1>3, <1>4, <1>5 DEF Reading

(* Cutting the items at the next one, or where there is none. *)
LEMMA OneMoreItem ==
  ASSUME NEW items \in Seq(ItemType), NEW n \in 1 .. Len(items)
  PROVE  Append(SubSeq(items, 1, n - 1), items[n]) = SubSeq(items, 1, n)
<1>1. Len(items) \in Nat /\ 1 \in Nat \ {0} /\ n - 1 \in Int /\ n \in Int /\ n - 1 <= Len(items) /\ n <= Len(items)
  BY LenProperties
<1> DEFINE front == SubSeq(items, 1, n - 1)
           all == SubSeq(items, 1, n)
<1>2. /\ front \in Seq(ItemType) /\ Len(front) = IF 1 <= n - 1 THEN n - 1 - 1 + 1 ELSE 0
      /\ \A k \in 1 .. Len(front) : front[k] = items[1 + k - 1]
  BY <1>1, PieceProperties
<1>3. /\ all \in Seq(ItemType) /\ Len(all) = IF 1 <= n THEN n - 1 + 1 ELSE 0
      /\ \A k \in 1 .. Len(all) : all[k] = items[1 + k - 1]
  BY <1>1, PieceProperties
<1>4. items[n] \in ItemType
  BY <1>1, ElementOfSeq
<1> HIDE DEF front, all
<1>5. Len(front) = n - 1 /\ Len(all) = n
  BY <1>1, <1>2, <1>3
<1> DEFINE e == items[n]
           added == Append(front, e)
<1>6. /\ added \in Seq(ItemType) /\ Len(added) = Len(front) + 1
      /\ \A k \in 1 .. Len(front) : added[k] = front[k]
      /\ added[Len(front) + 1] = e
  BY <1>2, <1>4, AppendProperties
<1> HIDE DEF added, e
<1>7. ASSUME NEW k \in 1 .. n PROVE added[k] = all[k]
  <2>1. all[k] = items[k]
    <3>1. k \in 1 .. Len(all) /\ 1 + k - 1 = k
      BY <1>5
    <3>2. QED
      BY <1>3, <3>1
  <2>2. CASE k = n
    <3>1. added[k] = e /\ (n - 1) + 1 = n
      BY <1>1, <1>5, <1>6, <2>2
    <3>2. QED
      BY <2>1, <2>2, <3>1 DEF e
  <2>3. CASE k # n
    <3>1. k \in 1 .. Len(front) /\ 1 + k - 1 = k
      BY <1>1, <1>5, <2>3
    <3>2. added[k] = front[k] /\ front[k] = items[k]
      BY <1>2, <1>6, <3>1
    <3>3. QED
      BY <2>1, <3>2
  <2>4. QED
    BY <2>2, <2>3
<1>8. Len(added) = n
  BY <1>1, <1>5, <1>6
<1>9. added = all
  BY <1>3, <1>5, <1>6, <1>7, <1>8, SeqEqual
<1>10. QED
  BY <1>9 DEF added, front, all, e

(* A header is read back. *)
LEMMA ReadsHeader ==
  ASSUME NEW X, Readable(X), FlagsType, comment \in Comment,
         NEW c \in Places(X), NEW d \in Places(X), NEW lines, ToSection(X, c, d, lines),
         HasReadTo(X, c), d.section \in DOMAIN X \ {<<>>}, comment = X[d.section].comment,
         NEW line, line = HeaderLine(d.section),
         Blank(line) \/ CommentLine(line) \/ Header(line) \/ NamelessHeader(line)
           \/ BadHeader(line) \/ AddItem(line) \/ DropLine(line)
  PROVE  Advance /\ comment' = <<>> /\ HasReadTo(X, d)'
<1> DEFINE s == d.section
<1>1. /\ s \in Text /\ s # <<>> /\ X[s] \in SectionType /\ Free(s, {"]"} \cup Flags(flags_))
      /\ s \in DOMAIN X
  BY DEF Readable, Storable
<1>2. Len(s) \in Nat /\ Len(s) # 0
  BY <1>1, LenProperties, EmptySeq DEF Text
<1>3. /\ Done(X, c) /\ s \in c.left /\ d.left = c.left \ {s} /\ d.at = 1
      /\ c.left \subseteq DOMAIN X /\ c.at \in Nat \ {0}
  BY DEF ToSection, Places
<1> HIDE DEF s
<1>4. /\ line \in Text /\ line # <<>> /\ line[1] = "["
      /\ Free(line, Flags(flags_))
      /\ Len(line) = Len(s) + 2 /\ First(line, {"]"}) = Len(s) + 2
      /\ SubSeq(line, 2, Len(s) + 1) = s
  BY <1>1, HeaderLineProperties DEF s
<1>5. ~isComment(line) /\ Code(line) = line /\ Behind(line) = <<>>
  BY <1>4, FreeIsCode
<1>6. IsHeader(line) /\ HeaderEnd(line) = Len(s) + 2 /\ Len(Code(line)) = Len(s) + 2
  BY <1>4, <1>5 DEF IsHeader, HeaderEnd
<1>7. HeaderName(line) = s
  <2>1. HeaderEnd(line) - 1 = Len(s) + 1
    BY <1>2, <1>6
  <2>2. QED
    BY <1>4, <1>5, <2>1 DEF HeaderName
<1>8. s \notin DOMAIN sections_
  BY <1>1, <1>3 DEF HasReadTo
<1>9. ~Blank(line) /\ ~CommentLine(line) /\ ~AddItem(line) /\ ~DropLine(line)
  BY <1>4, <1>5, <1>6 DEF Blank, CommentLine, AddItem, DropLine, IsItem
<1>10. ~NamelessHeader(line)
  BY <1>2, <1>6 DEF NamelessHeader
<1>11. ~BadHeader(line)
  <2>1. ~(HeaderEnd(line) > Len(Code(line)))
    BY <1>2, <1>6
  <2>2. QED
    BY <1>7, <1>8, <2>1 DEF BadHeader
<1>12. Header(line)
  BY <1>9, <1>10, <1>11
<1>13. Pending(line) = X[s].comment
  BY <1>5 DEF Pending, Joined, s
<1>14. /\ Advance /\ section' = s /\ comment' = <<>>
       /\ sections_' = With(s, NewSection(X[s].comment))
  BY <1>7, <1>12, <1>13 DEF Header, AfterHeader
<1>15. /\ DOMAIN sections_' = DOMAIN sections_ \cup {s}
       /\ sections_'[s] = NewSection(X[s].comment)
       /\ \A t \in DOMAIN sections_ : sections_'[t] = sections_[t]
  BY <1>8, <1>14 DEF With
<1>16. ASSUME NEW t \in DOMAIN X \ d.left, t # s
       PROVE  sections_'[t] = X[t]
  <2>1. t \in DOMAIN X \ c.left
    BY <1>3, <1>16
  <2>2. t \in DOMAIN sections_ /\ sections_'[t] = sections_[t]
    BY <1>15, <2>1 DEF HasReadTo
  <2>3. CASE t = c.section
    <3>1. X[t] \in SectionType /\ t # None
      BY <1>16, IniAssumption DEF Readable, IniAssumption
    <3>2. X[t].items \in Seq(ItemType) /\ Len(X[t].items) \in Nat
      BY <3>1, LenProperties DEF SectionType
    <3>3. c.at > Len(X[t].items) /\ c.at <= Len(X[t].items) + 1
      BY <1>3, <2>3, <3>1 DEF Done, HasReadTo
    <3>4. c.at - 1 = Len(X[t].items)
      BY <1>3, <3>2, <3>3
    <3>5. SubSeq(X[t].items, 1, c.at - 1) = X[t].items
      BY <3>2, <3>4, SubSeqFull
    <3>6. sections_[t] = [comment |-> X[t].comment, items |-> SubSeq(X[t].items, 1, c.at - 1)]
      BY <2>3, <3>1 DEF HasReadTo
    <3>7. X[t] = [comment |-> X[t].comment, items |-> X[t].items]
      BY <3>1 DEF SectionType
    <3>8. QED
      BY <2>2, <3>5, <3>6, <3>7
  <2>4. CASE t # c.section
    BY <2>1, <2>2, <2>4 DEF HasReadTo
  <2>5. QED
    BY <2>3, <2>4
<1>17. SubSeq(X[s].items, 1, d.at - 1) = <<>>
  BY <1>3, SubSeqEmpty
<1>18. d.section = s /\ s # None
  BY <1>1, IniAssumption DEF s, IniAssumption
<1>19. d.at <= Len(X[s].items) + 1
  <2>1. Len(X[s].items) \in Nat
    BY <1>1, LenProperties DEF SectionType
  <2>2. QED
    BY <1>3, <2>1
<1>20. <<>> \notin d.left /\ s \in DOMAIN X \ d.left
  BY <1>1, <1>3 DEF HasReadTo
<1>21. DOMAIN sections_' = {<<>>} \cup (DOMAIN X \ d.left)
  BY <1>1, <1>3, <1>15 DEF HasReadTo
<1>22. <<>> \notin DOMAIN X => sections_'[<<>>] = NewSection(<<>>)
  BY <1>15 DEF HasReadTo
<1>23. sections_'[s] = [comment |-> X[s].comment, items |-> SubSeq(X[s].items, 1, d.at - 1)]
  BY <1>15, <1>17 DEF NewSection
<1>26. sections_' = [t \in DOMAIN sections_' |-> sections_'[t]]
  BY <1>14 DEF With
<1>24. HasReadTo(X, d)'
  BY <1>26, <1>14, <1>16, <1>18, <1>19, <1>20, <1>21, <1>22, <1>23 DEF HasReadTo
<1>25. QED
  BY <1>14, <1>24

(* An item is read back. *)
LEMMA ReadsItem ==
  ASSUME NEW X, Readable(X), FlagsType, comment \in Comment,
         NEW c \in Places(X), NEW d, NEW lines, ToItem(X, c, d, lines),
         HasReadTo(X, c), c.section \in DOMAIN X, c.at \in 1 .. Len(X[c.section].items),
         NEW item, item = X[c.section].items[c.at], comment = item.comment,
         NEW line, line = ItemLine(item),
         Blank(line) \/ CommentLine(line) \/ Header(line) \/ NamelessHeader(line)
           \/ BadHeader(line) \/ AddItem(line) \/ DropLine(line)
  PROVE  Advance /\ comment' = <<>> /\ HasReadTo(X, d)'
<1> DEFINE s == c.section
<1>1. /\ s \in Text /\ s # None /\ X[s] \in SectionType /\ X[s].items \in Seq(ItemType)
      /\ Storable(s, X[s])
  BY IniAssumption DEF Readable, IniAssumption, SectionType
<1>2. item \in ItemType /\ ItemStorable(item)
  <2>1. DOMAIN X[s].items = 1 .. Len(X[s].items)
    BY <1>1, LenProperties
  <2>2. QED
    BY <1>1, <2>1, ElementOfSeq DEF Storable
<1>3. d.left = c.left /\ d.section = s /\ d.at = c.at + 1
  BY DEF ToItem
<1>4. /\ section = s /\ s \in DOMAIN X \ c.left /\ s \in DOMAIN sections_
      /\ sections_[s] = [comment |-> X[s].comment, items |-> SubSeq(X[s].items, 1, c.at - 1)]
  BY <1>1 DEF HasReadTo
<1>5. Append(SubSeq(X[s].items, 1, c.at - 1), item) = SubSeq(X[s].items, 1, c.at)
  BY <1>1, OneMoreItem
<1> HIDE DEF s
<1>6. /\ line \in Text /\ line # <<>> /\ line[1] # "["
      /\ Free(line, Flags(flags_))
      /\ First(line, {"="}) <= Len(line)
      /\ Before(line, {"="}) = item.key /\ After(line, {"="}) = item.value
  BY <1>2, ItemLineProperties
<1>7. ~isComment(line) /\ Code(line) = line /\ Behind(line) = <<>>
  BY <1>6, FreeIsCode
<1>8. ~IsHeader(line) /\ IsItem(line) /\ Parsed(line)
  BY <1>6, <1>7 DEF IsHeader, IsItem, Parsed
<1>9. AddItem(line)
  BY <1>6, <1>7, <1>8 DEF Blank, CommentLine, Header, NamelessHeader, BadHeader, DropLine
<1>10. Item(line) = item
  <2>1. Pending(line) = item.comment
    BY <1>7 DEF Pending, Joined
  <2>2. item = [key |-> item.key, value |-> item.value, comment |-> item.comment]
    BY <1>2 DEF ItemType
  <2>3. QED
    BY <1>6, <1>7, <2>1, <2>2 DEF Item
<1>11. /\ Advance /\ section' = section /\ comment' = <<>>
       /\ sections_' = [sections_ EXCEPT ![s].items = Append(@, item)]
  BY <1>1, <1>4, <1>9, <1>10 DEF AddItem
<1>12. /\ DOMAIN sections_' = DOMAIN sections_
       /\ \A t \in DOMAIN sections_ : t # s => sections_'[t] = sections_[t]
  BY <1>11
<1>13. sections_'[s] = [comment |-> X[s].comment, items |-> SubSeq(X[s].items, 1, c.at)]
  <2>1. sections_'[s] = [sections_[s] EXCEPT !.items = Append(sections_[s].items, item)]
    BY <1>4, <1>11
  <2> DEFINE a == X[s].comment
             b == SubSeq(X[s].items, 1, c.at - 1)
  <2>2. sections_[s] = [comment |-> a, items |-> b]
    BY <1>4
  <2>3. Append(b, item) = SubSeq(X[s].items, 1, c.at)
    BY <1>5
  <2> HIDE DEF a, b
  <2>4. sections_'[s] = [comment |-> a, items |-> Append(b, item)]
    BY <2>1, <2>2
  <2>5. QED
    BY <2>3, <2>4 DEF a
<1>14. c.at \in Nat /\ d.at - 1 = c.at /\ d.at <= Len(X[s].items) + 1
  <2>1. Len(X[s].items) \in Nat
    BY <1>1, LenProperties
  <2>2. c.at \in 1 .. Len(X[s].items)
    BY DEF s
  <2>3. QED
    BY <1>3, <2>1, <2>2
<1>15. /\ <<>> \notin d.left /\ section' = s
       /\ DOMAIN sections_' = {<<>>} \cup (DOMAIN X \ d.left)
  BY <1>3, <1>4, <1>11, <1>12 DEF HasReadTo
<1>16. \A t \in DOMAIN X \ d.left : t # s => sections_'[t] = X[t]
  <2>1. \A t \in DOMAIN X \ c.left : t # s => sections_[t] = X[t] /\ t \in DOMAIN sections_
    BY DEF HasReadTo, s
  <2>2. QED
    BY <1>3, <1>12, <2>1
<1>17. <<>> \notin DOMAIN X => sections_'[<<>>] = NewSection(<<>>)
  <2>1. <<>> \in DOMAIN sections_ /\ (<<>> \notin DOMAIN X => sections_[<<>>] = NewSection(<<>>))
    BY DEF HasReadTo
  <2>2. s \in DOMAIN X
    BY <1>4
  <2>3. QED
    BY <1>12, <2>1, <2>2
<1>20. sections_' = [t \in DOMAIN sections_' |-> sections_'[t]]
  BY <1>11
<1>18. HasReadTo(X, d)'
  BY <1>20, <1>1, <1>3, <1>4, <1>13, <1>14, <1>15, <1>16, <1>17 DEF HasReadTo
<1>19. QED
  BY <1>11, <1>18

LEMMA ReadsOn ==
  ASSUME TypeOK, original = disk, ReadLine,
         NEW X, Readable(X), NEW C, Through(X, C, original), Reading(X, C)
  PROVE  Advance /\ Reading(X, C)'
<1> DEFINE line == disk[at]
<1>1. /\ pc = "load" /\ at <= Len(disk) /\ line \in Text
      /\ FlagsType /\ comment \in Comment /\ SectionsType
  BY TheLine
<1>2. /\ isComment(line) => Code(line) = line /\ Code(line) # <<>> /\ ~IsHeader(line) /\ ~IsItem(line)
      /\ IsHeader(line) => ~AnItem(line)
      /\ Code(line) = <<>> => ~AnItem(line)
  BY <1>1, KindsOfLines
<1>3. \/ Blank(line) \/ CommentLine(line) \/ Header(line) \/ NamelessHeader(line)
      \/ BadHeader(line) \/ AddItem(line) \/ DropLine(line)
  BY DEF ReadLine
<1>4. PICK c \in C :
         /\ HasReadTo(X, c) /\ InHand(c)
         /\ \/ AtEnd(X, c, original)
            \/ \E d \in C : Onward(X, c, d, original) /\ at <= d.pos
  BY DEF Reading
<1>5. /\ c \in Places(X) /\ c.pos \in Nat /\ at \in Nat \ {0} /\ Len(disk) \in Nat
      /\ <<>> \notin c.left
  BY <1>4, LenProperties DEF Through, Places, TypeOK, HasReadTo
<1>6. ~AtEnd(X, c, original)
  <2>1. c.pos <= at - 1
    BY <1>4 DEF InHand
  <2>2. QED
    BY <1>1, <1>5, <2>1 DEF AtEnd
<1>7. PICK d \in C : Onward(X, c, d, original) /\ at <= d.pos
  BY <1>4, <1>6
<1>8. d \in Places(X) /\ d.pos \in Nat
  BY DEF Through, Places
<1>9. PICK cm \in Seq(Text), last \in Text :
           /\ CommentStorable(cm)
           /\ Comes(original, c.pos, cm \o <<last>>) /\ d.pos = c.pos + Len(cm) + 1 /\ c.pos < d.pos
           /\ \/ /\ ToSection(X, c, d, original) /\ d.section \in DOMAIN X \ {<<>>}
                 /\ cm = X[d.section].comment /\ last = HeaderLine(d.section)
              \/ /\ ToItem(X, c, d, original) /\ c.section \in DOMAIN X
                 /\ c.at \in 1 .. Len(X[c.section].items)
                 /\ cm = X[c.section].items[c.at].comment
                 /\ last = ItemLine(X[c.section].items[c.at])
  BY <1>5, <1>7, OverLines
<1> DEFINE chunk == cm \o <<last>>
<1>10. /\ Len(cm) \in Nat /\ chunk \in Seq(Text) /\ Len(chunk) = Len(cm) + 1
       /\ chunk[Len(cm) + 1] = last
       /\ \A n \in 1 .. Len(cm) : chunk[n] = cm[n]
  BY LastLine
<1> HIDE DEF line, chunk
<1>11. \A n \in 1 .. Len(chunk) : original[c.pos + n] = chunk[n]
  BY <1>9 DEF Comes, chunk
<1>12. /\ c.pos <= at - 1 /\ Len(comment) = at - 1 - c.pos
       /\ \A n \in 1 .. Len(comment) : comment[n] = original[c.pos + n]
  BY <1>4 DEF InHand
<1>13. line = original[at]
  BY DEF line
<1>14. CASE at < d.pos
  <2> DEFINE n == at - c.pos
  <2>1. n \in 1 .. Len(cm) /\ n \in 1 .. Len(chunk) /\ c.pos + n = at
    <3>1. /\ c.pos \in Nat /\ at \in Nat /\ Len(cm) \in Nat /\ Len(chunk) = Len(cm) + 1
          /\ d.pos = c.pos + Len(cm) + 1 /\ c.pos <= at - 1 /\ at < d.pos
      BY <1>5, <1>9, <1>10, <1>12, <1>14
    <3>2. QED
      BY <3>1
  <2>2. line = cm[n]
    BY <1>10, <1>11, <1>13, <2>1
  <2>3. isComment(line)
    <3>1. DOMAIN cm = 1 .. Len(cm)
      BY LenProperties
    <3>2. QED
      BY <1>9, <2>1, <2>2, <3>1 DEF CommentStorable
  <2>4. CommentLine(line)
    BY <1>2, <1>3, <2>3 DEF Blank, Header, NamelessHeader, BadHeader, AddItem, DropLine
  <2>5. /\ Advance /\ comment' = Append(comment, line)
        /\ UNCHANGED <<sections_, section, original>> /\ at' = at + 1
    BY <2>4 DEF CommentLine, Advance, historyVars
  <2>6. HasReadTo(X, c)'
    BY <1>4, <2>5 DEF HasReadTo
  <2>7. InHand(c)'
    <3>1. /\ comment' \in Seq(Text) /\ Len(comment') = Len(comment) + 1
          /\ \A k \in 1 .. Len(comment) : comment'[k] = comment[k]
          /\ comment'[Len(comment) + 1] = line
      BY <1>1, <2>5, AppendProperties DEF Comment
    <3>2. Len(comment) \in Nat /\ c.pos + (Len(comment) + 1) = at
      <4>1. c.pos \in Nat /\ at \in Nat /\ Len(comment) = at - 1 - c.pos
        BY <1>5, <1>12
      <4>2. Len(comment) \in Nat
        BY <1>1, LenProperties DEF Comment
      <4>3. QED
        BY <4>1, <4>2
    <3>3. ASSUME NEW k \in 1 .. Len(comment') PROVE comment'[k] = original[c.pos + k]
      <4>1. CASE k = Len(comment) + 1
        BY <1>13, <3>1, <3>2, <4>1
      <4>2. CASE k # Len(comment) + 1
        <5>1. k \in 1 .. Len(comment)
          BY <3>1, <3>2, <4>2
        <5>2. QED
          BY <1>12, <3>1, <5>1
      <4>3. QED
        BY <4>1, <4>2
    <3>4. c.pos <= at' - 1 /\ Len(comment') = at' - 1 - c.pos
      BY <1>5, <1>12, <2>5, <3>1
    <3>5. QED
      BY <2>5, <3>3, <3>4 DEF InHand
  <2>8. at' <= d.pos
    BY <1>5, <1>8, <1>14, <2>5
  <2>9. QED
    BY <1>7, <2>5, <2>6, <2>7, <2>8 DEF Reading
<1>15. CASE at = d.pos
  <2>1. Len(comment) = Len(cm)
    BY <1>5, <1>9, <1>10, <1>12, <1>15
  <2>2. comment = cm
    <3>1. \A n \in 1 .. Len(cm) : comment[n] = cm[n]
      <4>1. \A n \in 1 .. Len(cm) : n \in 1 .. Len(chunk)
        BY <1>10
      <4>2. QED
        BY <1>10, <1>11, <1>12, <2>1, <4>1
    <3>2. comment \in Seq(Text)
      BY <1>1 DEF Comment
    <3>3. QED
      BY <2>1, <3>1, <3>2, SeqEqual
  <2>3. line = last
    <3>1. Len(cm) + 1 \in 1 .. Len(chunk) /\ c.pos + (Len(cm) + 1) = at
      BY <1>5, <1>9, <1>10, <1>15
    <3>2. QED
      BY <1>10, <1>11, <1>13, <3>1
  <2>4. Advance /\ comment' = <<>> /\ HasReadTo(X, d)'
    <3>1. CASE /\ ToSection(X, c, d, original) /\ d.section \in DOMAIN X \ {<<>>}
               /\ cm = X[d.section].comment /\ last = HeaderLine(d.section)
      BY <1>1, <1>3, <1>4, <1>5, <1>8, <2>2, <2>3, <3>1, ReadsHeader
    <3>2. CASE /\ ToItem(X, c, d, original) /\ c.section \in DOMAIN X
               /\ c.at \in 1 .. Len(X[c.section].items)
               /\ cm = X[c.section].items[c.at].comment
               /\ last = ItemLine(X[c.section].items[c.at])
      BY <1>1, <1>3, <1>4, <1>5, <1>8, <2>2, <2>3, <3>2, ReadsItem
    <3>3. QED
      BY <1>9, <3>1, <3>2
  <2>5. original' = original /\ at' = d.pos + 1
    BY <1>15, <2>4 DEF Advance, historyVars
  <2>6. Reading(X, C)'
    BY <2>4, <2>5, ReachedPlace
  <2>7. QED
    BY <2>4, <2>6
<1>16. at < d.pos \/ at = d.pos
  BY <1>5, <1>7, <1>8
<1>17. QED
  BY <1>14, <1>15, <1>16

LEMMA LoadStarts ==
  ASSUME Load, pc' = "load",
         NEW X, Readable(X), NEW C, Through(X, C, disk)
  PROVE  Reading(X, C)'
<1>1. /\ sections_' = [s \in {<<>>} |-> NewSection(<<>>)] /\ section' = <<>>
      /\ at' = 1 /\ comment' = <<>> /\ original' = disk
  BY DEF Load, Call
<1>2. /\ DOMAIN sections_' = {<<>>} /\ sections_'[<<>>] = NewSection(<<>>)
      /\ sections_' = [s \in DOMAIN sections_' |-> sections_'[s]]
  BY <1>1
<1> DEFINE c == Beginning(X)
<1>3. /\ c \in C /\ c.left = DOMAIN X /\ c.section = None /\ c.at = 1 /\ c.pos = 0
  BY DEF Through, Beginning
<1> HIDE DEF c
<1>4. CASE <<>> \notin DOMAIN X
  <2>1. HasReadTo(X, c)'
    BY <1>1, <1>2, <1>3, <1>4 DEF HasReadTo
  <2>2. at' = c.pos + 1
    BY <1>1, <1>3
  <2>3. QED
    BY <1>1, <1>3, <2>1, <2>2, ReachedPlace
<1>5. CASE <<>> \in DOMAIN X
  <2>1. ~AtEnd(X, c, disk) /\ Done(X, c)
    BY <1>3, <1>5 DEF AtEnd, Done
  <2>2. PICK d \in C : Onward(X, c, d, disk)
    BY <1>3, <2>1 DEF Through
  <2>3. ToSection(X, c, d, disk)
    BY <2>1, <2>2 DEF Onward, ToItem
  <2>4. /\ d.section = <<>> /\ d.left = DOMAIN X \ {<<>>} /\ d.at = 1
        /\ d.pos = 0 + Len(ChunkOf(X, d))
    BY <1>3, <1>5, <2>3 DEF ToSection
  <2>5. X[<<>>].comment = <<>> /\ X[<<>>] \in SectionType
    BY <1>5 DEF Readable, Storable
  <2>6. d.pos = 0
    <3>1. ChunkOf(X, d) = <<>> \o <<>>
      BY <2>4, <2>5 DEF ChunkOf, HeaderOf
    <3>2. Len(<<>> \o <<>>) = 0
      OBVIOUS
    <3>3. QED
      BY <2>4, <3>1, <3>2
  <2>7. SubSeq(X[<<>>].items, 1, d.at - 1) = <<>> /\ d.at <= Len(X[<<>>].items) + 1
    <3>1. Len(X[<<>>].items) \in Nat
      BY <2>5, LenProperties DEF SectionType
    <3>2. QED
      BY <2>4, <3>1, SubSeqEmpty
  <2>8. <<>> # None
    BY IniAssumption, EmptyTexts DEF IniAssumption
  <2>9. sections_'[<<>>] = [comment |-> X[<<>>].comment, items |-> SubSeq(X[<<>>].items, 1, d.at - 1)]
    BY <1>2, <2>5, <2>7 DEF NewSection
  <2>10. HasReadTo(X, d)'
    BY <1>1, <1>2, <1>5, <2>4, <2>7, <2>8, <2>9 DEF HasReadTo
  <2>11. at' = d.pos + 1
    BY <1>1, <2>6
  <2>12. QED
    BY <1>1, <2>10, <2>11, ReachedPlace
<1>6. QED
  BY <1>4, <1>5

(* The object holds the sections X, and a default one. *)
Same(X) ==
  sections_ = [s \in DOMAIN X \cup {<<>>} |-> IF s \in DOMAIN X THEN X[s] ELSE NewSection(<<>>)]

LEMMA LoadDone ==
  ASSUME TypeOK, original = disk, at > Len(disk),
         NEW X, Readable(X), NEW C, Through(X, C, original), Reading(X, C)
  PROVE  Same(X)
<1>1. PICK c \in C :
         /\ HasReadTo(X, c) /\ InHand(c)
         /\ \/ AtEnd(X, c, original)
            \/ \E d \in C : Onward(X, c, d, original) /\ at <= d.pos
  BY DEF Reading
<1>2. /\ c \in Places(X) /\ c.pos \in Nat /\ at \in Nat \ {0} /\ Len(disk) \in Nat
      /\ <<>> \notin c.left /\ c.at \in Nat \ {0}
  BY <1>1, LenProperties DEF Through, Places, TypeOK, HasReadTo
<1>3. AtEnd(X, c, original)
  <2>1. SUFFICES ASSUME NEW d \in C, Onward(X, c, d, original), at <= d.pos PROVE FALSE
    BY <1>1
  <2>2. d.pos <= Len(original)
    BY <2>1 DEF Onward, ToSection, ToItem, Comes
  <2>3. d.pos \in Nat
    BY DEF Through, Places
  <2>4. QED
    BY <1>2, <2>1, <2>2, <2>3
<1>4. c.left = {} /\ Done(X, c)
  BY <1>3 DEF AtEnd
<1>5. /\ DOMAIN sections_ = DOMAIN X \cup {<<>>}
      /\ sections_ = [s \in DOMAIN sections_ |-> sections_[s]]
      /\ <<>> \notin DOMAIN X => sections_[<<>>] = NewSection(<<>>)
      /\ \A s \in DOMAIN X : s # c.section => sections_[s] = X[s]
  BY <1>1, <1>4 DEF HasReadTo
<1>6. ASSUME NEW s \in DOMAIN X, s = c.section PROVE sections_[s] = X[s]
  <2>1. X[s] \in SectionType /\ s # None
    BY IniAssumption DEF Readable, IniAssumption
  <2>2. X[s].items \in Seq(ItemType) /\ Len(X[s].items) \in Nat
    BY <2>1, LenProperties DEF SectionType
  <2>3. c.at > Len(X[s].items) /\ c.at <= Len(X[s].items) + 1
    BY <1>1, <1>4, <1>6, <2>1 DEF Done, HasReadTo
  <2>4. c.at - 1 = Len(X[s].items)
    BY <1>2, <2>2, <2>3
  <2>5. SubSeq(X[s].items, 1, c.at - 1) = X[s].items
    BY <2>2, <2>4, SubSeqFull
  <2>6. sections_[s] = [comment |-> X[s].comment, items |-> SubSeq(X[s].items, 1, c.at - 1)]
    BY <1>1, <1>6, <2>1 DEF HasReadTo
  <2>7. X[s] = [comment |-> X[s].comment, items |-> X[s].items]
    BY <2>1 DEF SectionType
  <2>8. QED
    BY <2>5, <2>6, <2>7
<1>7. \A s \in DOMAIN X \cup {<<>>} :
        sections_[s] = IF s \in DOMAIN X THEN X[s] ELSE NewSection(<<>>)
  BY <1>5, <1>6
<1>8. QED
  BY <1>5, <1>7 DEF Same

(* What the lines mean, an unedited object holds. *)
Rereads ==
  \A X, C : edited = "no" /\ Readable(X) /\ Through(X, C, original) =>
    /\ pc = "load" => Reading(X, C)
    /\ pc \in {"ready", "save", "write"} => sections_ = NoSections \/ (ret = 0 /\ Same(X))

LEMMA LoadRereads ==
  ASSUME TypeOK, Loading, Rereads, Load \/ ReadLine \/ LoadEnds
  PROVE  Rereads'
<1>1. flags_' = flags_
  <2>1. (Advance => flags_' = flags_) /\ (Stop => flags_' = flags_)
    BY DEF Advance, Stop, objectVars
  <2>2. ReadLine => flags_' = flags_
    BY <2>1 DEF ReadLine, Blank, CommentLine, Header, NamelessHeader, BadHeader, AddItem, DropLine
  <2>3. QED
    BY <2>1, <2>2 DEF Load, LoadEnds
<1>2. SUFFICES ASSUME NEW X, NEW C, edited' = "no", Readable(X), Through(X, C, original')
      PROVE  /\ pc' = "load" => Reading(X, C)'
             /\ pc' \in {"ready", "save", "write"} =>
                  sections_' = NoSections \/ (ret' = 0 /\ Same(X)')
  BY <1>1, ReadableUnchanged DEF Rereads
<1>3. CASE Load
  <2>1. original' = disk /\ (pc' = "load" \/ (sections_' = NoSections /\ pc' = "ready"))
    BY <1>3 DEF Load, Call
  <2>2. QED
    BY <1>2, <1>3, <2>1, LoadStarts
<1>4. CASE ReadLine
  <2>1. pc = "load" /\ original = disk /\ edited = "no"
    BY <1>4 DEF ReadLine, Loading
  <2>2. original' = original
    <3>1. (Advance => original' = original) /\ (Stop => original' = original)
      BY DEF Advance, Stop, historyVars
    <3>2. QED
      BY <1>4, <3>1 DEF ReadLine, Blank, CommentLine, Header, NamelessHeader, BadHeader, AddItem, DropLine
  <2>3. Reading(X, C)
    BY <1>2, <2>1, <2>2 DEF Rereads
  <2>4. Advance /\ Reading(X, C)'
    BY <1>2, <1>4, <2>1, <2>2, <2>3, ReadsOn
  <2>5. pc' = "load"
    BY <2>1, <2>4 DEF Advance
  <2>6. QED
    BY <2>4, <2>5
<1>5. CASE LoadEnds
  <2>1. /\ pc = "load" /\ at > Len(disk) /\ ret' = 0 /\ pc' = "ready"
        /\ UNCHANGED <<original, sections_>>
    BY <1>5 DEF LoadEnds, Stop, objectVars, historyVars
  <2>2. original = disk /\ edited = "no"
    BY <2>1 DEF Loading
  <2>3. Reading(X, C)
    BY <1>2, <2>1, <2>2 DEF Rereads
  <2>4. Same(X)
    BY <1>2, <2>1, <2>2, <2>3, LoadDone
  <2>5. QED
    BY <2>1, <2>4 DEF Same
<1>6. QED
  BY <1>3, <1>4, <1>5

LEMMA OthersReread ==
  ASSUME Rereads, Save \/ Killed \/ Restart \/ Setters \/ UNCHANGED vars
  PROVE  Rereads'
<1>1. CASE Save \/ Killed \/ UNCHANGED vars
  <2>1. UNCHANGED <<sections_, flags_, edited, original, ret>>
    BY <1>1 DEF Save, SaveBegins, SaveUnnamed, RenderSection, RenderItem, OpenForWriting, Write, Killed,
                vars, objectVars, historyVars
  <2>2. \/ pc \in {"ready", "save", "write"} /\ pc' # "load"
        \/ pc' = pc /\ UNCHANGED <<section, comment, at>>
    BY <1>1 DEF Save, SaveBegins, SaveUnnamed, RenderSection, RenderItem, OpenForWriting, Write, Killed,
                Call, vars, loopVars
  <2>3. SUFFICES ASSUME NEW X, NEW C, edited = "no", Readable(X), Through(X, C, original)
        PROVE  /\ pc' = "load" => Reading(X, C)'
               /\ pc' \in {"ready", "save", "write"} =>
                    sections_' = NoSections \/ (ret' = 0 /\ Same(X)')
    BY <2>1, ReadableUnchanged DEF Rereads
  <2>4. /\ pc = "load" => Reading(X, C)
        /\ pc \in {"ready", "save", "write"} => sections_ = NoSections \/ (ret = 0 /\ Same(X))
    BY <2>3 DEF Rereads
  <2>5. Same(X)' <=> Same(X)
    BY <2>1 DEF Same
  <2>6. CASE pc \in {"ready", "save", "write"} /\ pc' # "load"
    BY <2>1, <2>4, <2>5, <2>6
  <2>7. CASE pc' = pc /\ UNCHANGED <<section, comment, at>>
    <3>1. Reading(X, C)' <=> Reading(X, C)
      BY <2>1, <2>7 DEF Reading, HasReadTo, InHand
    <3>2. QED
      BY <2>1, <2>4, <2>5, <2>7, <3>1
  <2>8. QED
    BY <2>2, <2>6, <2>7
<1>2. CASE Restart
  BY <1>2 DEF Restart, Rereads
<1>3. CASE Setters
  <2>1. \A clean : Spoils(clean) # "no"
    BY DEF Spoils
  <2>2. (\A s, k, v, c : setValue(s, k, v, c) => edited' # "no")
        /\ (\A s, c : setSectionComment(s, c) => edited' # "no")
    BY <2>1 DEF setValue, setSectionComment
  <2>3. (\A s, k : deleteKey(s, k) => edited' # "no")
        /\ (\A s : (deleteSection(s) => edited' # "no") /\ (setCommentFlags(s) => edited' # "no"))
    BY <2>1 DEF deleteKey, deleteSection, setCommentFlags
  <2>4. edited' # "no"
    BY <1>3, <2>2, <2>3, Zenon DEF Setters
  <2>5. QED
    BY <2>4 DEF Rereads
<1>4. QED
  BY <1>1, <1>2, <1>3

LEMMA BackAgain ==
  ASSUME TypeOK, Idle, Written, Rereads
  PROVE  ReadsBack
<1>1. SUFFICES ASSUME saved # None, edited = "no", original = disk, flags_ = saved.flags
      PROVE  /\ pc = "load" => section # None
             /\ pc = "ready" /\ sections_ # NoSections =>
                  ret = 0 /\ sections_ = [s \in DOMAIN saved.sections \cup {<<>>} |-> Saved(s)]
  BY DEF ReadsBack
<1> DEFINE X == saved.sections
<1>2. /\ DOMAIN X \subseteq Text /\ \A s \in DOMAIN X : X[s] \in SectionType
      /\ \A s \in DOMAIN X : StorableWith(flags_, s, X[s])
  BY <1>1 DEF Written
<1>3. PICK C : Through(X, C, original)
  BY <1>1 DEF Written
<1>4. Readable(X)
  <2> HIDE DEF X
  <2>1. QED
    BY <1>2, StorableWithFlags DEF Readable
<1>5. /\ pc = "load" => Reading(X, C)
      /\ pc = "ready" => sections_ = NoSections \/ (ret = 0 /\ Same(X))
  BY <1>1, <1>3, <1>4 DEF Rereads
<1>6. ASSUME pc = "load" PROVE section # None
  <2>1. PICK c \in C : HasReadTo(X, c)
    BY <1>5, <1>6 DEF Reading
  <2>2. section = IF c.section = None THEN <<>> ELSE c.section
    BY <2>1 DEF HasReadTo
  <2>3. <<>> # None
    BY IniAssumption, EmptyTexts DEF IniAssumption
  <2>4. QED
    BY <2>2, <2>3
<1>7. Same(X) => sections_ = [s \in DOMAIN saved.sections \cup {<<>>} |-> Saved(s)]
  BY DEF Same, Saved
<1>8. QED
  BY <1>5, <1>6, <1>7

(* For any sections that load or the setters make, unspoilt: a file that    *)
(* saveas has written is loaded again, with the same flags, to the end, and *)
(* gives back every section, item and comment as it was.                    *)
THEOREM SavedIsReadBack == Spec => []ReadsBack
<1>1. Init => Writing /\ Written /\ Rereads
  BY DEF Init, Writing, Written, Rereads
<1>2. TypeOK /\ Idle /\ Sound /\ Keeping /\ Writing /\ Written /\ Rereads /\ [Next]_vars
        => Writing' /\ Written' /\ Rereads'
  <2> SUFFICES ASSUME TypeOK, Idle, Sound, Keeping, Writing, Written, Rereads, [Next]_vars
               PROVE  Writing' /\ Written' /\ Rereads'
    OBVIOUS
  <2>1. Writing' /\ Written'
    BY SaveWrites, OthersWrite DEF Next
  <2>2. Rereads'
    BY LoadRereads, OthersReread DEF Next, Keeping
  <2>3. QED
    BY <2>1, <2>2
<1>3. Spec => [](TypeOK /\ Idle)
  BY TypesInit, TypesNext, PTL DEF Spec
<1>4. Spec => [](Writing /\ Written /\ Rereads)
  BY <1>1, <1>2, <1>3, Soundness, KeepingHolds, PTL DEF Spec
<1>5. TypeOK /\ Idle /\ Written /\ Rereads => ReadsBack
  BY BackAgain
<1>6. QED
  BY <1>3, <1>4, <1>5, PTL
=============================================================================
