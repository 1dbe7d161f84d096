-------------------------- MODULE ConfigFile_proofs --------------------------
(***************************************************************************)
(* Proofs about ConfigFile and SettingsForm.                               *)
(***************************************************************************)
EXTENDS SettingsForm, SequenceTheorems, TLAPS

-----------------------------------------------------------------------------
(* Option<T>                                                               *)

(* There is nothing or one thing in it.                                    *)
LEMMA OptOf ==
    ASSUME NEW S, NEW o
    PROVE  o \in Opt(S) <=> o = None \/ \E x \in S : o = Some(x)
<1>1. ASSUME o \in Opt(S), o # None PROVE \E x \in S : o = Some(x)
  <2>1. o \in Seq(S) /\ Len(o) = 1 /\ o[1] \in S
    BY <1>1 DEF Opt, None
  <2>2. o = Some(o[1])
    BY <2>1 DEF Some
  <2>3. QED BY <2>1, <2>2
<1>2. ASSUME NEW x \in S PROVE Some(x) \in Opt(S)
  BY DEF Opt, Some
<1>3. None \in Opt(S)
  BY DEF Opt, None
<1>4. QED BY <1>1, <1>2, <1>3

(* What is in it.                                                          *)
LEMMA SomeIs == \A x : Some(x)[1] = x /\ Some(x) # None
BY DEF Some, None

-----------------------------------------------------------------------------
(* Documents, line by line                                                 *)

Value == ({"number"} \X Int) \cup ({"flag"} \X BOOLEAN) \cup ({"text"} \X Texts)
AnyLine == [indent : {0, 2}, key : Key, val : Opt(Value), whole : BOOLEAN]

(* The block a line stands under, in a document where each one does.       *)
IsParent(doc, i, j) ==
    /\ j \in 1 .. (i - 1) /\ doc[j].indent = 0
    /\ \A k \in (j + 1) .. (i - 1) : doc[k].indent # 0
Rooted(doc) ==
    \A i \in DOMAIN doc : doc[i].indent = 2 => \E j \in 1 .. (i - 1) : IsParent(doc, i, j)

(* A line at the top, and one under a block.                               *)
Entry(key, val) == <<key, val>>
Sub(block, key, val) == <<block, key, val>>

(* The lines, and the block the next nested one goes into.                 *)
Tops(doc) == {Entry(doc[i].key, doc[i].val) : i \in {h \in DOMAIN doc : doc[h].indent = 0}}
Kids(doc) ==
    {Sub(doc[Parent(doc, i)].key, doc[i].key, doc[i].val) :
        i \in {h \in DOMAIN doc : doc[h].indent = 2}}
Plus(S, x) == S \cup {x}
Under(doc, block) ==
    \E j \in DOMAIN doc :
        /\ doc[j].indent = 0 /\ doc[j].key = block /\ doc[j].val = None
        /\ \A k \in (j + 1) .. Len(doc) : doc[k].indent # 0

(* What is told apart by what is in it.                                    *)
LEMMA Entries ==
    /\ \A a, b, c, e : Entry(a, b) = Entry(c, e) <=> a = c /\ b = e
    /\ \A a, b, x, c, e, y : Sub(a, b, x) = Sub(c, e, y) <=> a = c /\ b = e /\ x = y
BY DEF Entry, Sub

(* A line has one parent.                                                  *)
LEMMA ParentIs ==
    ASSUME NEW doc, NEW i \in Int, NEW j, IsParent(doc, i, j)
    PROVE  Parent(doc, i) = j /\ HasParent(doc, i) /\ j \in Int
<1>. DEFINE P(x) == doc[x].indent = 0 /\ \A k \in (x + 1) .. (i - 1) : doc[k].indent # 0
<1>1. j \in 1 .. (i - 1) /\ P(j)
  BY DEF IsParent
<1>2. \A x \in 1 .. (i - 1) : P(x) => x = j
  <2>1. TAKE x \in 1 .. (i - 1)
  <2>2. CASE x < j
    BY <1>1, <2>2
  <2>3. CASE j < x
    BY <1>1, <2>3
  <2>4. QED BY <1>1, <2>2, <2>3
<1>3. (CHOOSE x \in 1 .. (i - 1) : P(x)) = j
  <2>. HIDE DEF P
  <2>1. QED BY <1>1, <1>2
<1>4. QED BY <1>1, <1>3 DEF Parent, HasParent

(* A line joins: what was there stays where it was.                        *)
LEMMA Joined ==
    ASSUME NEW doc \in Seq(AnyLine), NEW line \in AnyLine, Rooted(doc)
    PROVE  LET d == doc \o <<line>> IN
           /\ d \in Seq(AnyLine) /\ Len(doc) \in Nat /\ Len(d) = Len(doc) + 1
           /\ DOMAIN d = 1 .. Len(doc) + 1 /\ DOMAIN doc = 1 .. Len(doc)
           /\ d[Len(doc) + 1] = line /\ \A i \in 1 .. Len(doc) : d[i] = doc[i]
           /\ \A i \in 1 .. Len(doc) : \A j : IsParent(doc, i, j) => IsParent(d, i, j)
           /\ \A i \in 1 .. Len(doc) : doc[i].indent = 2 =>
                 /\ Parent(d, i) = Parent(doc, i) /\ HasParent(doc, i) /\ HasParent(d, i)
                 /\ Parent(doc, i) \in 1 .. (i - 1) /\ doc[Parent(doc, i)].indent = 0
<1>. DEFINE d == doc \o <<line>>
            n == Len(doc)
<1>1. /\ d \in Seq(AnyLine) /\ n \in Nat /\ Len(d) = n + 1 /\ DOMAIN d = 1 .. n + 1
      /\ DOMAIN doc = 1 .. n /\ d[n + 1] = line /\ \A i \in 1 .. n : d[i] = doc[i]
  OBVIOUS
<1>. HIDE DEF d
<1>2. ASSUME NEW i \in 1 .. n, NEW j, IsParent(doc, i, j) PROVE IsParent(d, i, j)
  <2>1. \A k \in 1 .. (i - 1) : d[k] = doc[k]
    BY <1>1
  <2>2. j \in 1 .. (i - 1) /\ \A k \in (j + 1) .. (i - 1) : k \in 1 .. (i - 1)
    BY <1>1, <1>2 DEF IsParent
  <2>3. QED BY <1>2, <2>1, <2>2 DEF IsParent
<1>3. ASSUME NEW i \in 1 .. n, doc[i].indent = 2
      PROVE  /\ Parent(d, i) = Parent(doc, i) /\ HasParent(doc, i) /\ HasParent(d, i)
             /\ Parent(doc, i) \in 1 .. (i - 1) /\ doc[Parent(doc, i)].indent = 0
  <2>1. PICK j \in 1 .. (i - 1) : IsParent(doc, i, j)
    BY <1>1, <1>3 DEF Rooted
  <2>2. IsParent(d, i, j) /\ i \in Int
    BY <1>1, <1>2, <2>1
  <2>3. Parent(doc, i) = j /\ HasParent(doc, i)
    BY <2>1, <2>2, ParentIs
  <2>4. Parent(d, i) = j /\ HasParent(d, i)
    BY <1>1, <2>2, ParentIs
  <2>5. QED BY <2>1, <2>3, <2>4 DEF IsParent
<1>4. QED BY <1>1, <1>2, <1>3 DEF d

(* So they read as they did, and repeat each other as they did.            *)
LEMMA JoinedReads ==
    ASSUME NEW doc \in Seq(AnyLine), NEW line \in AnyLine, Rooted(doc)
    PROVE  LET d == doc \o <<line>> IN
           /\ \A i \in 1 .. Len(doc) : LineReads(d, i) <=> LineReads(doc, i)
           /\ \A i, j \in 1 .. Len(doc) : Duplicate(d, i, j) <=> Duplicate(doc, i, j)
           /\ Parses(d) <=> /\ Parses(doc) /\ LineReads(d, Len(doc) + 1)
                            /\ \A i \in 1 .. Len(doc) : ~Duplicate(d, i, Len(doc) + 1)
<1>. DEFINE d == doc \o <<line>>
            n == Len(doc)
<1>1. /\ n \in Nat /\ DOMAIN d = 1 .. n + 1 /\ DOMAIN doc = 1 .. n
      /\ \A i \in 1 .. n : d[i] = doc[i]
      /\ \A i \in 1 .. n : doc[i].indent = 2 =>
            /\ Parent(d, i) = Parent(doc, i) /\ HasParent(doc, i) /\ HasParent(d, i)
            /\ Parent(doc, i) \in 1 .. (i - 1)
  BY Joined
<1>. HIDE DEF d
<1>2. ASSUME NEW i \in 1 .. n PROVE LineReads(d, i) <=> LineReads(doc, i)
  <2>1. doc[i].indent = 2 => d[Parent(d, i)] = doc[Parent(doc, i)]
    BY <1>1
  <2>2. QED BY <1>1, <2>1 DEF LineReads
<1>3. ASSUME NEW i \in 1 .. n, NEW j \in 1 .. n PROVE Duplicate(d, i, j) <=> Duplicate(doc, i, j)
  BY <1>1 DEF Duplicate
<1>4. ASSUME NEW i \in 1 .. n + 1 PROVE ~Duplicate(d, n + 1, i)
  BY <1>1 DEF Duplicate
<1>5. Parses(d) <=> /\ Parses(doc) /\ LineReads(d, n + 1)
                    /\ \A i \in 1 .. n : ~Duplicate(d, i, n + 1)
  <2>1. 1 .. n + 1 = 1 .. n \cup {n + 1}
    BY <1>1
  <2>2. Parses(d) <=> /\ LineReads(d, n + 1) /\ \A i \in 1 .. n : LineReads(d, i)
                      /\ \A i, j \in 1 .. n : ~Duplicate(d, i, j)
                      /\ \A i \in 1 .. n : ~Duplicate(d, i, n + 1)
    <3>1. Parses(d) <=> /\ \A i \in 1 .. n + 1 : LineReads(d, i)
                        /\ \A i, j \in 1 .. n + 1 : ~Duplicate(d, i, j)
      BY <1>1 DEF Parses
    <3>2. QED BY <1>4, <2>1, <3>1
  <2>3. QED BY <1>1, <1>2, <1>3, <2>2 DEF Parses
<1>6. QED BY <1>2, <1>3, <1>5 DEF d

(* The lines under a block come after it.                                  *)
LEMMA KidsOfTops ==
    ASSUME NEW doc \in Seq(AnyLine), Rooted(doc), NEW i \in DOMAIN doc, doc[i].indent = 2
    PROVE  /\ Parent(doc, i) \in DOMAIN doc /\ doc[Parent(doc, i)].indent = 0
           /\ Entry(doc[Parent(doc, i)].key, doc[Parent(doc, i)].val) \in Tops(doc)
<1>1. DOMAIN doc = 1 .. Len(doc) /\ Len(doc) \in Nat
  OBVIOUS
<1>2. PICK j \in 1 .. (i - 1) : IsParent(doc, i, j)
  BY DEF Rooted
<1>3. Parent(doc, i) = j
  BY <1>1, <1>2, ParentIs
<1>4. j \in DOMAIN doc /\ doc[j].indent = 0
  BY <1>1, <1>2 DEF IsParent
<1>5. QED BY <1>3, <1>4 DEF Tops

(* A line at the top, under a key that is not there yet.                   *)
LEMMA AddTop ==
    ASSUME NEW doc \in Seq(AnyLine), Rooted(doc), NEW key \in Key, NEW val \in Opt(Value),
           NEW whole \in BOOLEAN, \A v : Entry(key, v) \notin Tops(doc)
    PROVE  LET d == doc \o Line(0, key, val, whole) IN
           /\ d \in Seq(AnyLine) /\ Rooted(d)
           /\ Tops(d) = Plus(Tops(doc), Entry(key, val)) /\ Kids(d) = Kids(doc)
           /\ Parses(d) => Parses(doc) /\ whole
           /\ Parses(doc) /\ whole => Parses(d)
           /\ val = None => Under(d, key)
           /\ \A k, v : Sub(key, k, v) \notin Kids(d)
<1>. DEFINE line == [indent |-> 0, key |-> key, val |-> val, whole |-> whole]
            d == doc \o <<line>>
            n == Len(doc)
<1>1. line \in AnyLine
  BY DEF AnyLine
<1>2. line.indent = 0 /\ line.key = key /\ line.val = val /\ line.whole = whole
  OBVIOUS
<1>3. d = doc \o Line(0, key, val, whole)
  BY DEF Line
<1>. HIDE DEF line
<1>4. /\ d \in Seq(AnyLine) /\ n \in Nat /\ Len(d) = n + 1
      /\ DOMAIN d = 1 .. n + 1 /\ DOMAIN doc = 1 .. n
      /\ d[n + 1] = line /\ \A i \in 1 .. n : d[i] = doc[i]
      /\ \A i \in 1 .. n : \A j : IsParent(doc, i, j) => IsParent(d, i, j)
      /\ \A i \in 1 .. n : doc[i].indent = 2 =>
            Parent(d, i) = Parent(doc, i) /\ Parent(doc, i) \in 1 .. (i - 1)
  BY <1>1, Joined
<1>5. Parses(d) <=> /\ Parses(doc) /\ LineReads(d, n + 1)
                    /\ \A i \in 1 .. n : ~Duplicate(d, i, n + 1)
  BY <1>1, JoinedReads
<1>. HIDE DEF d
<1>6. 1 .. n + 1 = 1 .. n \cup {n + 1}
  BY <1>4
<1>7. Rooted(d)
  BY <1>2, <1>4, <1>6 DEF Rooted
<1>8. Tops(d) = Plus(Tops(doc), Entry(key, val))
  BY <1>2, <1>4, <1>6 DEF Tops, Plus
<1>9. Kids(d) = Kids(doc)
  <2>1. {h \in DOMAIN d : d[h].indent = 2} = {h \in DOMAIN doc : doc[h].indent = 2}
    BY <1>2, <1>4, <1>6
  <2>2. \A i \in {h \in DOMAIN doc : doc[h].indent = 2} :
           /\ d[i] = doc[i] /\ Parent(d, i) = Parent(doc, i)
           /\ d[Parent(d, i)] = doc[Parent(doc, i)]
    BY <1>4
  <2>3. QED BY <2>1, <2>2 DEF Kids
<1>10. (Parses(d) => Parses(doc) /\ whole) /\ (Parses(doc) /\ whole => Parses(d))
  <2>1. LineReads(d, n + 1) <=> whole
    BY <1>2, <1>4 DEF LineReads
  <2>2. ASSUME NEW i \in 1 .. n, Duplicate(d, i, n + 1) PROVE FALSE
    <3>1. doc[i].key = key /\ doc[i].indent = 0
      BY <1>2, <1>4, <2>2 DEF Duplicate
    <3>2. Entry(key, doc[i].val) \in Tops(doc)
      BY <1>4, <3>1 DEF Tops
    <3>3. QED BY <3>2
  <2>3. QED BY <1>5, <2>1, <2>2
<1>11. val = None => Under(d, key)
  <2>1. (n + 1) + 1 .. Len(d) = {}
    BY <1>4
  <2>2. QED BY <1>2, <1>4, <1>6, <2>1 DEF Under
<1>12. ASSUME NEW k, NEW v, Sub(key, k, v) \in Kids(d) PROVE FALSE
  <2>1. \E i \in {h \in DOMAIN doc : doc[h].indent = 2} :
            Sub(key, k, v) = Sub(doc[Parent(doc, i)].key, doc[i].key, doc[i].val)
    BY <1>9, <1>12, Zenon DEF Kids
  <2>2. PICK i \in DOMAIN doc : doc[i].indent = 2 /\ doc[Parent(doc, i)].key = key
    BY <2>1, Entries
  <2>3. QED BY <2>2, KidsOfTops
<1>13. QED BY <1>3, <1>4, <1>7, <1>8, <1>9, <1>10, <1>11, <1>12

(* A line under the block at the end, with a key that is not there yet.    *)
LEMMA AddNested ==
    ASSUME NEW doc \in Seq(AnyLine), Rooted(doc), NEW block, Under(doc, block),
           NEW key \in Key, NEW x \in Value, NEW whole \in BOOLEAN,
           \A v : Sub(block, key, v) \notin Kids(doc)
    PROVE  LET d == doc \o Line(2, key, Some(x), whole) IN
           /\ d \in Seq(AnyLine) /\ Rooted(d)
           /\ Tops(d) = Tops(doc) /\ Kids(d) = Plus(Kids(doc), Sub(block, key, Some(x)))
           /\ Parses(d) => Parses(doc) /\ whole
           /\ Parses(doc) /\ whole => Parses(d)
           /\ Under(d, block)
<1>. DEFINE line == [indent |-> 2, key |-> key, val |-> Some(x), whole |-> whole]
            d == doc \o <<line>>
            n == Len(doc)
<1>1. line \in AnyLine
  BY OptOf DEF AnyLine
<1>2. line.indent = 2 /\ line.key = key /\ line.val = Some(x) /\ line.whole = whole
  OBVIOUS
<1>3. d = doc \o Line(2, key, Some(x), whole)
  BY DEF Line
<1>. HIDE DEF line
<1>4. /\ d \in Seq(AnyLine) /\ n \in Nat /\ Len(d) = n + 1
      /\ DOMAIN d = 1 .. n + 1 /\ DOMAIN doc = 1 .. n
      /\ d[n + 1] = line /\ \A i \in 1 .. n : d[i] = doc[i]
      /\ \A i \in 1 .. n : \A j : IsParent(doc, i, j) => IsParent(d, i, j)
      /\ \A i \in 1 .. n : doc[i].indent = 2 =>
            Parent(d, i) = Parent(doc, i) /\ Parent(doc, i) \in 1 .. (i - 1)
  BY <1>1, Joined
<1>5. Parses(d) <=> /\ Parses(doc) /\ LineReads(d, n + 1)
                    /\ \A i \in 1 .. n : ~Duplicate(d, i, n + 1)
  BY <1>1, JoinedReads
<1>. HIDE DEF d
<1>6. 1 .. n + 1 = 1 .. n \cup {n + 1}
  BY <1>4
<1>7. PICK j \in 1 .. n : /\ doc[j].indent = 0 /\ doc[j].key = block /\ doc[j].val = None
                         /\ \A k \in (j + 1) .. n : doc[k].indent # 0
  BY <1>4 DEF Under
<1>8. IsParent(d, n + 1, j)
  <2>1. (n + 1) - 1 = n
    BY <1>4
  <2>2. \A k \in (j + 1) .. n : d[k] = doc[k]
    BY <1>4
  <2>3. QED BY <1>4, <1>7, <2>1, <2>2 DEF IsParent
<1>9. Parent(d, n + 1) = j /\ HasParent(d, n + 1)
  BY <1>4, <1>8, ParentIs
<1>10. Rooted(d)
  <2>1. ASSUME NEW i \in 1 .. n, d[i].indent = 2 PROVE \E h \in 1 .. (i - 1) : IsParent(d, i, h)
    BY <1>4, <2>1 DEF Rooted
  <2>2. j \in 1 .. ((n + 1) - 1)
    BY <1>4
  <2>3. QED BY <1>4, <1>6, <1>8, <2>1, <2>2 DEF Rooted
<1>11. Tops(d) = Tops(doc)
  <2>1. {h \in DOMAIN d : d[h].indent = 0} = {h \in DOMAIN doc : doc[h].indent = 0}
    BY <1>2, <1>4, <1>6
  <2>2. QED BY <1>4, <2>1 DEF Tops
<1>12. Kids(d) = Plus(Kids(doc), Sub(block, key, Some(x)))
  <2>1. {h \in DOMAIN d : d[h].indent = 2} = {h \in DOMAIN doc : doc[h].indent = 2} \cup {n + 1}
    BY <1>2, <1>4, <1>6
  <2>2. \A i \in {h \in DOMAIN doc : doc[h].indent = 2} :
           /\ d[i] = doc[i] /\ Parent(d, i) = Parent(doc, i)
           /\ d[Parent(d, i)] = doc[Parent(doc, i)]
    BY <1>4
  <2>3. d[Parent(d, n + 1)].key = block
    BY <1>4, <1>7, <1>9
  <2>. DEFINE old == {h \in DOMAIN doc : doc[h].indent = 2}
              At(i) == Sub(d[Parent(d, i)].key, d[i].key, d[i].val)
  <2>4. Kids(d) = {At(i) : i \in old \cup {n + 1}}
    BY <2>1 DEF Kids
  <2>5. Kids(doc) = {At(i) : i \in old}
    BY <2>2 DEF Kids
  <2>6. At(n + 1) = Sub(block, key, Some(x))
    BY <1>2, <1>4, <2>3
  <2>. HIDE DEF old, At
  <2>7. QED BY <2>4, <2>5, <2>6 DEF Plus
<1>13. (Parses(d) => Parses(doc) /\ whole) /\ (Parses(doc) /\ whole => Parses(d))
  <2>1. LineReads(d, n + 1) <=> whole
    <3>1. d[Parent(d, n + 1)].val = None
      BY <1>4, <1>7, <1>9
    <3>2. QED BY <1>2, <1>4, <1>9, <3>1, SomeIs DEF LineReads
  <2>2. ASSUME NEW i \in 1 .. n, Duplicate(d, i, n + 1) PROVE FALSE
    <3>1. doc[i].key = key /\ doc[i].indent = 2 /\ Parent(doc, i) = j
      BY <1>2, <1>4, <1>9, <2>2 DEF Duplicate
    <3>2. Sub(block, key, doc[i].val) \in Kids(doc)
      BY <1>4, <1>7, <3>1 DEF Kids
    <3>3. QED BY <3>2
  <2>3. QED BY <1>5, <2>1, <2>2
<1>14. Under(d, block)
  <2>1. \A k \in (j + 1) .. n + 1 : k \in (j + 1) .. n \/ k = n + 1
    BY <1>4
  <2>2. \A k \in (j + 1) .. n : d[k] = doc[k]
    BY <1>4
  <2>3. \A k \in (j + 1) .. Len(d) : d[k].indent # 0
    BY <1>2, <1>4, <1>7, <2>1, <2>2
  <2>4. QED BY <1>4, <1>6, <1>7, <2>3 DEF Under
<1>15. QED BY <1>3, <1>4, <1>10, <1>11, <1>12, <1>13, <1>14

-----------------------------------------------------------------------------
(* What build_yaml_from_update writes                                      *)

(* A document: its lines, and the texts that decide whether it parses.     *)
Doc(d, tops, kids, texts) ==
    /\ d \in Seq(AnyLine) /\ Rooted(d)
    /\ Tops(d) = tops /\ Kids(d) = kids
    /\ Parses(d) <=> texts \cap Broken = {}

(* A document without lines.                                               *)
LEMMA EmptyDoc == Doc(<<>>, {}, {}, {})
<1>1. <<>> \in Seq(AnyLine) /\ DOMAIN <<>> = {}
  OBVIOUS
<1>2. QED BY <1>1 DEF Doc, Rooted, Tops, Kids, Parses

(* What may stand on a line.                                               *)
LEMMA Values ==
    /\ \A n \in Int : Number(n) \in Value /\ Some(Number(n)) \in Opt(Value)
    /\ \A b \in BOOLEAN : Flag(b) \in Value /\ Some(Flag(b)) \in Opt(Value)
    /\ \A t \in Texts : Text(t) \in Value /\ Some(Text(t)) \in Opt(Value)
    /\ None \in Opt(Value)
<1>1. /\ \A n \in Int : Number(n) \in Value
      /\ \A b \in BOOLEAN : Flag(b) \in Value
      /\ \A t \in Texts : Text(t) \in Value
  BY DEF Value, Number, Flag, Text
<1>2. QED BY <1>1, OptOf

(* A line at the top, added to a document.                                 *)
LEMMA DocTop ==
    ASSUME NEW d, NEW tops, NEW kids, NEW texts, Doc(d, tops, kids, texts),
           NEW key \in Key, NEW val \in Opt(Value), NEW whole \in BOOLEAN, NEW more,
           whole <=> more \cap Broken = {}, \A v : Entry(key, v) \notin tops
    PROVE  LET e == d \o Line(0, key, val, whole) IN
           /\ Doc(e, Plus(tops, Entry(key, val)), kids, texts \cup more)
           /\ val = None => Under(e, key)
           /\ \A k, v : Sub(key, k, v) \notin kids
<1>. DEFINE e == d \o Line(0, key, val, whole)
<1>1. d \in Seq(AnyLine) /\ Rooted(d)
  BY DEF Doc
<1>2. \A v : Entry(key, v) \notin Tops(d)
  BY DEF Doc
<1>3. /\ e \in Seq(AnyLine) /\ Rooted(e)
      /\ Tops(e) = Plus(Tops(d), Entry(key, val)) /\ Kids(e) = Kids(d)
      /\ Parses(e) => Parses(d) /\ whole
      /\ Parses(d) /\ whole => Parses(e)
      /\ val = None => Under(e, key)
      /\ \A k, v : Sub(key, k, v) \notin Kids(e)
  BY <1>1, <1>2, AddTop
<1>. HIDE DEF e
<1>4. Parses(e) <=> (texts \cup more) \cap Broken = {}
  <2>1. Parses(d) <=> texts \cap Broken = {}
    BY DEF Doc
  <2>2. QED BY <1>3, <2>1
<1>5. Doc(e, Plus(tops, Entry(key, val)), kids, texts \cup more)
  BY <1>1, <1>3, <1>4 DEF Doc
<1>6. Kids(d) = kids
  BY DEF Doc
<1>7. QED BY <1>3, <1>5, <1>6 DEF e

(* A line under the block at its end, added to it.                         *)
LEMMA DocNested ==
    ASSUME NEW d, NEW tops, NEW kids, NEW texts, Doc(d, tops, kids, texts),
           NEW block, Under(d, block), NEW key \in Key, NEW x \in Value,
           NEW whole \in BOOLEAN, NEW more, whole <=> more \cap Broken = {},
           \A v : Sub(block, key, v) \notin kids
    PROVE  LET e == d \o Line(2, key, Some(x), whole) IN
           /\ Doc(e, tops, Plus(kids, Sub(block, key, Some(x))), texts \cup more)
           /\ Under(e, block)
<1>. DEFINE e == d \o Line(2, key, Some(x), whole)
<1>1. d \in Seq(AnyLine) /\ Rooted(d)
  BY DEF Doc
<1>2. \A v : Sub(block, key, v) \notin Kids(d)
  BY DEF Doc
<1>3. /\ e \in Seq(AnyLine) /\ Rooted(e)
      /\ Tops(e) = Tops(d) /\ Kids(e) = Plus(Kids(d), Sub(block, key, Some(x)))
      /\ Parses(e) => Parses(d) /\ whole
      /\ Parses(d) /\ whole => Parses(e)
      /\ Under(e, block)
  BY <1>1, <1>2, AddNested
<1>. HIDE DEF e
<1>4. Parses(e) <=> (texts \cup more) \cap Broken = {}
  <2>1. Parses(d) <=> texts \cap Broken = {}
    BY DEF Doc
  <2>2. QED BY <1>3, <2>1
<1>5. Doc(e, tops, Plus(kids, Sub(block, key, Some(x))), texts \cup more)
  BY <1>1, <1>3, <1>4 DEF Doc
<1>6. QED BY <1>3, <1>5 DEF e

(* The lines of a block are written one by one.                            *)
Then(a, b) == a \o b

(* A block of lines is added line by line.                                 *)
LEMMA OneByOne ==
    ASSUME NEW d \in Seq(AnyLine), NEW a \in Seq(AnyLine), NEW b \in Seq(AnyLine)
    PROVE  Then(d, Then(a, b)) = Then(Then(d, a), b) /\ Then(a, b) \in Seq(AnyLine)
BY ConcatAssociative, ConcatProperties, SMTT(30) DEF Then

(* A block that is left out adds nothing.                                  *)
LEMMA NothingMore == \A d \in Seq(AnyLine) : d \o <<>> = d
BY ConcatEmptySeq

(* A line is a document of one.                                            *)
LEMMA LineType ==
    ASSUME NEW indent \in {0, 2}, NEW key \in Key, NEW val \in Opt(Value), NEW whole \in BOOLEAN
    PROVE  Line(indent, key, val, whole) \in Seq(AnyLine)
BY DEF Line, AnyLine

(* One lemma for each of YamlWriter's functions.                           *)
LEMMA DocScalar ==
    ASSUME NEW d, NEW tops, NEW kids, NEW texts, Doc(d, tops, kids, texts), NEW key \in Key,
           NEW x \in Value, \A v : Entry(key, v) \notin tops
    PROVE  Doc(d \o Scalar(key, x), Plus(tops, Entry(key, Some(x))), kids, texts)
<1>1. Some(x) \in Opt(Value)
  BY OptOf
<1>2. Doc(d \o Line(0, key, Some(x), TRUE), Plus(tops, Entry(key, Some(x))), kids, texts \cup {})
  BY <1>1, DocTop
<1>3. texts \cup {} = texts
  OBVIOUS
<1>4. QED BY <1>2, <1>3 DEF Scalar

(* YamlWriter.string.                                                      *)
LEMMA DocString ==
    ASSUME NEW d, NEW tops, NEW kids, NEW texts, Doc(d, tops, kids, texts), NEW key \in Key,
           NEW t, Text(t) \in Value, \A v : Entry(key, v) \notin tops
    PROVE  Doc(d \o String(key, t), Plus(tops, Entry(key, Some(Text(t)))), kids, Plus(texts, t))
<1>1. Some(Text(t)) \in Opt(Value)
  BY OptOf
<1>2. (t \notin Broken) \in BOOLEAN /\ (t \notin Broken <=> {t} \cap Broken = {})
  OBVIOUS
<1>3. Doc(d \o Line(0, key, Some(Text(t)), t \notin Broken), Plus(tops, Entry(key, Some(Text(t)))),
          kids, texts \cup {t})
  BY <1>1, <1>2, DocTop
<1>4. QED BY <1>3 DEF String, Plus

(* YamlWriter.nested_open.                                                 *)
LEMMA DocOpen ==
    ASSUME NEW d, NEW tops, NEW kids, NEW texts, Doc(d, tops, kids, texts), NEW key \in Key,
           \A v : Entry(key, v) \notin tops
    PROVE  /\ Doc(d \o NestedOpen(key), Plus(tops, Entry(key, None)), kids, texts)
           /\ Under(d \o NestedOpen(key), key)
           /\ \A k, v : Sub(key, k, v) \notin kids
<1>1. None \in Opt(Value)
  BY OptOf
<1>2. Doc(d \o Line(0, key, None, TRUE), Plus(tops, Entry(key, None)), kids, texts \cup {})
  BY <1>1, DocTop
<1>3. Under(d \o Line(0, key, None, TRUE), key)
  BY <1>1, {} \cap Broken = {}, DocTop
<1>4. \A k, v : Sub(key, k, v) \notin kids
  BY <1>1, {} \cap Broken = {}, DocTop
<1>5. texts \cup {} = texts
  OBVIOUS
<1>6. QED BY <1>2, <1>3, <1>4, <1>5 DEF NestedOpen

(* YamlWriter.nested_scalar.                                               *)
LEMMA DocNestedScalar ==
    ASSUME NEW d, NEW tops, NEW kids, NEW texts, Doc(d, tops, kids, texts), NEW block,
           Under(d, block), NEW key \in Key, NEW x \in Value, \A v : Sub(block, key, v) \notin kids
    PROVE  /\ Doc(d \o NestedScalar(key, x), tops, Plus(kids, Sub(block, key, Some(x))), texts)
           /\ Under(d \o NestedScalar(key, x), block)
<1>1. Doc(d \o Line(2, key, Some(x), TRUE), tops, Plus(kids, Sub(block, key, Some(x))),
          texts \cup {})
  BY DocNested
<1>2. Under(d \o Line(2, key, Some(x), TRUE), block)
  BY {} \cap Broken = {}, DocNested
<1>3. texts \cup {} = texts
  OBVIOUS
<1>4. QED BY <1>1, <1>2, <1>3 DEF NestedScalar

(* YamlWriter.nested_string.                                               *)
LEMMA DocNestedString ==
    ASSUME NEW d, NEW tops, NEW kids, NEW texts, Doc(d, tops, kids, texts), NEW block,
           Under(d, block), NEW key \in Key, NEW t, Text(t) \in Value,
           \A v : Sub(block, key, v) \notin kids
    PROVE  /\ Doc(d \o NestedString(key, t), tops, Plus(kids, Sub(block, key, Some(Text(t)))),
                  Plus(texts, t))
           /\ Under(d \o NestedString(key, t), block)
<1>1. (t \notin Broken) \in BOOLEAN /\ (t \notin Broken <=> {t} \cap Broken = {})
  OBVIOUS
<1>2. /\ Doc(d \o Line(2, key, Some(Text(t)), t \notin Broken), tops,
             Plus(kids, Sub(block, key, Some(Text(t)))), texts \cup {t})
      /\ Under(d \o Line(2, key, Some(Text(t)), t \notin Broken), block)
  BY <1>1, DocNested
<1>3. QED BY <1>2 DEF NestedString, Plus

-----------------------------------------------------------------------------
(* The file of a config                                                    *)

(* A config with any word for a mode, as a client may send it.             *)
Sent ==
    [frequency : Int, mode : Texts, driver : Texts, sample_rate : Int, gain : Opt(Int),
     ppm : Int, period_seconds : Nat, beacon : Opt(BeaconConfig), http : HttpConfig,
     microwaveprop : Opt(MicrowavepropConfig), update : UpdateConfig]

(* The blocks of its file, and the whole of it.                            *)
GainFile(c) == IF c.gain = None THEN <<>> ELSE Scalar("gain", Number(c.gain[1]))
BeaconFile(c) == IF c.beacon = None THEN <<>> ELSE BeaconLines(c.beacon[1])
MicrowavepropFile(c) ==
    IF c.microwaveprop = None THEN <<>>
    ELSE LET m == c.microwaveprop[1] IN
         NestedOpen("microwaveprop")
             \o NestedScalar("enabled", Flag(m.enabled))
             \o NestedString("monitor_token", m.monitor_token)
             \o NestedString("beacon_id", m.beacon_id)
             \o NestedString("gridsquare", m.gridsquare)
             \o NestedScalar("config_version", Number(m.config_version))
FileWith(c, mode) ==
    Scalar("frequency", Number(c.frequency)) \o mode
        \o String("driver", c.driver) \o Scalar("sample_rate", Number(c.sample_rate))
        \o GainFile(c) \o Scalar("ppm", Number(c.ppm))
        \o Scalar("period_seconds", Number(c.period_seconds))
        \o BeaconFile(c) \o NestedOpen("http") \o NestedString("bind", c.http.bind)
        \o MicrowavepropFile(c) \o UpdateLines(c.update)
FileOf(c) == FileWith(c, Scalar("mode", Text(c.mode)))

(* What each block adds to the lines.                                      *)
GainTops(tops, c) ==
    IF c.gain = None THEN tops ELSE Plus(tops, Entry("gain", Some(Number(c.gain[1]))))
BeaconTops(tops, c) == IF c.beacon = None THEN tops ELSE Plus(tops, Entry("beacon", None))
BeaconKids(kids, c) ==
    IF c.beacon = None THEN kids
    ELSE LET b == c.beacon[1] IN
         Plus(Plus(kids, Sub("beacon", "offset_hz", Some(Number(b.offset_hz)))),
              Sub("beacon", "bandwidth_hz", Some(Number(b.bandwidth_hz))))
MicrowavepropTops(tops, c) ==
    IF c.microwaveprop = None THEN tops ELSE Plus(tops, Entry("microwaveprop", None))
MicrowavepropKids(kids, c) ==
    IF c.microwaveprop = None THEN kids
    ELSE LET m == c.microwaveprop[1]
             in(key, x) == Sub("microwaveprop", key, Some(x)) IN
         Plus(Plus(Plus(Plus(Plus(kids, in("enabled", Flag(m.enabled))),
                             in("monitor_token", Text(m.monitor_token))),
                        in("beacon_id", Text(m.beacon_id))),
                   in("gridsquare", Text(m.gridsquare))),
              in("config_version", Number(m.config_version)))
MicrowavepropTexts(texts, c) ==
    IF c.microwaveprop = None THEN texts
    ELSE LET m == c.microwaveprop[1] IN
         Plus(Plus(Plus(texts, m.monitor_token), m.beacon_id), m.gridsquare)
UpdateKids(kids, u) ==
    Plus(Plus(Plus(kids, Sub("update", "enabled", Some(Flag(u.enabled)))),
              Sub("update", "auto", Some(Flag(u.auto)))),
         Sub("update", "check_interval", Some(Number(u.check_interval))))

(* A gain is written when there is one.                                    *)
LEMMA DocGain ==
    ASSUME NEW d, NEW tops, NEW kids, NEW texts, Doc(d, tops, kids, texts), NEW c \in Sent,
           \A v : Entry("gain", v) \notin tops
    PROVE  Doc(d \o GainFile(c), GainTops(tops, c), kids, texts)
<1>1. CASE c.gain = None
  <2>1. d \in Seq(AnyLine)
    BY DEF Doc
  <2>2. d \o <<>> = d
    BY <2>1, NothingMore
  <2>3. QED BY <1>1, <2>2 DEF GainFile, GainTops
<1>2. CASE c.gain # None
  <2>1. c.gain[1] \in Int
    BY <1>2, OptOf, SomeIs DEF Sent
  <2>2. Number(c.gain[1]) \in Value
    BY <2>1, Values
  <2>3. "gain" \in Key
    BY DEF Key, Scalars, Blocks
  <2>4. QED BY <1>2, <2>2, <2>3, DocScalar DEF GainFile, GainTops
<1>3. QED BY <1>1, <1>2

(* So is a beacon block.                                                   *)
LEMMA DocBeacon ==
    ASSUME NEW d, NEW tops, NEW kids, NEW texts, Doc(d, tops, kids, texts), NEW c \in Sent,
           \A v : Entry("beacon", v) \notin tops
    PROVE  Doc(d \o BeaconFile(c), BeaconTops(tops, c), BeaconKids(kids, c), texts)
<1>1. CASE c.beacon = None
  <2>1. d \in Seq(AnyLine)
    BY DEF Doc
  <2>2. d \o <<>> = d
    BY <2>1, NothingMore
  <2>3. QED BY <1>1, <2>2 DEF BeaconFile, BeaconTops, BeaconKids
<1>2. CASE c.beacon # None
  <2>. DEFINE b == c.beacon[1]
              o == NestedOpen("beacon")
              s1 == NestedScalar("offset_hz", Number(b.offset_hz))
              s2 == NestedScalar("bandwidth_hz", Number(b.bandwidth_hz))
              k1 == Plus(kids, Sub("beacon", "offset_hz", Some(Number(b.offset_hz))))
              k2 == Plus(k1, Sub("beacon", "bandwidth_hz", Some(Number(b.bandwidth_hz))))
              t1 == Plus(tops, Entry("beacon", None))
  <2>1. b \in BeaconConfig
    BY <1>2, OptOf, SomeIs DEF Sent
  <2>2. Number(b.offset_hz) \in Value /\ Number(b.bandwidth_hz) \in Value
    BY <2>1, Values DEF BeaconConfig
  <2>3. "beacon" \in Key /\ "offset_hz" \in Key /\ "bandwidth_hz" \in Key
    BY DEF Key, Scalars, Blocks
  <2>4. o \in Seq(AnyLine) /\ s1 \in Seq(AnyLine) /\ s2 \in Seq(AnyLine) /\ d \in Seq(AnyLine)
    <3>1. /\ None \in Opt(Value) /\ Some(Number(b.offset_hz)) \in Opt(Value)
          /\ Some(Number(b.bandwidth_hz)) \in Opt(Value)
      BY <2>2, OptOf
    <3>2. QED BY <2>3, <3>1, LineType DEF NestedOpen, NestedScalar, Doc
  <2>. HIDE DEF b, o, s1, s2, k1, k2, t1
  <2>5. d \o ((o \o s1) \o s2) = ((d \o o) \o s1) \o s2
    <3>1. Then(d, Then(o, s1)) = Then(Then(d, o), s1) /\ Then(o, s1) \in Seq(AnyLine)
      BY <2>4, OneByOne
    <3>2. Then(d, Then(Then(o, s1), s2)) = Then(Then(Then(d, o), s1), s2)
      BY <2>4, <3>1, OneByOne
    <3>3. QED BY <3>2 DEF Then
  <2>6. /\ Doc(d \o o, t1, kids, texts) /\ Under(d \o o, "beacon")
        /\ \A k, v : Sub("beacon", k, v) \notin kids
    BY <2>3, DocOpen DEF o, t1
  <2>7. Doc((d \o o) \o s1, t1, k1, texts) /\ Under((d \o o) \o s1, "beacon")
    BY <2>2, <2>3, <2>6, DocNestedScalar DEF s1, k1
  <2>8. \A v : Sub("beacon", "bandwidth_hz", v) \notin k1
    BY <2>6, Entries DEF k1, Plus
  <2>9. Doc(((d \o o) \o s1) \o s2, t1, k2, texts)
    BY <2>2, <2>3, <2>7, <2>8, DocNestedScalar DEF s2, k2
  <2>10. BeaconFile(c) = (o \o s1) \o s2
    BY <1>2 DEF BeaconFile, BeaconLines, o, s1, s2, b
  <2>11. BeaconTops(tops, c) = t1 /\ BeaconKids(kids, c) = k2
    BY <1>2 DEF BeaconTops, BeaconKids, t1, k2, k1, b
  <2>12. QED BY <2>5, <2>9, <2>10, <2>11
<1>3. QED BY <1>1, <1>2

(* So is a microwaveprop block.                                            *)
LEMMA DocMicrowaveprop ==
    ASSUME NEW d, NEW tops, NEW kids, NEW texts, Doc(d, tops, kids, texts), NEW c \in Sent,
           \A v : Entry("microwaveprop", v) \notin tops
    PROVE  Doc(d \o MicrowavepropFile(c), MicrowavepropTops(tops, c), MicrowavepropKids(kids, c),
               MicrowavepropTexts(texts, c))
<1>1. CASE c.microwaveprop = None
  <2>1. d \in Seq(AnyLine)
    BY DEF Doc
  <2>2. d \o <<>> = d
    BY <2>1, NothingMore
  <2>3. QED
    BY <1>1, <2>2 DEF MicrowavepropFile, MicrowavepropTops, MicrowavepropKids, MicrowavepropTexts
<1>2. CASE c.microwaveprop # None
  <2>. DEFINE m == c.microwaveprop[1]
              in(key, x) == Sub("microwaveprop", key, Some(x))
              v1 == Flag(m.enabled)
              v2 == Text(m.monitor_token)
              v3 == Text(m.beacon_id)
              v4 == Text(m.gridsquare)
              v5 == Number(m.config_version)
              o == NestedOpen("microwaveprop")
              s1 == NestedScalar("enabled", v1)
              s2 == NestedString("monitor_token", m.monitor_token)
              s3 == NestedString("beacon_id", m.beacon_id)
              s4 == NestedString("gridsquare", m.gridsquare)
              s5 == NestedScalar("config_version", v5)
              t0 == Plus(tops, Entry("microwaveprop", None))
              k1 == Plus(kids, in("enabled", v1))
              k2 == Plus(k1, in("monitor_token", v2))
              k3 == Plus(k2, in("beacon_id", v3))
              k4 == Plus(k3, in("gridsquare", v4))
              k5 == Plus(k4, in("config_version", v5))
              x2 == Plus(texts, m.monitor_token)
              x3 == Plus(x2, m.beacon_id)
              x4 == Plus(x3, m.gridsquare)
              d0 == d \o o
              d1 == d0 \o s1
              d2 == d1 \o s2
              d3 == d2 \o s3
              d4 == d3 \o s4
              d5 == d4 \o s5
  <2>1. m \in MicrowavepropConfig
    BY <1>2, OptOf, SomeIs DEF Sent
  <2>2. /\ m.enabled \in BOOLEAN /\ m.monitor_token \in Texts /\ m.beacon_id \in Texts
        /\ m.gridsquare \in Texts /\ m.config_version \in Int
    BY <2>1 DEF MicrowavepropConfig
  <2>3. v1 \in Value /\ v2 \in Value /\ v3 \in Value /\ v4 \in Value /\ v5 \in Value
    BY <2>2, Values
  <2>4. /\ "microwaveprop" \in Key /\ "enabled" \in Key /\ "monitor_token" \in Key
        /\ "beacon_id" \in Key /\ "gridsquare" \in Key /\ "config_version" \in Key
    BY DEF Key, Blocks
  <2>5. /\ None \in Opt(Value) /\ Some(v1) \in Opt(Value) /\ Some(v2) \in Opt(Value)
        /\ Some(v3) \in Opt(Value) /\ Some(v4) \in Opt(Value) /\ Some(v5) \in Opt(Value)
    BY <2>3, OptOf
  <2>6. /\ d \in Seq(AnyLine) /\ o \in Seq(AnyLine) /\ s1 \in Seq(AnyLine) /\ s2 \in Seq(AnyLine)
        /\ s3 \in Seq(AnyLine) /\ s4 \in Seq(AnyLine) /\ s5 \in Seq(AnyLine)
    BY <2>4, <2>5, LineType DEF NestedOpen, NestedScalar, NestedString, Doc
  <2>. HIDE DEF o, s1, s2, s3, s4, s5
  <2>7. d \o MicrowavepropFile(c) = d5
    <3>. DEFINE p1 == Then(o, s1)
                p2 == Then(p1, s2)
                p3 == Then(p2, s3)
                p4 == Then(p3, s4)
    <3>1. Then(d, p1) = Then(Then(d, o), s1) /\ p1 \in Seq(AnyLine)
      BY <2>6, OneByOne
    <3>2. Then(d, p2) = Then(Then(d, p1), s2) /\ p2 \in Seq(AnyLine)
      BY <2>6, <3>1, OneByOne
    <3>3. Then(d, p3) = Then(Then(d, p2), s3) /\ p3 \in Seq(AnyLine)
      BY <2>6, <3>2, OneByOne
    <3>4. Then(d, p4) = Then(Then(d, p3), s4) /\ p4 \in Seq(AnyLine)
      BY <2>6, <3>3, OneByOne
    <3>5. Then(d, Then(p4, s5)) = Then(Then(d, p4), s5)
      BY <2>6, <3>4, OneByOne
    <3>6. Then(d, Then(p4, s5)) =
              Then(Then(Then(Then(Then(Then(d, o), s1), s2), s3), s4), s5)
      BY <3>1, <3>2, <3>3, <3>4, <3>5
    <3>7. MicrowavepropFile(c) = o \o s1 \o s2 \o s3 \o s4 \o s5
      BY <1>2 DEF MicrowavepropFile, o, s1, s2, s3, s4, s5
    <3>8. QED BY <3>6, <3>7 DEF Then
  <2>. HIDE DEF m, v1, v2, v3, v4, v5, t0, k1, k2, k3, k4, k5, x2, x3, x4, d0, d1, d2, d3, d4, d5
  <2>8. Doc(d0, t0, kids, texts) /\ Under(d0, "microwaveprop")
    BY <2>4, DocOpen DEF o, t0, d0
  <2>9. \A k, v : Sub("microwaveprop", k, v) \notin kids
    BY <2>4, DocOpen
  <2>10. Doc(d1, t0, k1, texts) /\ Under(d1, "microwaveprop")
    BY <2>3, <2>4, <2>8, <2>9, DocNestedScalar DEF s1, k1, d1
  <2>11. Doc(d2, t0, k2, x2) /\ Under(d2, "microwaveprop")
    <3>1. \A v : Sub("microwaveprop", "monitor_token", v) \notin k1
      BY <2>9, Entries DEF k1, Plus
    <3>2. QED BY <2>3, <2>4, <2>10, <3>1, DocNestedString DEF s2, k2, v2, x2, d2
  <2>12. Doc(d3, t0, k3, x3) /\ Under(d3, "microwaveprop")
    <3>1. \A v : Sub("microwaveprop", "beacon_id", v) \notin k2
      BY <2>9, Entries DEF k1, k2, Plus
    <3>2. QED BY <2>3, <2>4, <2>11, <3>1, DocNestedString DEF s3, k3, v3, x3, d3
  <2>13. Doc(d4, t0, k4, x4) /\ Under(d4, "microwaveprop")
    <3>1. \A v : Sub("microwaveprop", "gridsquare", v) \notin k3
      BY <2>9, Entries DEF k1, k2, k3, Plus
    <3>2. QED BY <2>3, <2>4, <2>12, <3>1, DocNestedString DEF s4, k4, v4, x4, d4
  <2>14. Doc(d5, t0, k5, x4)
    <3>1. \A v : Sub("microwaveprop", "config_version", v) \notin k4
      BY <2>9, Entries DEF k1, k2, k3, k4, Plus
    <3>2. QED BY <2>3, <2>4, <2>13, <3>1, DocNestedScalar DEF s5, k5, d5
  <2>15. /\ MicrowavepropTops(tops, c) = t0 /\ MicrowavepropKids(kids, c) = k5
         /\ MicrowavepropTexts(texts, c) = x4
    BY <1>2 DEF MicrowavepropTops, MicrowavepropKids, MicrowavepropTexts, t0, k1, k2, k3, k4, k5,
                x2, x3, x4, v1, v2, v3, v4, v5, m
  <2>16. QED BY <2>7, <2>14, <2>15
<1>3. QED BY <1>1, <1>2

(* There always is an update block.                                        *)
LEMMA DocUpdate ==
    ASSUME NEW d, NEW tops, NEW kids, NEW texts, Doc(d, tops, kids, texts), NEW u \in UpdateConfig,
           \A v : Entry("update", v) \notin tops
    PROVE  Doc(d \o UpdateLines(u), Plus(tops, Entry("update", None)), UpdateKids(kids, u), texts)
<1>. DEFINE v1 == Flag(u.enabled)
            v2 == Flag(u.auto)
            v3 == Number(u.check_interval)
            o == NestedOpen("update")
            s1 == NestedScalar("enabled", v1)
            s2 == NestedScalar("auto", v2)
            s3 == NestedScalar("check_interval", v3)
            t0 == Plus(tops, Entry("update", None))
            k1 == Plus(kids, Sub("update", "enabled", Some(v1)))
            k2 == Plus(k1, Sub("update", "auto", Some(v2)))
            k3 == Plus(k2, Sub("update", "check_interval", Some(v3)))
            d0 == d \o o
            d1 == d0 \o s1
            d2 == d1 \o s2
            d3 == d2 \o s3
<1>1. u.enabled \in BOOLEAN /\ u.auto \in BOOLEAN /\ u.check_interval \in Int
  BY DEF UpdateConfig
<1>2. v1 \in Value /\ v2 \in Value /\ v3 \in Value
  BY <1>1, Values
<1>3. /\ "update" \in Key /\ "enabled" \in Key /\ "auto" \in Key /\ "check_interval" \in Key
  BY DEF Key, Blocks
<1>4. /\ None \in Opt(Value) /\ Some(v1) \in Opt(Value) /\ Some(v2) \in Opt(Value)
      /\ Some(v3) \in Opt(Value)
  BY <1>2, OptOf
<1>5. /\ d \in Seq(AnyLine) /\ o \in Seq(AnyLine) /\ s1 \in Seq(AnyLine) /\ s2 \in Seq(AnyLine)
      /\ s3 \in Seq(AnyLine)
  BY <1>3, <1>4, LineType DEF NestedOpen, NestedScalar, Doc
<1>. HIDE DEF o, s1, s2, s3
<1>6. d \o UpdateLines(u) = d3
  <2>. DEFINE p1 == Then(o, s1)
              p2 == Then(p1, s2)
  <2>1. Then(d, p1) = Then(Then(d, o), s1) /\ p1 \in Seq(AnyLine)
    BY <1>5, OneByOne
  <2>2. Then(d, p2) = Then(Then(d, p1), s2) /\ p2 \in Seq(AnyLine)
    BY <1>5, <2>1, OneByOne
  <2>3. Then(d, Then(p2, s3)) = Then(Then(d, p2), s3)
    BY <1>5, <2>2, OneByOne
  <2>4. Then(d, Then(p2, s3)) = Then(Then(Then(Then(d, o), s1), s2), s3)
    BY <2>1, <2>2, <2>3
  <2>5. UpdateLines(u) = o \o s1 \o s2 \o s3
    BY DEF UpdateLines, o, s1, s2, s3
  <2>6. QED BY <2>4, <2>5 DEF Then
<1>. HIDE DEF v1, v2, v3, t0, k1, k2, k3, d0, d1, d2, d3
<1>7. Doc(d0, t0, kids, texts) /\ Under(d0, "update")
  BY <1>3, DocOpen DEF o, t0, d0
<1>8. \A k, v : Sub("update", k, v) \notin kids
  BY <1>3, DocOpen
<1>9. Doc(d1, t0, k1, texts) /\ Under(d1, "update")
  BY <1>2, <1>3, <1>7, <1>8, DocNestedScalar DEF s1, k1, d1
<1>10. Doc(d2, t0, k2, texts) /\ Under(d2, "update")
  <2>1. \A v : Sub("update", "auto", v) \notin k1
    BY <1>8, Entries DEF k1, Plus
  <2>2. QED BY <1>2, <1>3, <1>9, <2>1, DocNestedScalar DEF s2, k2, d2
<1>11. Doc(d3, t0, k3, texts)
  <2>1. \A v : Sub("update", "check_interval", v) \notin k2
    BY <1>8, Entries DEF k1, k2, Plus
  <2>2. QED BY <1>2, <1>3, <1>10, <2>1, DocNestedScalar DEF s3, k3, d3
<1>12. UpdateKids(kids, u) = k3
  BY DEF UpdateKids, k1, k2, k3, v1, v2, v3
<1>13. QED BY <1>6, <1>11, <1>12 DEF t0

(* The lines of the whole file, and the texts in quotes on them.           *)
TopsOf(c) ==
    LET tuned == Plus(Plus(Plus(Plus({}, Entry("frequency", Some(Number(c.frequency)))),
                                Entry("mode", Some(Text(c.mode)))),
                           Entry("driver", Some(Text(c.driver)))),
                      Entry("sample_rate", Some(Number(c.sample_rate))))
        timed == Plus(Plus(GainTops(tuned, c), Entry("ppm", Some(Number(c.ppm)))),
                      Entry("period_seconds", Some(Number(c.period_seconds))))
        served == Plus(BeaconTops(timed, c), Entry("http", None))
    IN Plus(MicrowavepropTops(served, c), Entry("update", None))
KidsOf(c) ==
    LET served == Plus(BeaconKids({}, c), Sub("http", "bind", Some(Text(c.http.bind))))
    IN UpdateKids(MicrowavepropKids(served, c), c.update)
TextsOf(c) == MicrowavepropTexts(Plus(Plus({}, c.driver), c.http.bind), c)

(* The file of a config has the lines that were meant to be in it.         *)
LEMMA FileDoc ==
    ASSUME NEW c \in Sent
    PROVE  Doc(FileOf(c), TopsOf(c), KidsOf(c), TextsOf(c))
<1>. DEFINE v1 == Number(c.frequency)
            v2 == Text(c.mode)
            v3 == Text(c.driver)
            v4 == Number(c.sample_rate)
            v6 == Number(c.ppm)
            v7 == Number(c.period_seconds)
            v9 == Text(c.http.bind)
            d1 == Scalar("frequency", v1)
            d2 == d1 \o Scalar("mode", v2)
            d3 == d2 \o String("driver", c.driver)
            d4 == d3 \o Scalar("sample_rate", v4)
            d5 == d4 \o GainFile(c)
            d6 == d5 \o Scalar("ppm", v6)
            d7 == d6 \o Scalar("period_seconds", v7)
            d8 == d7 \o BeaconFile(c)
            d9 == d8 \o NestedOpen("http")
            da == d9 \o NestedString("bind", c.http.bind)
            db == da \o MicrowavepropFile(c)
            dc == db \o UpdateLines(c.update)
            t1 == Plus({}, Entry("frequency", Some(v1)))
            t2 == Plus(t1, Entry("mode", Some(v2)))
            t3 == Plus(t2, Entry("driver", Some(v3)))
            t4 == Plus(t3, Entry("sample_rate", Some(v4)))
            t5 == GainTops(t4, c)
            t6 == Plus(t5, Entry("ppm", Some(v6)))
            t7 == Plus(t6, Entry("period_seconds", Some(v7)))
            t8 == BeaconTops(t7, c)
            t9 == Plus(t8, Entry("http", None))
            tb == MicrowavepropTops(t9, c)
            tc == Plus(tb, Entry("update", None))
            k8 == BeaconKids({}, c)
            ka == Plus(k8, Sub("http", "bind", Some(v9)))
            kb == MicrowavepropKids(ka, c)
            kc == UpdateKids(kb, c.update)
            x3 == Plus({}, c.driver)
            xa == Plus(x3, c.http.bind)
            xb == MicrowavepropTexts(xa, c)
<1>1. /\ c.frequency \in Int /\ c.mode \in Texts /\ c.driver \in Texts /\ c.sample_rate \in Int
      /\ c.ppm \in Int /\ c.period_seconds \in Int /\ c.update \in UpdateConfig
      /\ c.http.bind \in Texts
  <2>1. c.http \in HttpConfig
    BY DEF Sent
  <2>2. c.http.bind \in Texts
    BY <2>1 DEF HttpConfig, Addresses
  <2>3. QED BY <2>2 DEF Sent
<1>2. /\ v1 \in Value /\ v2 \in Value /\ v3 \in Value /\ v4 \in Value /\ v6 \in Value
      /\ v7 \in Value /\ v9 \in Value
  BY <1>1, Values
<1>3. /\ "frequency" \in Key /\ "mode" \in Key /\ "driver" \in Key /\ "sample_rate" \in Key
      /\ "ppm" \in Key /\ "period_seconds" \in Key /\ "http" \in Key /\ "bind" \in Key
  BY DEF Key, Scalars, Blocks
<1>4. FileOf(c) = dc /\ TopsOf(c) = tc /\ KidsOf(c) = kc /\ TextsOf(c) = xb
  BY DEF FileOf, FileWith, TopsOf, KidsOf, TextsOf
<1>. HIDE DEF v1, v2, v3, v4, v6, v7, v9, d1, d2, d3, d4, d5, d6, d7, d8, d9, da, db, dc,
              t1, t2, t3, t4, t5, t6, t7, t8, t9, tb, tc, k8, ka, kb, kc, x3, xa, xb
<1>5. Doc(d1, t1, {}, {})
  <2>1. \A v : Entry("frequency", v) \notin {}
    OBVIOUS
  <2>2. Doc(<<>> \o Scalar("frequency", v1), t1, {}, {})
    BY <1>2, <1>3, <2>1, EmptyDoc, DocScalar DEF t1
  <2>3. <<>> \o Scalar("frequency", v1) = d1
    BY DEF d1, Scalar, Line
  <2>4. QED BY <2>2, <2>3
<1>6. Doc(d2, t2, {}, {})
  <2>1. \A v : Entry("mode", v) \notin t1
    BY Entries DEF t1, Plus
  <2>2. QED BY <1>2, <1>3, <1>5, <2>1, DocScalar DEF d2, t2
<1>7. Doc(d3, t3, {}, x3)
  <2>1. \A v : Entry("driver", v) \notin t2
    BY Entries DEF t1, t2, Plus
  <2>2. QED BY <1>2, <1>3, <1>6, <2>1, DocString DEF d3, t3, x3, v3
<1>8. Doc(d4, t4, {}, x3)
  <2>1. \A v : Entry("sample_rate", v) \notin t3
    BY Entries DEF t1, t2, t3, Plus
  <2>2. QED BY <1>2, <1>3, <1>7, <2>1, DocScalar DEF d4, t4
<1>9. Doc(d5, t5, {}, x3)
  <2>1. \A v : Entry("gain", v) \notin t4
    BY Entries DEF t1, t2, t3, t4, Plus
  <2>2. QED BY <1>8, <2>1, DocGain DEF d5, t5
<1>10. Doc(d6, t6, {}, x3)
  <2>1. \A v : Entry("ppm", v) \notin t5
    BY Entries DEF t1, t2, t3, t4, t5, GainTops, Plus
  <2>2. QED BY <1>2, <1>3, <1>9, <2>1, DocScalar DEF d6, t6
<1>11. Doc(d7, t7, {}, x3)
  <2>1. \A v : Entry("period_seconds", v) \notin t6
    BY Entries DEF t1, t2, t3, t4, t5, t6, GainTops, Plus
  <2>2. QED BY <1>2, <1>3, <1>10, <2>1, DocScalar DEF d7, t7
<1>12. Doc(d8, t8, k8, x3)
  <2>1. \A v : Entry("beacon", v) \notin t7
    BY Entries DEF t1, t2, t3, t4, t5, t6, t7, GainTops, Plus
  <2>2. QED BY <1>11, <2>1, DocBeacon DEF d8, t8, k8
<1>13. Doc(d9, t9, k8, x3) /\ Under(d9, "http")
  <2>1. \A v : Entry("http", v) \notin t8
    BY Entries DEF t1, t2, t3, t4, t5, t6, t7, t8, GainTops, BeaconTops, Plus
  <2>2. QED BY <1>3, <1>12, <2>1, DocOpen DEF d9, t9
<1>14. Doc(da, t9, ka, xa)
  <2>1. \A v : Sub("http", "bind", v) \notin k8
    BY Entries DEF k8, BeaconKids, Plus
  <2>2. QED BY <1>2, <1>3, <1>13, <2>1, DocNestedString DEF da, ka, xa, v9
<1>15. Doc(db, tb, kb, xb)
  <2>1. \A v : Entry("microwaveprop", v) \notin t9
    BY Entries DEF t1, t2, t3, t4, t5, t6, t7, t8, t9, GainTops, BeaconTops, Plus
  <2>2. QED BY <1>14, <2>1, DocMicrowaveprop DEF db, tb, kb, xb
<1>16. Doc(dc, tc, kc, xb)
  <2>1. \A v : Entry("update", v) \notin tb
    BY Entries DEF t1, t2, t3, t4, t5, t6, t7, t8, t9, tb, GainTops, BeaconTops,
                   MicrowavepropTops, Plus
  <2>2. QED BY <1>1, <1>15, <2>1, DocUpdate DEF dc, tc, kc
<1>17. QED BY <1>4, <1>16

-----------------------------------------------------------------------------
(* Reading it back                                                         *)

(* What is found under a key.                                              *)
LEMMA TopLine ==
    ASSUME NEW doc, NEW key, NEW i \in Top(doc, key)
    PROVE  Entry(key, doc[i].val) \in Tops(doc) /\ i \in DOMAIN doc
<1>1. i \in {h \in DOMAIN doc : doc[h].indent = 0} /\ doc[i].key = key
  BY DEF Top
<1>2. QED BY <1>1 DEF Tops

(* There is a line for each entry at the top.                              *)
LEMMA LineTop ==
    ASSUME NEW doc, NEW key, NEW val, Entry(key, val) \in Tops(doc)
    PROVE  \E i \in Top(doc, key) : doc[i].val = val
<1>1. PICK i \in {h \in DOMAIN doc : doc[h].indent = 0} :
          Entry(key, val) = Entry(doc[i].key, doc[i].val)
  BY DEF Tops
<1>2. doc[i].key = key /\ doc[i].val = val
  BY <1>1, Entries
<1>3. QED BY <1>1, <1>2 DEF Top

(* A line under a block is one of those there.                             *)
LEMMA ChildLine ==
    ASSUME NEW doc, NEW block, NEW key, NEW i \in Child(doc, block, key)
    PROVE  Sub(block, key, doc[i].val) \in Kids(doc) /\ i \in DOMAIN doc
<1>1. /\ i \in {h \in DOMAIN doc : doc[h].indent = 2} /\ doc[i].key = key
      /\ Parent(doc, i) \in Top(doc, block)
  BY DEF Child
<1>2. doc[Parent(doc, i)].key = block
  BY <1>1 DEF Top
<1>3. QED BY <1>1, <1>2 DEF Kids

(* There is a line for each of those.                                      *)
LEMMA LineChild ==
    ASSUME NEW doc \in Seq(AnyLine), Rooted(doc), NEW block, NEW key, NEW val,
           Sub(block, key, val) \in Kids(doc)
    PROVE  \E i \in Child(doc, block, key) : doc[i].val = val
<1>1. PICK i \in {h \in DOMAIN doc : doc[h].indent = 2} :
          Sub(block, key, val) = Sub(doc[Parent(doc, i)].key, doc[i].key, doc[i].val)
  BY DEF Kids
<1>2. doc[Parent(doc, i)].key = block /\ doc[i].key = key /\ doc[i].val = val
  BY <1>1, Entries
<1>3. Parent(doc, i) \in DOMAIN doc /\ doc[Parent(doc, i)].indent = 0
  BY <1>1, KidsOfTops
<1>4. QED BY <1>1, <1>2, <1>3 DEF Child, Top

(* It is the value on the one line there is.                               *)
LEMMA ReadsTop ==
    ASSUME NEW doc, NEW key, NEW w, Entry(key, Some(w)) \in Tops(doc),
           \A v : Entry(key, v) \in Tops(doc) => v = Some(w)
    PROVE  Get(doc, key) = Some(w[2])
<1>1. PICK i \in Top(doc, key) : doc[i].val = Some(w)
  BY LineTop
<1>2. \A h \in Top(doc, key) : doc[h].val = Some(w)
  BY TopLine
<1>. DEFINE h == CHOOSE x \in Top(doc, key) : TRUE
<1>3. h \in Top(doc, key)
  BY <1>1
<1>4. doc[h].val[1][2] = w[2]
  BY <1>2, <1>3, SomeIs
<1>5. QED BY <1>1, <1>4 DEF Get, ScalarAt

(* Such a line reads as what stands on it.                                 *)
LEMMA ReadsChild ==
    ASSUME NEW doc \in Seq(AnyLine), Rooted(doc), NEW block, NEW key, NEW w,
           Sub(block, key, Some(w)) \in Kids(doc),
           \A v : Sub(block, key, v) \in Kids(doc) => v = Some(w)
    PROVE  GetIn(doc, block, key) = Some(w[2])
<1>1. PICK i \in Child(doc, block, key) : doc[i].val = Some(w)
  BY LineChild
<1>2. \A h \in Child(doc, block, key) : doc[h].val = Some(w)
  BY ChildLine
<1>. DEFINE h == CHOOSE x \in Child(doc, block, key) : TRUE
<1>3. h \in Child(doc, block, key)
  BY <1>1
<1>4. doc[h].val[1][2] = w[2]
  BY <1>2, <1>3, SomeIs
<1>5. QED BY <1>1, <1>4 DEF GetIn, ScalarAt

(* A key that is not there reads as absent.                                *)
LEMMA ReadsNoTop ==
    ASSUME NEW doc, NEW key, \A v : Entry(key, v) \notin Tops(doc)
    PROVE  Get(doc, key) = None /\ ~IsMap(doc, key) /\ ~IsScalar(doc, key)
<1>1. Top(doc, key) = {}
  BY TopLine
<1>2. QED BY <1>1 DEF Get, ScalarAt, IsMap, IsScalar

(* What a value holds.                                                     *)
LEMMA Held ==
    \A x : /\ Number(x)[1] = "number" /\ Number(x)[2] = x
           /\ Flag(x)[1] = "flag" /\ Flag(x)[2] = x
           /\ Text(x)[1] = "text" /\ Text(x)[2] = x
BY DEF Number, Flag, Text

(* What is there is taken, not the default.                                *)
LEMMA Unwrapped == \A x, default : UnwrapOr(Some(x), default) = x
BY SomeIs DEF UnwrapOr

(* The lines at the top of the file of a config.                           *)
LEMMA TopsSay ==
    ASSUME NEW c, NEW k, NEW v
    PROVE  Entry(k, v) \in TopsOf(c) <=>
               \/ k = "frequency" /\ v = Some(Number(c.frequency))
               \/ k = "mode" /\ v = Some(Text(c.mode))
               \/ k = "driver" /\ v = Some(Text(c.driver))
               \/ k = "sample_rate" /\ v = Some(Number(c.sample_rate))
               \/ c.gain # None /\ k = "gain" /\ v = Some(Number(c.gain[1]))
               \/ k = "ppm" /\ v = Some(Number(c.ppm))
               \/ k = "period_seconds" /\ v = Some(Number(c.period_seconds))
               \/ c.beacon # None /\ k = "beacon" /\ v = None
               \/ k = "http" /\ v = None
               \/ c.microwaveprop # None /\ k = "microwaveprop" /\ v = None
               \/ k = "update" /\ v = None
BY Entries DEF TopsOf, GainTops, BeaconTops, MicrowavepropTops, Plus

(* And those under its blocks.                                             *)
LEMMA KidsSay ==
    ASSUME NEW c, NEW b, NEW k, NEW v
    PROVE  Sub(b, k, v) \in KidsOf(c) <=>
               \/ /\ c.beacon # None /\ b = "beacon"
                  /\ \/ k = "offset_hz" /\ v = Some(Number(c.beacon[1].offset_hz))
                     \/ k = "bandwidth_hz" /\ v = Some(Number(c.beacon[1].bandwidth_hz))
               \/ b = "http" /\ k = "bind" /\ v = Some(Text(c.http.bind))
               \/ /\ c.microwaveprop # None /\ b = "microwaveprop"
                  /\ \/ k = "enabled" /\ v = Some(Flag(c.microwaveprop[1].enabled))
                     \/ k = "monitor_token" /\ v = Some(Text(c.microwaveprop[1].monitor_token))
                     \/ k = "beacon_id" /\ v = Some(Text(c.microwaveprop[1].beacon_id))
                     \/ k = "gridsquare" /\ v = Some(Text(c.microwaveprop[1].gridsquare))
                     \/ k = "config_version" /\ v = Some(Number(c.microwaveprop[1].config_version))
               \/ /\ b = "update"
                  /\ \/ k = "enabled" /\ v = Some(Flag(c.update.enabled))
                     \/ k = "auto" /\ v = Some(Flag(c.update.auto))
                     \/ k = "check_interval" /\ v = Some(Number(c.update.check_interval))
BY Entries DEF KidsOf, BeaconKids, MicrowavepropKids, UpdateKids, Plus

(* The file of a config asks nothing that is not there, but for the mode.  *)
LEMMA FileWellTyped ==
    ASSUME NEW c \in Sent, NEW doc, Tops(doc) = TopsOf(c), Kids(doc) = KidsOf(c),
           Get(doc, "mode") = Some(c.mode)
    PROVE  WellTyped(doc) <=> c.mode \in Modes
<1>1. \A key \in {"frequency", "mode"} : IsScalar(doc, key)
  <2>1. /\ Entry("frequency", Some(Number(c.frequency))) \in Tops(doc)
        /\ Entry("mode", Some(Text(c.mode))) \in Tops(doc)
    BY TopsSay
  <2>2. (\E i \in Top(doc, "frequency") : doc[i].val = Some(Number(c.frequency)))
        /\ \E i \in Top(doc, "mode") : doc[i].val = Some(Text(c.mode))
    BY <2>1, LineTop
  <2>3. QED BY <2>2, SomeIs DEF IsScalar
<1>2. ASSUME NEW key \in Scalars, IsMap(doc, key) PROVE FALSE
  <2>1. Entry(key, None) \in Tops(doc)
    BY <1>2, TopLine DEF IsMap
  <2>2. key \in {"beacon", "http", "microwaveprop", "update"}
    BY <2>1, TopsSay, SomeIs
  <2>3. QED BY <2>2 DEF Scalars
<1>3. ASSUME NEW key \in Blocks, IsScalar(doc, key) PROVE FALSE
  <2>1. PICK v : Entry(key, v) \in Tops(doc) /\ v # None
    BY <1>3, TopLine DEF IsScalar
  <2>2. key \notin {"beacon", "http", "microwaveprop", "update"}
    BY <2>1, TopsSay
  <2>3. QED BY <2>2 DEF Blocks
<1>4. ASSUME NEW i \in NumberLines(doc) PROVE doc[i].val[1][1] = "number"
  <2>1. CASE \E key \in Scalars \ {"mode", "driver"} : i \in Top(doc, key)
    <3>1. PICK key \in Scalars \ {"mode", "driver"} : i \in Top(doc, key)
      BY <2>1
    <3>2. Entry(key, doc[i].val) \in Tops(doc)
      BY <3>1, TopLine
    <3>3. \E n : doc[i].val = Some(Number(n))
      BY <3>2, TopsSay DEF Scalars
    <3>4. QED BY <3>3, SomeIs, Held
  <2>2. CASE \E key \in {"offset_hz", "bandwidth_hz"} : i \in Child(doc, "beacon", key)
    <3>1. PICK key \in {"offset_hz", "bandwidth_hz"} : i \in Child(doc, "beacon", key)
      BY <2>2
    <3>2. Sub("beacon", key, doc[i].val) \in Kids(doc)
      BY <3>1, ChildLine
    <3>3. \E n : doc[i].val = Some(Number(n))
      BY <3>2, KidsSay
    <3>4. QED BY <3>3, SomeIs, Held
  <2>3. CASE i \in Child(doc, "microwaveprop", "config_version")
    <3>1. Sub("microwaveprop", "config_version", doc[i].val) \in Kids(doc)
      BY <2>3, ChildLine
    <3>2. \E n : doc[i].val = Some(Number(n))
      BY <3>1, KidsSay
    <3>3. QED BY <3>2, SomeIs, Held
  <2>4. CASE i \in Child(doc, "update", "check_interval")
    <3>1. Sub("update", "check_interval", doc[i].val) \in Kids(doc)
      BY <2>4, ChildLine
    <3>2. \E n : doc[i].val = Some(Number(n))
      BY <3>1, KidsSay
    <3>3. QED BY <3>2, SomeIs, Held
  <2>5. QED BY <2>1, <2>2, <2>3, <2>4 DEF NumberLines
<1>5. ASSUME NEW i \in FlagLines(doc) PROVE doc[i].val[1][1] = "flag"
  <2>1. \E b \in {"microwaveprop", "update"}, key \in {"enabled", "auto"} :
            i \in Child(doc, b, key)
    BY DEF FlagLines
  <2>2. PICK b \in {"microwaveprop", "update"}, key \in {"enabled", "auto"} :
            i \in Child(doc, b, key)
    BY <2>1
  <2>3. Sub(b, key, doc[i].val) \in Kids(doc)
    BY <2>2, ChildLine
  <2>4. \E x : doc[i].val = Some(Flag(x))
    BY <2>3, KidsSay
  <2>5. QED BY <2>4, SomeIs, Held
<1>6. ASSUME NEW i \in CountLines(doc) PROVE doc[i].val[1][2] >= 0
  <2>1. c.period_seconds \in Nat /\ c.update \in UpdateConfig
    BY DEF Sent
  <2>2. CASE i \in Top(doc, "period_seconds")
    <3>1. Entry("period_seconds", doc[i].val) \in Tops(doc)
      BY <2>2, TopLine
    <3>2. doc[i].val = Some(Number(c.period_seconds))
      BY <3>1, TopsSay
    <3>3. QED BY <2>1, <3>2, SomeIs, Held
  <2>3. CASE i \in Child(doc, "microwaveprop", "config_version")
    <3>1. Sub("microwaveprop", "config_version", doc[i].val) \in Kids(doc)
      BY <2>3, ChildLine
    <3>2. c.microwaveprop # None /\ doc[i].val = Some(Number(c.microwaveprop[1].config_version))
      BY <3>1, KidsSay
    <3>3. c.microwaveprop[1] \in MicrowavepropConfig
      BY <3>2, OptOf, SomeIs DEF Sent
    <3>4. c.microwaveprop[1].config_version >= 0
      BY <3>3 DEF MicrowavepropConfig
    <3>5. QED BY <3>2, <3>4, SomeIs, Held
  <2>4. CASE i \in Child(doc, "update", "check_interval")
    <3>1. Sub("update", "check_interval", doc[i].val) \in Kids(doc)
      BY <2>4, ChildLine
    <3>2. doc[i].val = Some(Number(c.update.check_interval))
      BY <3>1, KidsSay
    <3>3. c.update.check_interval >= 0
      BY <2>1 DEF UpdateConfig
    <3>4. QED BY <3>2, <3>3, SomeIs, Held
  <2>5. QED BY <2>2, <2>3, <2>4 DEF CountLines
<1>7. Get(doc, "mode")[1] = c.mode
  BY SomeIs
<1>8. QED BY <1>1, <1>2, <1>3, <1>4, <1>5, <1>6, <1>7 DEF WellTyped

(* What its scalars read as.                                               *)
LEMMA ScalarsBack ==
    ASSUME NEW c \in Sent, NEW doc, Tops(doc) = TopsOf(c)
    PROVE  /\ Get(doc, "frequency") = Some(c.frequency) /\ Get(doc, "mode") = Some(c.mode)
           /\ Get(doc, "driver") = Some(c.driver) /\ Get(doc, "sample_rate") = Some(c.sample_rate)
           /\ Get(doc, "gain") = c.gain /\ Get(doc, "ppm") = Some(c.ppm)
           /\ Get(doc, "period_seconds") = Some(c.period_seconds)
<1>1. Get(doc, "frequency") = Some(Number(c.frequency)[2])
  <2>1. Entry("frequency", Some(Number(c.frequency))) \in Tops(doc)
    BY TopsSay
  <2>2. \A v : Entry("frequency", v) \in Tops(doc) => v = Some(Number(c.frequency))
    BY TopsSay
  <2>3. QED BY <2>1, <2>2, ReadsTop
<1>2. Get(doc, "mode") = Some(Text(c.mode)[2])
  <2>1. Entry("mode", Some(Text(c.mode))) \in Tops(doc)
    BY TopsSay
  <2>2. \A v : Entry("mode", v) \in Tops(doc) => v = Some(Text(c.mode))
    BY TopsSay
  <2>3. QED BY <2>1, <2>2, ReadsTop
<1>3. Get(doc, "driver") = Some(Text(c.driver)[2])
  <2>1. Entry("driver", Some(Text(c.driver))) \in Tops(doc)
    BY TopsSay
  <2>2. \A v : Entry("driver", v) \in Tops(doc) => v = Some(Text(c.driver))
    BY TopsSay
  <2>3. QED BY <2>1, <2>2, ReadsTop
<1>4. Get(doc, "sample_rate") = Some(Number(c.sample_rate)[2])
  <2>1. Entry("sample_rate", Some(Number(c.sample_rate))) \in Tops(doc)
    BY TopsSay
  <2>2. \A v : Entry("sample_rate", v) \in Tops(doc) => v = Some(Number(c.sample_rate))
    BY TopsSay
  <2>3. QED BY <2>1, <2>2, ReadsTop
<1>5. Get(doc, "ppm") = Some(Number(c.ppm)[2])
  <2>1. Entry("ppm", Some(Number(c.ppm))) \in Tops(doc)
    BY TopsSay
  <2>2. \A v : Entry("ppm", v) \in Tops(doc) => v = Some(Number(c.ppm))
    BY TopsSay
  <2>3. QED BY <2>1, <2>2, ReadsTop
<1>6. Get(doc, "period_seconds") = Some(Number(c.period_seconds)[2])
  <2>1. Entry("period_seconds", Some(Number(c.period_seconds))) \in Tops(doc)
    BY TopsSay
  <2>2. \A v : Entry("period_seconds", v) \in Tops(doc) => v = Some(Number(c.period_seconds))
    BY TopsSay
  <2>3. QED BY <2>1, <2>2, ReadsTop
<1>7. Get(doc, "gain") = c.gain
  <2>1. CASE c.gain = None
    <3>1. \A v : Entry("gain", v) \notin Tops(doc)
      BY <2>1, TopsSay
    <3>2. QED BY <2>1, <3>1, ReadsNoTop
  <2>2. CASE c.gain # None
    <3>1. Get(doc, "gain") = Some(Number(c.gain[1])[2])
      <4>1. Entry("gain", Some(Number(c.gain[1]))) \in Tops(doc)
        BY <2>2, TopsSay
      <4>2. \A v : Entry("gain", v) \in Tops(doc) => v = Some(Number(c.gain[1]))
        BY TopsSay
      <4>3. QED BY <4>1, <4>2, ReadsTop
    <3>2. c.gain = Some(c.gain[1])
      BY <2>2, OptOf, SomeIs DEF Sent
    <3>3. QED BY <3>1, <3>2, Held
  <2>3. QED BY <2>1, <2>2
<1>8. QED BY <1>1, <1>2, <1>3, <1>4, <1>5, <1>6, <1>7, Held

(* What its blocks read as.                                                *)
LEMMA BeaconBack ==
    ASSUME NEW c \in Sent, NEW doc \in Seq(AnyLine), Rooted(doc), Tops(doc) = TopsOf(c),
           Kids(doc) = KidsOf(c)
    PROVE  ReadBeacon(doc) = c.beacon
<1>1. CASE c.beacon = None
  <2>1. \A v : Entry("beacon", v) \notin Tops(doc)
    BY <1>1, TopsSay
  <2>2. QED BY <1>1, <2>1, ReadsNoTop DEF ReadBeacon
<1>2. CASE c.beacon # None
  <2>. DEFINE b == c.beacon[1]
  <2>1. c.beacon = Some(b) /\ b \in BeaconConfig
    BY <1>2, OptOf, SomeIs DEF Sent
  <2>2. Entry("beacon", None) \in Tops(doc)
    BY <1>2, TopsSay
  <2>3. IsMap(doc, "beacon")
    BY <2>2, LineTop DEF IsMap
  <2>4. GetIn(doc, "beacon", "offset_hz") = Some(Number(b.offset_hz)[2])
    <3>1. Sub("beacon", "offset_hz", Some(Number(b.offset_hz))) \in Kids(doc)
      BY <1>2, KidsSay
    <3>2. \A v : Sub("beacon", "offset_hz", v) \in Kids(doc) => v = Some(Number(b.offset_hz))
      BY KidsSay
    <3>3. QED BY <3>1, <3>2, ReadsChild
  <2>5. GetIn(doc, "beacon", "bandwidth_hz") = Some(Number(b.bandwidth_hz)[2])
    <3>1. Sub("beacon", "bandwidth_hz", Some(Number(b.bandwidth_hz))) \in Kids(doc)
      BY <1>2, KidsSay
    <3>2. \A v : Sub("beacon", "bandwidth_hz", v) \in Kids(doc) =>
                     v = Some(Number(b.bandwidth_hz))
      BY KidsSay
    <3>3. QED BY <3>1, <3>2, ReadsChild
  <2>. HIDE DEF b
  <2>6. ReadBeacon(doc) = Some([offset_hz |-> b.offset_hz, bandwidth_hz |-> b.bandwidth_hz])
    BY <2>3, <2>4, <2>5, SomeIs, Held DEF ReadBeacon, UnwrapOr
  <2>7. [offset_hz |-> b.offset_hz, bandwidth_hz |-> b.bandwidth_hz] = b
    BY <2>1 DEF BeaconConfig
  <2>8. QED BY <2>1, <2>6, <2>7
<1>3. QED BY <1>1, <1>2

(* The http block, read from its line.                                     *)
LEMMA HttpRead ==
    ASSUME NEW http \in HttpConfig, NEW doc,
           GetIn(doc, "http", "bind") = Some(Text(http.bind)[2])
    PROVE  ReadHttp(doc) = http
<1>1. http = [bind |-> http.bind]
  BY DEF HttpConfig
<1>2. ReadHttp(doc) = [bind |-> http.bind]
  BY SomeIs, Held DEF ReadHttp, UnwrapOr
<1>3. QED BY <1>1, <1>2

(* So it is in the file of a config.                                       *)
LEMMA HttpBack ==
    ASSUME NEW c \in Sent, NEW doc \in Seq(AnyLine), Rooted(doc), Kids(doc) = KidsOf(c)
    PROVE  ReadHttp(doc) = c.http
<1>1. GetIn(doc, "http", "bind") = Some(Text(c.http.bind)[2])
  <2>1. Sub("http", "bind", Some(Text(c.http.bind))) \in Kids(doc)
    BY KidsSay
  <2>2. \A v : Sub("http", "bind", v) \in Kids(doc) => v = Some(Text(c.http.bind))
    BY KidsSay
  <2>3. QED BY <2>1, <2>2, ReadsChild
<1>2. c.http \in HttpConfig
  BY DEF Sent
<1>3. QED BY <1>1, <1>2, HttpRead

(* The microwaveprop block, read from its lines.                           *)
LEMMA MicrowavepropRead ==
    ASSUME NEW m \in MicrowavepropConfig, NEW doc, IsMap(doc, "microwaveprop"),
           GetIn(doc, "microwaveprop", "enabled") = Some(Flag(m.enabled)[2]),
           GetIn(doc, "microwaveprop", "monitor_token") = Some(Text(m.monitor_token)[2]),
           GetIn(doc, "microwaveprop", "beacon_id") = Some(Text(m.beacon_id)[2]),
           GetIn(doc, "microwaveprop", "gridsquare") = Some(Text(m.gridsquare)[2]),
           GetIn(doc, "microwaveprop", "config_version") = Some(Number(m.config_version)[2])
    PROVE  ReadMicrowaveprop(doc) = Some(m)
<1>1. UnwrapOr(GetIn(doc, "microwaveprop", "enabled"), TRUE) = m.enabled
  <2>1. GetIn(doc, "microwaveprop", "enabled") = Some(m.enabled)
    BY Held
  <2>2. QED BY <2>1, Unwrapped, Zenon
<1>2. UnwrapOr(GetIn(doc, "microwaveprop", "monitor_token"), NoText) = m.monitor_token
  BY Held, Unwrapped
<1>3. UnwrapOr(GetIn(doc, "microwaveprop", "beacon_id"), NoText) = m.beacon_id
  BY Held, Unwrapped
<1>4. UnwrapOr(GetIn(doc, "microwaveprop", "gridsquare"), NoText) = m.gridsquare
  BY Held, Unwrapped
<1>5. UnwrapOr(GetIn(doc, "microwaveprop", "config_version"), 0) = m.config_version
  BY Held, Unwrapped
<1>6. ReadMicrowaveprop(doc) =
          Some([enabled |-> m.enabled, monitor_token |-> m.monitor_token,
                beacon_id |-> m.beacon_id, gridsquare |-> m.gridsquare,
                config_version |-> m.config_version])
  BY <1>1, <1>2, <1>3, <1>4, <1>5 DEF ReadMicrowaveprop
<1>7. [enabled |-> m.enabled, monitor_token |-> m.monitor_token, beacon_id |-> m.beacon_id,
       gridsquare |-> m.gridsquare, config_version |-> m.config_version] = m
  BY DEF MicrowavepropConfig
<1>8. QED BY <1>6, <1>7

(* So it is in the file of a config.                                       *)
LEMMA MicrowavepropBack ==
    ASSUME NEW c \in Sent, NEW doc \in Seq(AnyLine), Rooted(doc), Tops(doc) = TopsOf(c),
           Kids(doc) = KidsOf(c)
    PROVE  ReadMicrowaveprop(doc) = c.microwaveprop
<1>1. CASE c.microwaveprop = None
  <2>1. \A v : Entry("microwaveprop", v) \notin Tops(doc)
    BY <1>1, TopsSay
  <2>2. QED BY <1>1, <2>1, ReadsNoTop DEF ReadMicrowaveprop
<1>2. CASE c.microwaveprop # None
  <2>. DEFINE m == c.microwaveprop[1]
  <2>1. c.microwaveprop = Some(m) /\ m \in MicrowavepropConfig
    BY <1>2, OptOf, SomeIs DEF Sent
  <2>2. Entry("microwaveprop", None) \in Tops(doc)
    BY <1>2, TopsSay
  <2>3. IsMap(doc, "microwaveprop")
    BY <2>2, LineTop DEF IsMap
  <2>4. GetIn(doc, "microwaveprop", "enabled") = Some(Flag(m.enabled)[2])
    <3>1. Sub("microwaveprop", "enabled", Some(Flag(m.enabled))) \in Kids(doc)
      BY <1>2, KidsSay
    <3>2. \A v : Sub("microwaveprop", "enabled", v) \in Kids(doc) => v = Some(Flag(m.enabled))
      BY KidsSay
    <3>3. QED BY <3>1, <3>2, ReadsChild
  <2>5. GetIn(doc, "microwaveprop", "monitor_token") = Some(Text(m.monitor_token)[2])
    <3>1. Sub("microwaveprop", "monitor_token", Some(Text(m.monitor_token))) \in Kids(doc)
      BY <1>2, KidsSay
    <3>2. \A v : Sub("microwaveprop", "monitor_token", v) \in Kids(doc) =>
                     v = Some(Text(m.monitor_token))
      BY KidsSay
    <3>3. QED BY <3>1, <3>2, ReadsChild
  <2>6. GetIn(doc, "microwaveprop", "beacon_id") = Some(Text(m.beacon_id)[2])
    <3>1. Sub("microwaveprop", "beacon_id", Some(Text(m.beacon_id))) \in Kids(doc)
      BY <1>2, KidsSay
    <3>2. \A v : Sub("microwaveprop", "beacon_id", v) \in Kids(doc) => v = Some(Text(m.beacon_id))
      BY KidsSay
    <3>3. QED BY <3>1, <3>2, ReadsChild
  <2>7. GetIn(doc, "microwaveprop", "gridsquare") = Some(Text(m.gridsquare)[2])
    <3>1. Sub("microwaveprop", "gridsquare", Some(Text(m.gridsquare))) \in Kids(doc)
      BY <1>2, KidsSay
    <3>2. \A v : Sub("microwaveprop", "gridsquare", v) \in Kids(doc) =>
                     v = Some(Text(m.gridsquare))
      BY KidsSay
    <3>3. QED BY <3>1, <3>2, ReadsChild
  <2>8. GetIn(doc, "microwaveprop", "config_version") = Some(Number(m.config_version)[2])
    <3>1. Sub("microwaveprop", "config_version", Some(Number(m.config_version))) \in Kids(doc)
      BY <1>2, KidsSay
    <3>2. \A v : Sub("microwaveprop", "config_version", v) \in Kids(doc) =>
                     v = Some(Number(m.config_version))
      BY KidsSay
    <3>3. QED BY <3>1, <3>2, ReadsChild
  <2>9. QED BY <2>1, <2>3, <2>4, <2>5, <2>6, <2>7, <2>8, MicrowavepropRead
<1>3. QED BY <1>1, <1>2

(* The update block, read from its lines.                                  *)
LEMMA UpdateRead ==
    ASSUME NEW u \in UpdateConfig, NEW doc, IsMap(doc, "update"),
           GetIn(doc, "update", "enabled") = Some(Flag(u.enabled)[2]),
           GetIn(doc, "update", "auto") = Some(Flag(u.auto)[2]),
           GetIn(doc, "update", "check_interval") = Some(Number(u.check_interval)[2])
    PROVE  ReadUpdate(doc) = u
<1>1. UnwrapOr(GetIn(doc, "update", "enabled"), TRUE) = u.enabled
  <2>1. GetIn(doc, "update", "enabled") = Some(u.enabled)
    BY Held
  <2>2. QED BY <2>1, Unwrapped, Zenon
<1>2. UnwrapOr(GetIn(doc, "update", "auto"), TRUE) = u.auto
  <2>1. GetIn(doc, "update", "auto") = Some(u.auto)
    BY Held
  <2>2. QED BY <2>1, Unwrapped, Zenon
<1>3. UnwrapOr(GetIn(doc, "update", "check_interval"), DEFAULT_CHECK_INTERVAL) =
          u.check_interval
  BY Held, Unwrapped
<1>4. ReadUpdate(doc) =
          [enabled |-> u.enabled, auto |-> u.auto, check_interval |-> u.check_interval]
  BY <1>1, <1>2, <1>3 DEF ReadUpdate
<1>5. [enabled |-> u.enabled, auto |-> u.auto, check_interval |-> u.check_interval] = u
  BY DEF UpdateConfig
<1>6. QED BY <1>4, <1>5

(* So it is in the file of a config.                                       *)
LEMMA UpdateBack ==
    ASSUME NEW c \in Sent, NEW doc \in Seq(AnyLine), Rooted(doc), Tops(doc) = TopsOf(c),
           Kids(doc) = KidsOf(c)
    PROVE  ReadUpdate(doc) = c.update
<1>. DEFINE u == c.update
<1>1. u \in UpdateConfig
  BY DEF Sent
<1>2. IsMap(doc, "update")
  <2>1. Entry("update", None) \in Tops(doc)
    BY TopsSay
  <2>2. QED BY <2>1, LineTop DEF IsMap
<1>3. GetIn(doc, "update", "enabled") = Some(Flag(u.enabled)[2])
  <2>1. Sub("update", "enabled", Some(Flag(u.enabled))) \in Kids(doc)
    BY KidsSay
  <2>2. \A v : Sub("update", "enabled", v) \in Kids(doc) => v = Some(Flag(u.enabled))
    BY KidsSay
  <2>3. QED BY <2>1, <2>2, ReadsChild
<1>4. GetIn(doc, "update", "auto") = Some(Flag(u.auto)[2])
  <2>1. Sub("update", "auto", Some(Flag(u.auto))) \in Kids(doc)
    BY KidsSay
  <2>2. \A v : Sub("update", "auto", v) \in Kids(doc) => v = Some(Flag(u.auto))
    BY KidsSay
  <2>3. QED BY <2>1, <2>2, ReadsChild
<1>5. GetIn(doc, "update", "check_interval") = Some(Number(u.check_interval)[2])
  <2>1. Sub("update", "check_interval", Some(Number(u.check_interval))) \in Kids(doc)
    BY KidsSay
  <2>2. \A v : Sub("update", "check_interval", v) \in Kids(doc) =>
                   v = Some(Number(u.check_interval))
    BY KidsSay
  <2>3. QED BY <2>1, <2>2, ReadsChild
<1>6. QED BY <1>1, <1>2, <1>3, <1>4, <1>5, UpdateRead

(* The texts of a config have no line break.                               *)
Whole(c) ==
    /\ c.driver \notin Broken /\ c.http.bind \notin Broken
    /\ c.microwaveprop # None =>
          LET m == c.microwaveprop[1] IN
          m.monitor_token \notin Broken /\ m.beacon_id \notin Broken /\ m.gridsquare \notin Broken

(* So they are if no text that is written has one.                         *)
LEMMA TextsAre ==
    ASSUME NEW c
    PROVE  TextsOf(c) \cap Broken = {} <=> Whole(c)
<1>1. \A t : t \in TextsOf(c) <=>
          \/ t = c.driver \/ t = c.http.bind
          \/ /\ c.microwaveprop # None
             /\ \/ t = c.microwaveprop[1].monitor_token \/ t = c.microwaveprop[1].beacon_id
                \/ t = c.microwaveprop[1].gridsquare
  BY DEF TextsOf, MicrowavepropTexts, Plus
<1>2. TextsOf(c) \cap Broken = {} <=> \A t \in TextsOf(c) : t \notin Broken
  OBVIOUS
<1>3. QED BY <1>1, <1>2 DEF Whole

(* A file that was written comes back as the config it was written from,   *)
(* or not at all.                                                          *)
LEMMA ComesBackAs ==
    ASSUME NEW c \in Sent
    PROVE  FromYaml(FileOf(c)) =
               IF Whole(c) /\ c.mode \in Modes /\ Validate(c) THEN Some(c) ELSE None
<1>. DEFINE doc == FileOf(c)
<1>1. /\ doc \in Seq(AnyLine) /\ Rooted(doc) /\ Tops(doc) = TopsOf(c) /\ Kids(doc) = KidsOf(c)
      /\ Parses(doc) <=> Whole(c)
  BY FileDoc, TextsAre DEF Doc
<1>. HIDE DEF doc
<1>2. /\ Get(doc, "frequency") = Some(c.frequency) /\ Get(doc, "mode") = Some(c.mode)
      /\ Get(doc, "driver") = Some(c.driver) /\ Get(doc, "sample_rate") = Some(c.sample_rate)
      /\ Get(doc, "gain") = c.gain /\ Get(doc, "ppm") = Some(c.ppm)
      /\ Get(doc, "period_seconds") = Some(c.period_seconds)
  BY <1>1, ScalarsBack
<1>3. WellTyped(doc) <=> c.mode \in Modes
  BY <1>1, <1>2, FileWellTyped
<1>4. /\ ReadBeacon(doc) = c.beacon /\ ReadHttp(doc) = c.http
      /\ ReadMicrowaveprop(doc) = c.microwaveprop /\ ReadUpdate(doc) = c.update
  BY <1>1, BeaconBack, HttpBack, MicrowavepropBack, UpdateBack
<1>. DEFINE read == [frequency |-> ReadScalars(doc).frequency, mode |-> ReadScalars(doc).mode,
                     driver |-> ReadScalars(doc).driver,
                     sample_rate |-> ReadScalars(doc).sample_rate, gain |-> ReadScalars(doc).gain,
                     ppm |-> ReadScalars(doc).ppm,
                     period_seconds |-> ReadScalars(doc).period_seconds,
                     beacon |-> ReadBeacon(doc), http |-> ReadHttp(doc),
                     microwaveprop |-> ReadMicrowaveprop(doc), update |-> ReadUpdate(doc)]
<1>5. read = [frequency |-> c.frequency, mode |-> c.mode, driver |-> c.driver,
              sample_rate |-> c.sample_rate, gain |-> c.gain, ppm |-> c.ppm,
              period_seconds |-> c.period_seconds, beacon |-> c.beacon, http |-> c.http,
              microwaveprop |-> c.microwaveprop, update |-> c.update]
  BY <1>2, <1>4, SomeIs DEF ReadScalars, UnwrapOr
<1>6. read = c
  BY <1>5 DEF Sent
<1>7. FromYaml(doc) =
          IF ~(Parses(doc) /\ WellTyped(doc)) THEN None
          ELSE IF Validate(read) THEN Some(read) ELSE None
  BY DEF FromYaml
<1>. HIDE DEF read
<1>8. QED BY <1>1, <1>3, <1>6, <1>7 DEF doc

-----------------------------------------------------------------------------
(* A file somebody wrote                                                   *)

(* A value is of the kind it says.                                         *)
LEMMA ValueIs ==
    ASSUME NEW w \in Value
    PROVE  /\ w[1] = "number" => w[2] \in Int
           /\ w[1] = "flag" => w[2] \in BOOLEAN
           /\ w[1] = "text" => w[2] \in Texts
<1>1. CASE w \in {"number"} \X Int
  BY <1>1
<1>2. CASE w \in {"flag"} \X BOOLEAN
  BY <1>2
<1>3. CASE w \in {"text"} \X Texts
  BY <1>3
<1>4. QED BY <1>1, <1>2, <1>3 DEF Value

(* The default address is one.                                             *)
LEMMA DefaultBindIs == DefaultBind # NoText
BY Zenon DEF DefaultBind, NoText

(* What can be read on a line.                                             *)
LEMMA HandLine ==
    ASSUME NEW doc \in Seq(Written), Parses(doc), NEW i \in DOMAIN doc, doc[i].val # None
    PROVE  LET w == doc[i].val[1] IN
           /\ w[1] = "number" => w[2] \in Int
           /\ w[1] = "flag" => w[2] \in BOOLEAN
           /\ w[1] = "text" => w[2] \in Texts /\ w[2] \notin Broken
           /\ doc[i].key \in TextKeys => w[1] = "text"
           /\ doc[i].key = "bind" => w[2] \in Addresses
<1>. DEFINE line == doc[i]
            w == line.val[1]
<1>1. line \in Written
  OBVIOUS
<1>2. line.whole
  BY DEF Parses, LineReads
<1>. HIDE DEF line
<1>3. line.val \in Opt(Value) /\ line.val # None
  BY <1>1 DEF Written, Value, line
<1>4. w \in Value
  BY <1>3, OptOf, SomeIs
<1>5. /\ line.key \in TextKeys => w[1] = "text"
      /\ w[1] = "text" => line.whole = (w[2] \notin Broken)
      /\ line.key = "bind" => w[2] \in Addresses
  BY <1>1, <1>3 DEF Written
<1>6. w[1] = "text" => w[2] \notin Broken
  BY <1>2, <1>5
<1>7. QED BY <1>4, <1>5, <1>6, ValueIs DEF line

(* The value under a key is on one of its lines.                           *)
LEMMA GetIs ==
    ASSUME NEW doc, NEW key
    PROVE  Get(doc, key) = None \/ \E i \in Top(doc, key) : Get(doc, key) = Some(doc[i].val[1][2])
BY DEF Get, ScalarAt

(* What is read under a block stands on a line there.                      *)
LEMMA GetInIs ==
    ASSUME NEW doc, NEW block, NEW key
    PROVE  \/ GetIn(doc, block, key) = None
           \/ \E i \in Child(doc, block, key) : GetIn(doc, block, key) = Some(doc[i].val[1][2])
BY DEF GetIn, ScalarAt

(* A scalar at the top that reads.                                         *)
LEMMA HandTop ==
    ASSUME NEW doc \in Seq(Written), Parses(doc), WellTyped(doc), NEW key \in Scalars,
           NEW i \in Top(doc, key)
    PROVE  i \in DOMAIN doc /\ doc[i].key = key /\ doc[i].val # None
BY DEF WellTyped, IsMap, Top

(* A line under a block holds something.                                   *)
LEMMA HandChild ==
    ASSUME NEW doc \in Seq(Written), Parses(doc), NEW block, NEW key,
           NEW i \in Child(doc, block, key)
    PROVE  i \in DOMAIN doc /\ doc[i].key = key /\ doc[i].val # None
<1>1. i \in DOMAIN doc /\ doc[i].key = key /\ doc[i].indent = 2
  BY DEF Child
<1>2. LineReads(doc, i)
  BY <1>1 DEF Parses
<1>3. QED BY <1>1, <1>2 DEF LineReads

(* The numbers, the counts, the texts and the flags of a file.             *)
LEMMA HandNumber ==
    ASSUME NEW doc \in Seq(Written), Parses(doc), WellTyped(doc),
           NEW key \in Scalars \ {"mode", "driver"}
    PROVE  Get(doc, key) \in Opt(Int)
<1>1. CASE Get(doc, key) = None
  BY <1>1, OptOf
<1>2. ASSUME NEW i \in Top(doc, key), Get(doc, key) = Some(doc[i].val[1][2])
      PROVE  Get(doc, key) \in Opt(Int)
  <2>1. i \in NumberLines(doc)
    BY DEF NumberLines
  <2>2. doc[i].val[1][1] = "number"
    BY <2>1 DEF WellTyped
  <2>3. doc[i].val[1][2] \in Int
    BY <2>2, HandTop, HandLine
  <2>4. QED BY <1>2, <2>3, OptOf
<1>3. QED BY <1>1, <1>2, GetIs

(* The period is not negative.                                             *)
LEMMA HandPeriod ==
    ASSUME NEW doc \in Seq(Written), Parses(doc), WellTyped(doc)
    PROVE  Get(doc, "period_seconds") \in Opt(Nat)
<1>1. "period_seconds" \in Scalars \ {"mode", "driver"}
  BY DEF Scalars
<1>2. Get(doc, "period_seconds") \in Opt(Int)
  BY <1>1, HandNumber
<1>3. CASE Get(doc, "period_seconds") = None
  BY <1>3, OptOf
<1>4. ASSUME NEW i \in Top(doc, "period_seconds"),
             Get(doc, "period_seconds") = Some(doc[i].val[1][2])
      PROVE  Get(doc, "period_seconds") \in Opt(Nat)
  <2>1. doc[i].val[1][2] >= 0
    BY DEF CountLines, WellTyped
  <2>2. doc[i].val[1][2] \in Int
    BY <1>2, <1>4, OptOf, SomeIs
  <2>3. doc[i].val[1][2] \in Nat
    BY <2>1, <2>2
  <2>4. QED BY <1>4, <2>3, OptOf
<1>5. QED BY <1>3, <1>4, GetIs

(* The driver has no line break.                                           *)
LEMMA HandDriver ==
    ASSUME NEW doc \in Seq(Written), Parses(doc), WellTyped(doc)
    PROVE  Get(doc, "driver") \in Opt(Texts \ Broken)
<1>1. CASE Get(doc, "driver") = None
  BY <1>1, OptOf
<1>2. ASSUME NEW i \in Top(doc, "driver"), Get(doc, "driver") = Some(doc[i].val[1][2])
      PROVE  Get(doc, "driver") \in Opt(Texts \ Broken)
  <2>1. "driver" \in Scalars /\ "driver" \in TextKeys
    BY DEF Scalars, TextKeys
  <2>2. doc[i].val[1][2] \in Texts \ Broken
    BY <2>1, HandTop, HandLine
  <2>3. QED BY <1>2, <2>2, OptOf
<1>3. QED BY <1>1, <1>2, GetIs

(* Nor has a text under a block, and the bind is an address.               *)
LEMMA HandText ==
    ASSUME NEW doc \in Seq(Written), Parses(doc), NEW block, NEW key \in TextKeys
    PROVE  /\ GetIn(doc, block, key) \in Opt(Texts \ Broken)
           /\ key = "bind" => GetIn(doc, block, key) \in Opt(Addresses \ Broken)
<1>1. CASE GetIn(doc, block, key) = None
  BY <1>1, OptOf
<1>2. ASSUME NEW i \in Child(doc, block, key), GetIn(doc, block, key) = Some(doc[i].val[1][2])
      PROVE  /\ GetIn(doc, block, key) \in Opt(Texts \ Broken)
             /\ key = "bind" => GetIn(doc, block, key) \in Opt(Addresses \ Broken)
  <2>1. doc[i].val[1][2] \in Texts \ Broken /\ (key = "bind" => doc[i].val[1][2] \in Addresses)
    BY HandChild, HandLine
  <2>2. QED BY <1>2, <2>1, OptOf
<1>3. QED BY <1>1, <1>2, GetInIs

(* What has to be a flag is one.                                           *)
LEMMA HandFlag ==
    ASSUME NEW doc \in Seq(Written), Parses(doc), WellTyped(doc), NEW block, NEW key,
           Child(doc, block, key) \subseteq FlagLines(doc)
    PROVE  GetIn(doc, block, key) \in Opt(BOOLEAN)
<1>1. CASE GetIn(doc, block, key) = None
  BY <1>1, OptOf
<1>2. ASSUME NEW i \in Child(doc, block, key), GetIn(doc, block, key) = Some(doc[i].val[1][2])
      PROVE  GetIn(doc, block, key) \in Opt(BOOLEAN)
  <2>1. doc[i].val[1][1] = "flag"
    BY DEF WellTyped
  <2>2. doc[i].val[1][2] \in BOOLEAN
    BY <2>1, HandChild, HandLine
  <2>3. QED BY <1>2, <2>2, OptOf
<1>3. QED BY <1>1, <1>2, GetInIs

(* What has to be a number is one.                                         *)
LEMMA HandOffset ==
    ASSUME NEW doc \in Seq(Written), Parses(doc), WellTyped(doc), NEW block, NEW key,
           Child(doc, block, key) \subseteq NumberLines(doc)
    PROVE  GetIn(doc, block, key) \in Opt(Int)
<1>1. CASE GetIn(doc, block, key) = None
  BY <1>1, OptOf
<1>2. ASSUME NEW i \in Child(doc, block, key), GetIn(doc, block, key) = Some(doc[i].val[1][2])
      PROVE  GetIn(doc, block, key) \in Opt(Int)
  <2>1. doc[i].val[1][1] = "number"
    BY DEF WellTyped
  <2>2. doc[i].val[1][2] \in Int
    BY <2>1, HandChild, HandLine
  <2>3. QED BY <1>2, <2>2, OptOf
<1>3. QED BY <1>1, <1>2, GetInIs

(* What has to be unsigned is.                                             *)
LEMMA HandCount ==
    ASSUME NEW doc \in Seq(Written), Parses(doc), WellTyped(doc), NEW block, NEW key,
           Child(doc, block, key) \subseteq NumberLines(doc) \cap CountLines(doc)
    PROVE  GetIn(doc, block, key) \in Opt(Nat)
<1>1. CASE GetIn(doc, block, key) = None
  BY <1>1, OptOf
<1>2. ASSUME NEW i \in Child(doc, block, key), GetIn(doc, block, key) = Some(doc[i].val[1][2])
      PROVE  GetIn(doc, block, key) \in Opt(Nat)
  <2>1. doc[i].val[1][1] = "number" /\ doc[i].val[1][2] >= 0
    BY DEF WellTyped
  <2>2. doc[i].val[1][2] \in Int
    BY <2>1, HandChild, HandLine
  <2>3. doc[i].val[1][2] \in Nat
    BY <2>1, <2>2
  <2>4. QED BY <1>2, <2>3, OptOf
<1>3. QED BY <1>1, <1>2, GetInIs

(* What is read or its default.                                            *)
LEMMA Defaulted ==
    ASSUME NEW S, NEW o \in Opt(S), NEW default \in S
    PROVE  UnwrapOr(o, default) \in S
BY OptOf, SomeIs DEF UnwrapOr

(* A config that was loaded.                                               *)
Sound(c) == c \in Config /\ Whole(c) /\ Validate(c)

(* What stands in for an absent text may do so.                            *)
LEMMA DefaultsAre ==
    /\ NoText \in Texts \ Broken /\ "rtlsdr" \in Texts \ Broken
    /\ DefaultBind \in Addresses \ Broken
BY TextsAssumption, DefaultBindIs DEF Defaults, Addresses

(* The scalars of a document somebody wrote.                               *)
LEMMA LoadedScalars ==
    ASSUME NEW doc \in Seq(Written), Parses(doc), WellTyped(doc)
    PROVE  LET s == ReadScalars(doc) IN
           /\ s.frequency \in Int /\ s.mode \in Modes /\ s.sample_rate \in Int
           /\ s.gain \in Opt(Int) /\ s.driver \in Texts \ Broken /\ s.ppm \in Int
           /\ s.period_seconds \in Nat
<1>1. /\ Get(doc, "frequency") \in Opt(Int) /\ Get(doc, "sample_rate") \in Opt(Int)
      /\ Get(doc, "gain") \in Opt(Int) /\ Get(doc, "ppm") \in Opt(Int)
  BY HandNumber DEF Scalars
<1>2. Get(doc, "period_seconds") \in Opt(Nat) /\ Get(doc, "driver") \in Opt(Texts \ Broken)
  BY HandPeriod, HandDriver
<1>3. Get(doc, "frequency")[1] \in Int
  <2>1. PICK i \in Top(doc, "frequency") : TRUE
    BY DEF WellTyped, IsScalar
  <2>2. Get(doc, "frequency") # None
    BY <2>1, SomeIs DEF Get, ScalarAt
  <2>3. QED BY <1>1, <2>2, OptOf, SomeIs
<1>4. Get(doc, "mode")[1] \in Modes
  BY DEF WellTyped
<1>5. UnwrapOr(Get(doc, "sample_rate"), DefaultRate) \in Int
  BY <1>1, DefaultRate \in Int, Defaulted DEF DefaultRate
<1>6. UnwrapOr(Get(doc, "ppm"), 0) \in Int
  BY <1>1, 0 \in Int, Defaulted
<1>7. UnwrapOr(Get(doc, "period_seconds"), 60) \in Nat
  BY <1>2, 60 \in Nat, Defaulted
<1>8. UnwrapOr(Get(doc, "driver"), "rtlsdr") \in Texts \ Broken
  BY <1>2, DefaultsAre, Defaulted
<1>9. QED BY <1>1, <1>3, <1>4, <1>5, <1>6, <1>7, <1>8 DEF ReadScalars

(* Its beacon block.                                                       *)
LEMMA LoadedBeacon ==
    ASSUME NEW doc \in Seq(Written), Parses(doc), WellTyped(doc)
    PROVE  ReadBeacon(doc) \in Opt(BeaconConfig)
<1>1. /\ Child(doc, "beacon", "offset_hz") \subseteq NumberLines(doc)
      /\ Child(doc, "beacon", "bandwidth_hz") \subseteq NumberLines(doc)
  BY DEF NumberLines
<1>2. /\ GetIn(doc, "beacon", "offset_hz") \in Opt(Int)
      /\ GetIn(doc, "beacon", "bandwidth_hz") \in Opt(Int)
  BY <1>1, HandOffset
<1>. DEFINE offset == UnwrapOr(GetIn(doc, "beacon", "offset_hz"), 0)
            bandwidth == UnwrapOr(GetIn(doc, "beacon", "bandwidth_hz"), 1)
<1>3. offset \in Int /\ bandwidth \in Int
  BY <1>2, 0 \in Int, 1 \in Int, Defaulted
<1>4. ReadBeacon(doc) =
          IF ~IsMap(doc, "beacon") THEN None
          ELSE Some([offset_hz |-> offset, bandwidth_hz |-> bandwidth])
  BY DEF ReadBeacon
<1>. HIDE DEF offset, bandwidth
<1>5. [offset_hz |-> offset, bandwidth_hz |-> bandwidth] \in BeaconConfig
  BY <1>3 DEF BeaconConfig
<1>6. QED BY <1>4, <1>5, OptOf

(* Its http block.                                                         *)
LEMMA LoadedHttp ==
    ASSUME NEW doc \in Seq(Written), Parses(doc), WellTyped(doc)
    PROVE  ReadHttp(doc) \in HttpConfig /\ ReadHttp(doc).bind \notin Broken
<1>1. "bind" \in TextKeys
  BY DEF TextKeys
<1>2. GetIn(doc, "http", "bind") \in Opt(Addresses \ Broken)
  BY <1>1, HandText
<1>3. UnwrapOr(GetIn(doc, "http", "bind"), DefaultBind) \in Addresses \ Broken
  BY <1>2, DefaultsAre, Defaulted
<1>4. QED BY <1>3 DEF ReadHttp, HttpConfig

(* Its microwaveprop block.                                                *)
LEMMA LoadedMicrowaveprop ==
    ASSUME NEW doc \in Seq(Written), Parses(doc), WellTyped(doc)
    PROVE  LET m == ReadMicrowaveprop(doc) IN
           /\ m \in Opt(MicrowavepropConfig)
           /\ m # None => /\ m[1].monitor_token \notin Broken /\ m[1].beacon_id \notin Broken
                          /\ m[1].gridsquare \notin Broken
<1>. DEFINE get(key, default) == UnwrapOr(GetIn(doc, "microwaveprop", key), default)
            enabled == get("enabled", TRUE)
            token == get("monitor_token", NoText)
            id == get("beacon_id", NoText)
            grid == get("gridsquare", NoText)
            version == get("config_version", 0)
            m == [enabled |-> enabled, monitor_token |-> token, beacon_id |-> id,
                  gridsquare |-> grid, config_version |-> version]
<1>1. enabled \in BOOLEAN
  <2>1. Child(doc, "microwaveprop", "enabled") \subseteq FlagLines(doc)
    BY DEF FlagLines
  <2>2. GetIn(doc, "microwaveprop", "enabled") \in Opt(BOOLEAN)
    BY <2>1, HandFlag
  <2>3. TRUE \in BOOLEAN
    OBVIOUS
  <2>4. QED BY <2>2, <2>3, Defaulted, Zenon
<1>2. token \in Texts \ Broken /\ id \in Texts \ Broken /\ grid \in Texts \ Broken
  <2>1. "monitor_token" \in TextKeys /\ "beacon_id" \in TextKeys /\ "gridsquare" \in TextKeys
    BY DEF TextKeys
  <2>2. /\ GetIn(doc, "microwaveprop", "monitor_token") \in Opt(Texts \ Broken)
        /\ GetIn(doc, "microwaveprop", "beacon_id") \in Opt(Texts \ Broken)
        /\ GetIn(doc, "microwaveprop", "gridsquare") \in Opt(Texts \ Broken)
    BY <2>1, HandText
  <2>3. QED BY <2>2, DefaultsAre, Defaulted
<1>3. version \in Nat
  <2>1. Child(doc, "microwaveprop", "config_version")
            \subseteq NumberLines(doc) \cap CountLines(doc)
    BY DEF NumberLines, CountLines
  <2>2. GetIn(doc, "microwaveprop", "config_version") \in Opt(Nat)
    BY <2>1, HandCount
  <2>3. QED BY <2>2, 0 \in Nat, Defaulted
<1>4. ReadMicrowaveprop(doc) = IF ~IsMap(doc, "microwaveprop") THEN None ELSE Some(m)
  BY Zenon DEF ReadMicrowaveprop
<1>. HIDE DEF enabled, token, id, grid, version
<1>5. m \in MicrowavepropConfig
  BY <1>1, <1>2, <1>3 DEF MicrowavepropConfig
<1>6. /\ m.monitor_token \notin Broken /\ m.beacon_id \notin Broken
      /\ m.gridsquare \notin Broken
  BY <1>2
<1>. HIDE DEF m
<1>7. QED BY <1>4, <1>5, <1>6, OptOf, SomeIs

(* Its update block.                                                       *)
LEMMA LoadedUpdate ==
    ASSUME NEW doc \in Seq(Written), Parses(doc), WellTyped(doc)
    PROVE  ReadUpdate(doc) \in UpdateConfig
<1>. DEFINE get(key, default) == UnwrapOr(GetIn(doc, "update", key), default)
            enabled == get("enabled", TRUE)
            auto == get("auto", TRUE)
            interval == get("check_interval", DEFAULT_CHECK_INTERVAL)
            u == [enabled |-> enabled, auto |-> auto, check_interval |-> interval]
<1>1. enabled \in BOOLEAN /\ auto \in BOOLEAN
  <2>1. /\ Child(doc, "update", "enabled") \subseteq FlagLines(doc)
        /\ Child(doc, "update", "auto") \subseteq FlagLines(doc)
    BY DEF FlagLines
  <2>2. /\ GetIn(doc, "update", "enabled") \in Opt(BOOLEAN)
        /\ GetIn(doc, "update", "auto") \in Opt(BOOLEAN)
    BY <2>1, HandFlag
  <2>3. TRUE \in BOOLEAN
    OBVIOUS
  <2>4. QED BY <2>2, <2>3, Defaulted, Zenon
<1>2. interval \in Nat
  <2>1. Child(doc, "update", "check_interval") \subseteq NumberLines(doc) \cap CountLines(doc)
    BY DEF NumberLines, CountLines
  <2>2. GetIn(doc, "update", "check_interval") \in Opt(Nat)
    BY <2>1, HandCount
  <2>3. DEFAULT_CHECK_INTERVAL \in Nat
    BY DEF DEFAULT_CHECK_INTERVAL
  <2>4. QED BY <2>2, <2>3, Defaulted
<1>3. ReadUpdate(doc) = IF ~IsMap(doc, "update") THEN DefaultUpdate ELSE u
  BY Zenon DEF ReadUpdate
<1>. HIDE DEF enabled, auto, interval
<1>4. u \in UpdateConfig
  BY <1>1, <1>2 DEF UpdateConfig
<1>5. DefaultUpdate \in UpdateConfig
  BY DEF DefaultUpdate, UpdateConfig, DEFAULT_CHECK_INTERVAL
<1>6. QED BY <1>3, <1>4, <1>5

(* A file that loads gives a config of its type that passes validate.      *)
LEMMA LoadedSound ==
    ASSUME NEW doc \in Seq(Written), FromYaml(doc) # None
    PROVE  Sound(FromYaml(doc)[1])
<1>. DEFINE s == ReadScalars(doc)
            c == [frequency |-> s.frequency, mode |-> s.mode, driver |-> s.driver,
                  sample_rate |-> s.sample_rate, gain |-> s.gain, ppm |-> s.ppm,
                  period_seconds |-> s.period_seconds,
                  beacon |-> ReadBeacon(doc), http |-> ReadHttp(doc),
                  microwaveprop |-> ReadMicrowaveprop(doc), update |-> ReadUpdate(doc)]
<1>1. FromYaml(doc) = IF ~(Parses(doc) /\ WellTyped(doc)) THEN None
                      ELSE IF Validate(c) THEN Some(c) ELSE None
  BY DEF FromYaml
<1>2. Parses(doc) /\ WellTyped(doc)
  BY <1>1
<1>3. /\ s.frequency \in Int /\ s.mode \in Modes /\ s.sample_rate \in Int
      /\ s.gain \in Opt(Int) /\ s.driver \in Texts \ Broken /\ s.ppm \in Int
      /\ s.period_seconds \in Nat
  BY <1>2, LoadedScalars
<1>. HIDE DEF s
<1>4. c \in Config
  BY <1>2, <1>3, LoadedBeacon, LoadedHttp, LoadedMicrowaveprop, LoadedUpdate DEF Config
<1>5. Whole(c)
  BY <1>2, <1>3, LoadedHttp, LoadedMicrowaveprop DEF Whole
<1>. HIDE DEF c
<1>6. Validate(c) /\ FromYaml(doc)[1] = c
  BY <1>1, <1>2, SomeIs
<1>7. QED BY <1>4, <1>5, <1>6 DEF Sound

-----------------------------------------------------------------------------
(* A file with any word for a mode                                         *)

(* What YamlWriter writes is lines.                                        *)
LEMMA WrittenOpen ==
    ASSUME NEW key \in Key
    PROVE  NestedOpen(key) \in Seq(Written)
<1>. DEFINE line == [indent |-> 0, key |-> key, val |-> None, whole |-> TRUE]
<1>1. None \in Opt(Value)
  BY OptOf
<1>2. line \in Written
  BY <1>1 DEF Written, Value
<1>3. NestedOpen(key) = <<line>>
  BY DEF NestedOpen, Line
<1>. HIDE DEF line
<1>4. QED BY <1>2, <1>3

(* A number or a flag.                                                     *)
LEMMA WrittenScalar ==
    ASSUME NEW key \in Key \ TextKeys, NEW x \in Value, x[1] # "text"
    PROVE  Scalar(key, x) \in Seq(Written) /\ NestedScalar(key, x) \in Seq(Written)
<1>. DEFINE line(indent) == [indent |-> indent, key |-> key, val |-> Some(x), whole |-> TRUE]
<1>1. Some(x) \in Opt(Value) /\ Some(x)[1] = x
  BY OptOf, SomeIs
<1>2. key # "bind"
  BY DEF TextKeys
<1>3. line(0) \in Written /\ line(2) \in Written
  BY <1>1, <1>2 DEF Written, Value
<1>4. Scalar(key, x) = <<line(0)>> /\ NestedScalar(key, x) = <<line(2)>>
  BY DEF Scalar, NestedScalar, Line
<1>. HIDE DEF line
<1>5. QED BY <1>3, <1>4

(* A text.                                                                 *)
LEMMA WrittenString ==
    ASSUME NEW key \in Key, NEW t \in Texts, key = "bind" => t \in Addresses
    PROVE  String(key, t) \in Seq(Written) /\ NestedString(key, t) \in Seq(Written)
<1>. DEFINE line(indent) == [indent |-> indent, key |-> key, val |-> Some(Text(t)),
                             whole |-> t \notin Broken]
<1>1. Some(Text(t)) \in Opt(Value) /\ Some(Text(t))[1] = Text(t)
  BY Values, SomeIs
<1>2. Text(t)[1] = "text" /\ Text(t)[2] = t
  BY Held
<1>3. line(0) \in Written /\ line(2) \in Written
  BY <1>1, <1>2 DEF Written, Value
<1>4. String(key, t) = <<line(0)>> /\ NestedString(key, t) = <<line(2)>>
  BY DEF String, NestedString, Line
<1>. HIDE DEF line
<1>5. QED BY <1>3, <1>4

(* So are its blocks.                                                      *)
LEMMA WrittenBlocks ==
    ASSUME NEW c \in Sent
    PROVE  /\ GainFile(c) \in Seq(Written) /\ BeaconFile(c) \in Seq(Written)
           /\ NestedString("bind", c.http.bind) \in Seq(Written)
           /\ MicrowavepropFile(c) \in Seq(Written) /\ UpdateLines(c.update) \in Seq(Written)
<1>1. /\ "gain" \in Key \ TextKeys /\ "offset_hz" \in Key \ TextKeys
      /\ "bandwidth_hz" \in Key \ TextKeys /\ "enabled" \in Key \ TextKeys
      /\ "config_version" \in Key \ TextKeys /\ "auto" \in Key \ TextKeys
      /\ "check_interval" \in Key \ TextKeys /\ "bind" \in Key /\ "monitor_token" \in Key
      /\ "beacon_id" \in Key /\ "gridsquare" \in Key /\ "beacon" \in Key
      /\ "microwaveprop" \in Key /\ "update" \in Key
  BY DEF Key, Scalars, Blocks, TextKeys
<1>2. /\ "monitor_token" # "bind" /\ "beacon_id" # "bind" /\ "gridsquare" # "bind"
  OBVIOUS
<1>3. /\ \A n \in Int : Number(n) \in Value /\ Number(n)[1] # "text"
      /\ \A b \in BOOLEAN : Flag(b) \in Value /\ Flag(b)[1] # "text"
  BY Values, Held
<1>4. <<>> \in Seq(Written)
  OBVIOUS
<1>5. GainFile(c) \in Seq(Written)
  <2>1. CASE c.gain # None
    <3>1. c.gain[1] \in Int
      BY <2>1, OptOf, SomeIs DEF Sent
    <3>2. QED BY <1>1, <1>3, <2>1, <3>1, WrittenScalar DEF GainFile
  <2>2. QED BY <1>4, <2>1 DEF GainFile
<1>6. BeaconFile(c) \in Seq(Written)
  <2>1. CASE c.beacon # None
    <3>. DEFINE b == c.beacon[1]
    <3>1. b \in BeaconConfig
      BY <2>1, OptOf, SomeIs DEF Sent
    <3>2. b.offset_hz \in Int /\ b.bandwidth_hz \in Int
      BY <3>1 DEF BeaconConfig
    <3>3. /\ NestedOpen("beacon") \in Seq(Written)
          /\ NestedScalar("offset_hz", Number(b.offset_hz)) \in Seq(Written)
          /\ NestedScalar("bandwidth_hz", Number(b.bandwidth_hz)) \in Seq(Written)
      BY <1>1, <1>3, <3>2, WrittenOpen, WrittenScalar
    <3>4. BeaconLines(b) \in Seq(Written)
      BY <3>3, ConcatProperties DEF BeaconLines
    <3>5. QED BY <2>1, <3>4 DEF BeaconFile
  <2>2. QED BY <1>4, <2>1 DEF BeaconFile
<1>7. NestedString("bind", c.http.bind) \in Seq(Written)
  <2>1. c.http \in HttpConfig
    BY DEF Sent
  <2>2. c.http.bind \in Addresses /\ c.http.bind \in Texts
    BY <2>1 DEF HttpConfig, Addresses
  <2>3. QED BY <1>1, <2>2, WrittenString
<1>8. MicrowavepropFile(c) \in Seq(Written)
  <2>1. CASE c.microwaveprop # None
    <3>. DEFINE m == c.microwaveprop[1]
                s0 == NestedOpen("microwaveprop")
                s1 == NestedScalar("enabled", Flag(m.enabled))
                s2 == NestedString("monitor_token", m.monitor_token)
                s3 == NestedString("beacon_id", m.beacon_id)
                s4 == NestedString("gridsquare", m.gridsquare)
                s5 == NestedScalar("config_version", Number(m.config_version))
    <3>1. m \in MicrowavepropConfig
      BY <2>1, OptOf, SomeIs DEF Sent
    <3>2. /\ m.enabled \in BOOLEAN /\ m.monitor_token \in Texts /\ m.beacon_id \in Texts
          /\ m.gridsquare \in Texts /\ m.config_version \in Int
      BY <3>1 DEF MicrowavepropConfig
    <3>3. MicrowavepropFile(c) = s0 \o s1 \o s2 \o s3 \o s4 \o s5
      BY <2>1 DEF MicrowavepropFile
    <3>. HIDE DEF m
    <3>4. /\ s0 \in Seq(Written) /\ s1 \in Seq(Written) /\ s5 \in Seq(Written)
      BY <1>1, <1>3, <3>2, WrittenOpen, WrittenScalar
    <3>5. /\ s2 \in Seq(Written) /\ s3 \in Seq(Written) /\ s4 \in Seq(Written)
      BY <1>1, <1>2, <3>2, WrittenString
    <3>. HIDE DEF s0, s1, s2, s3, s4, s5
    <3>6. QED BY <3>3, <3>4, <3>5, ConcatProperties
  <2>2. QED BY <1>4, <2>1 DEF MicrowavepropFile
<1>9. UpdateLines(c.update) \in Seq(Written)
  <2>. DEFINE u == c.update
  <2>1. u \in UpdateConfig
    BY DEF Sent
  <2>2. u.enabled \in BOOLEAN /\ u.auto \in BOOLEAN /\ u.check_interval \in Int
    BY <2>1 DEF UpdateConfig
  <2>3. /\ NestedOpen("update") \in Seq(Written)
        /\ NestedScalar("enabled", Flag(u.enabled)) \in Seq(Written)
        /\ NestedScalar("auto", Flag(u.auto)) \in Seq(Written)
        /\ NestedScalar("check_interval", Number(u.check_interval)) \in Seq(Written)
    BY <1>1, <1>3, <2>2, WrittenOpen, WrittenScalar
  <2>4. QED BY <2>3, ConcatProperties DEF UpdateLines
<1>10. QED BY <1>5, <1>6, <1>7, <1>8, <1>9

(* So is the whole file, up to its blocks and with them.                   *)
HeadWith(c, mode) ==
    Scalar("frequency", Number(c.frequency)) \o mode
        \o String("driver", c.driver) \o Scalar("sample_rate", Number(c.sample_rate))
        \o GainFile(c) \o Scalar("ppm", Number(c.ppm))
        \o Scalar("period_seconds", Number(c.period_seconds))
        \o BeaconFile(c)
LEMMA WrittenFile ==
    ASSUME NEW c \in Sent, NEW mode \in Seq(Written)
    PROVE  HeadWith(c, mode) \in Seq(Written) /\ FileWith(c, mode) \in Seq(Written)
<1>. DEFINE s1 == Scalar("frequency", Number(c.frequency))
            s3 == String("driver", c.driver)
            s4 == Scalar("sample_rate", Number(c.sample_rate))
            s5 == GainFile(c)
            s6 == Scalar("ppm", Number(c.ppm))
            s7 == Scalar("period_seconds", Number(c.period_seconds))
            s8 == BeaconFile(c)
            s9 == NestedOpen("http")
            sa == NestedString("bind", c.http.bind)
            sb == MicrowavepropFile(c)
            sc == UpdateLines(c.update)
<1>1. /\ c.frequency \in Int /\ c.driver \in Texts /\ c.sample_rate \in Int
      /\ c.ppm \in Int /\ c.period_seconds \in Int
  BY DEF Sent
<1>2. /\ "frequency" \in Key \ TextKeys /\ "sample_rate" \in Key \ TextKeys
      /\ "ppm" \in Key \ TextKeys /\ "period_seconds" \in Key \ TextKeys
      /\ "driver" \in Key /\ "http" \in Key /\ "driver" # "bind"
  BY DEF Key, Scalars, Blocks, TextKeys
<1>3. \A n \in Int : Number(n) \in Value /\ Number(n)[1] # "text"
  BY Values, Held
<1>4. /\ s1 \in Seq(Written) /\ s4 \in Seq(Written) /\ s6 \in Seq(Written)
      /\ s7 \in Seq(Written)
  BY <1>1, <1>2, <1>3, WrittenScalar
<1>5. s3 \in Seq(Written) /\ s9 \in Seq(Written)
  BY <1>1, <1>2, WrittenString, WrittenOpen
<1>6. /\ s5 \in Seq(Written) /\ s8 \in Seq(Written) /\ sa \in Seq(Written)
      /\ sb \in Seq(Written) /\ sc \in Seq(Written)
  BY WrittenBlocks
<1>7. /\ HeadWith(c, mode) = s1 \o mode \o s3 \o s4 \o s5 \o s6 \o s7 \o s8
      /\ FileWith(c, mode) = s1 \o mode \o s3 \o s4 \o s5 \o s6 \o s7 \o s8 \o s9 \o sa \o sb \o sc
  BY DEF HeadWith, FileWith
<1>. HIDE DEF s1, s3, s4, s5, s6, s7, s8, s9, sa, sb, sc
<1>8. s1 \o mode \o s3 \o s4 \o s5 \o s6 \o s7 \o s8 \in Seq(Written)
  BY <1>4, <1>5, <1>6, ConcatProperties
<1>9. QED BY <1>5, <1>6, <1>7, <1>8, ConcatProperties

(* The lines of a block stay under it wherever the block stands.           *)
Carries(doc, x) ==
    /\ \A key, val : Entry(key, val) \in Tops(x) => \E i \in Top(doc, key) : doc[i].val = val
    /\ \A block, key, val : Sub(block, key, val) \in Kids(x) =>
           \E i \in Child(doc, block, key) : doc[i].val = val
LEMMA Within ==
    ASSUME NEW a \in Seq(Written), NEW x \in Seq(Written), NEW b \in Seq(Written), Rooted(x),
           NEW doc, doc = a \o x \o b
    PROVE  Carries(doc, x)
<1>. DEFINE n == Len(a)
<1>1. /\ n \in Nat /\ Len(x) \in Nat /\ DOMAIN x = 1 .. Len(x)
      /\ Len(doc) \in Nat /\ Len(doc) >= n + Len(x) /\ DOMAIN doc = 1 .. Len(doc)
  BY ConcatProperties
<1>2. \A i \in 1 .. Len(x) : n + i \in DOMAIN doc /\ doc[n + i] = x[i]
  BY ConcatProperties
<1>. HIDE DEF n
<1>3. ASSUME NEW i \in 1 .. Len(x), NEW j, IsParent(x, i, j)
      PROVE  j \in 1 .. Len(x) /\ Parent(x, i) = j /\ Parent(doc, n + i) = n + j
  <2>1. /\ j \in 1 .. (i - 1) /\ x[j].indent = 0
        /\ \A k \in (j + 1) .. (i - 1) : x[k].indent # 0
    BY <1>3 DEF IsParent
  <2>2. j \in 1 .. Len(x)
    BY <1>1, <2>1
  <2>3. n + j \in 1 .. ((n + i) - 1) /\ doc[n + j].indent = 0
    BY <1>1, <1>2, <2>1, <2>2
  <2>4. ASSUME NEW k \in ((n + j) + 1) .. ((n + i) - 1) PROVE doc[k].indent # 0
    <3>1. k - n \in (j + 1) .. (i - 1) /\ k - n \in 1 .. Len(x) /\ n + (k - n) = k
      BY <1>1, <2>1
    <3>2. QED BY <1>2, <2>1, <3>1
  <2>5. IsParent(doc, n + i, n + j)
    BY <2>3, <2>4 DEF IsParent
  <2>6. i \in Int /\ n + i \in Int
    BY <1>1
  <2>7. QED BY <1>3, <2>2, <2>5, <2>6, ParentIs
<1>4. ASSUME NEW key, NEW val, Entry(key, val) \in Tops(x)
      PROVE  \E i \in Top(doc, key) : doc[i].val = val
  <2>1. PICK i \in Top(x, key) : x[i].val = val
    BY <1>4, LineTop
  <2>2. i \in 1 .. Len(x) /\ x[i].indent = 0 /\ x[i].key = key
    BY <1>1, <2>1 DEF Top
  <2>3. QED BY <1>2, <2>1, <2>2 DEF Top
<1>5. ASSUME NEW block, NEW key, NEW val, Sub(block, key, val) \in Kids(x)
      PROVE  \E i \in Child(doc, block, key) : doc[i].val = val
  <2>1. PICK i \in {h \in DOMAIN x : x[h].indent = 2} :
            Sub(block, key, val) = Sub(x[Parent(x, i)].key, x[i].key, x[i].val)
    BY <1>5 DEF Kids
  <2>2. x[Parent(x, i)].key = block /\ x[i].key = key /\ x[i].val = val
    BY <2>1, Entries
  <2>3. PICK j \in 1 .. (i - 1) : IsParent(x, i, j)
    BY <2>1 DEF Rooted
  <2>4. j \in 1 .. Len(x) /\ Parent(x, i) = j /\ Parent(doc, n + i) = n + j
    BY <1>1, <1>3, <2>1, <2>3
  <2>5. n + j \in Top(doc, block)
    BY <1>2, <2>2, <2>3, <2>4 DEF Top, IsParent
  <2>6. n + i \in Child(doc, block, key) /\ doc[n + i].val = val
    BY <1>1, <1>2, <2>1, <2>2, <2>4, <2>5 DEF Child
  <2>7. QED BY <2>6
<1>6. QED BY <1>4, <1>5 DEF Carries

(* A document that parses has one line for a key.                          *)
LEMMA OneLine ==
    ASSUME NEW doc, NEW d \in Nat, DOMAIN doc = 1 .. d, Parses(doc)
    PROVE  /\ \A key : \A h, i \in Top(doc, key) : h = i
           /\ \A block, key : \A h, i \in Child(doc, block, key) : h = i
<1>1. \A h, i \in DOMAIN doc : h \in Int /\ i \in Int /\ ~Duplicate(doc, h, i) /\ ~Duplicate(doc, i, h)
  BY DEF Parses
<1>2. ASSUME NEW key, NEW h \in Top(doc, key), NEW i \in Top(doc, key) PROVE h = i
  <2>1. /\ h \in DOMAIN doc /\ i \in DOMAIN doc /\ doc[h].indent = 0 /\ doc[i].indent = 0
        /\ doc[h].key = key /\ doc[i].key = key
    BY DEF Top
  <2>2. ~(h < i) /\ ~(i < h)
    BY <1>1, <2>1 DEF Duplicate
  <2>3. QED BY <1>1, <2>1, <2>2
<1>3. ASSUME NEW block, NEW key, NEW h \in Child(doc, block, key), NEW i \in Child(doc, block, key)
      PROVE  h = i
  <2>1. /\ h \in DOMAIN doc /\ i \in DOMAIN doc /\ doc[h].indent = 2 /\ doc[i].indent = 2
        /\ doc[h].key = key /\ doc[i].key = key
        /\ Parent(doc, h) \in Top(doc, block) /\ Parent(doc, i) \in Top(doc, block)
    BY DEF Child
  <2>2. Parent(doc, h) = Parent(doc, i)
    BY <1>2, <2>1
  <2>3. ~(h < i) /\ ~(i < h)
    BY <1>1, <2>1, <2>2 DEF Duplicate
  <2>4. QED BY <1>1, <2>1, <2>3
<1>4. QED BY <1>2, <1>3

LEMMA CarriedTop ==
    ASSUME NEW doc, NEW x, Carries(doc, x), NEW key, NEW val, Entry(key, val) \in Tops(x)
    PROVE  \E i \in Top(doc, key) : doc[i].val = val
BY DEF Carries

LEMMA CarriedLine ==
    ASSUME NEW doc, NEW x, Carries(doc, x), NEW block, NEW key, NEW val,
           Sub(block, key, val) \in Kids(x)
    PROVE  \E i \in Child(doc, block, key) : doc[i].val = val
BY DEF Carries

(* So what stands in a block of it is what is read there.                  *)
LEMMA WithinReads ==
    ASSUME NEW doc \in Seq(Written), NEW x, Carries(doc, x), Parses(doc)
    PROVE  /\ \A block : Entry(block, None) \in Tops(x) => IsMap(doc, block)
           /\ \A block, key, w : Sub(block, key, Some(w)) \in Kids(x) =>
                  GetIn(doc, block, key) = Some(w[2])
<1>1. DOMAIN doc = 1 .. Len(doc) /\ Len(doc) \in Nat
  OBVIOUS
<1>2. ASSUME NEW block, Entry(block, None) \in Tops(x) PROVE IsMap(doc, block)
  BY <1>2, CarriedTop DEF IsMap
<1>3. ASSUME NEW block, NEW key, NEW w, Sub(block, key, Some(w)) \in Kids(x)
      PROVE  GetIn(doc, block, key) = Some(w[2])
  <2>1. PICK i \in Child(doc, block, key) : doc[i].val = Some(w)
    BY <1>3, CarriedLine
  <2>. DEFINE h == CHOOSE g \in Child(doc, block, key) : TRUE
  <2>2. h \in Child(doc, block, key)
    BY <2>1
  <2>3. h = i
    BY <1>1, <2>1, <2>2, OneLine
  <2>4. doc[h].val[1][2] = w[2]
    BY <2>1, <2>3, SomeIs
  <2>5. QED BY <2>1, <2>4 DEF GetIn, ScalarAt
<1>4. QED BY <1>2, <1>3

(* The blocks at the end of the file of a config, behind its beacon.       *)
TailOf(c) ==
    NestedOpen("http") \o NestedString("bind", c.http.bind) \o MicrowavepropFile(c)
                       \o UpdateLines(c.update)
TailTops(c) == Plus(MicrowavepropTops(Plus({}, Entry("http", None)), c), Entry("update", None))
TailKids(c) ==
    UpdateKids(MicrowavepropKids(Plus({}, Sub("http", "bind", Some(Text(c.http.bind)))), c),
               c.update)
LEMMA TailDoc ==
    ASSUME NEW c \in Sent
    PROVE  Rooted(TailOf(c)) /\ Tops(TailOf(c)) = TailTops(c) /\ Kids(TailOf(c)) = TailKids(c)
<1>. DEFINE v == Text(c.http.bind)
            d1 == NestedOpen("http")
            d2 == d1 \o NestedString("bind", c.http.bind)
            d3 == d2 \o MicrowavepropFile(c)
            d4 == d3 \o UpdateLines(c.update)
            t1 == Plus({}, Entry("http", None))
            t3 == MicrowavepropTops(t1, c)
            k2 == Plus({}, Sub("http", "bind", Some(v)))
            k3 == MicrowavepropKids(k2, c)
            x2 == Plus({}, c.http.bind)
            x3 == MicrowavepropTexts(x2, c)
<1>1. v \in Value /\ c.update \in UpdateConfig
  <2>1. c.http \in HttpConfig /\ c.update \in UpdateConfig
    BY DEF Sent
  <2>2. QED BY <2>1, Values DEF HttpConfig, Addresses
<1>2. "http" \in Key /\ "bind" \in Key
  BY DEF Key, Scalars, Blocks
<1>3. /\ TailOf(c) = d4 /\ TailTops(c) = Plus(t3, Entry("update", None))
      /\ TailKids(c) = UpdateKids(k3, c.update)
  BY DEF TailOf, TailTops, TailKids
<1>. HIDE DEF v, d1, d2, d3, d4, t1, t3, k2, k3, x2, x3
<1>4. Doc(d1, t1, {}, {}) /\ Under(d1, "http")
  <2>1. \A w : Entry("http", w) \notin {}
    OBVIOUS
  <2>2. Doc(<<>> \o NestedOpen("http"), t1, {}, {})
    BY <1>2, <2>1, EmptyDoc, DocOpen DEF t1
  <2>3. <<>> \o NestedOpen("http") = d1
    BY DEF d1, NestedOpen, Line
  <2>4. Under(d1, "http")
    BY DEF d1, NestedOpen, Line, Under
  <2>5. QED BY <2>2, <2>3, <2>4
<1>5. Doc(d2, t1, k2, x2)
  <2>1. \A w : Sub("http", "bind", w) \notin {}
    OBVIOUS
  <2>2. QED BY <1>1, <1>2, <1>4, <2>1, DocNestedString DEF d2, k2, x2, v
<1>6. Doc(d3, t3, k3, x3)
  <2>1. \A w : Entry("microwaveprop", w) \notin t1
    BY Entries DEF t1, Plus
  <2>2. QED BY <1>5, <2>1, DocMicrowaveprop DEF d3, t3, k3, x3
<1>7. Doc(d4, Plus(t3, Entry("update", None)), UpdateKids(k3, c.update), x3)
  <2>1. \A w : Entry("update", w) \notin t3
    BY Entries DEF t1, t3, MicrowavepropTops, Plus
  <2>2. QED BY <1>1, <1>6, <2>1, DocUpdate DEF d4
<1>8. QED BY <1>3, <1>7 DEF Doc

(* Lines written one block after another.                                  *)
LEMMA Glued ==
    ASSUME NEW d \in Seq(Written), NEW a \in Seq(Written), NEW b \in Seq(Written)
    PROVE  Then(d, Then(a, b)) = Then(Then(d, a), b) /\ Then(a, b) \in Seq(Written)
<1>1. a \o b \in Seq(Written)
  BY ConcatProperties
<1>2. (d \o a) \o b = d \o (a \o b)
  BY ConcatAssociative, SMTT(30)
<1>3. QED BY <1>1, <1>2 DEF Then

(* These blocks are the end of the file.                                   *)
LEMMA TailLast ==
    ASSUME NEW c \in Sent, NEW mode \in Seq(Written)
    PROVE  /\ TailOf(c) \in Seq(Written) /\ HeadWith(c, mode) \in Seq(Written)
           /\ FileWith(c, mode) \in Seq(Written)
           /\ FileWith(c, mode) = HeadWith(c, mode) \o TailOf(c) \o <<>>
<1>. DEFINE h == HeadWith(c, mode)
            o == NestedOpen("http")
            b == NestedString("bind", c.http.bind)
            m == MicrowavepropFile(c)
            u == UpdateLines(c.update)
<1>1. h \in Seq(Written) /\ FileWith(c, mode) \in Seq(Written)
  BY WrittenFile
<1>2. o \in Seq(Written)
  BY WrittenOpen DEF Key, Scalars, Blocks
<1>3. b \in Seq(Written) /\ m \in Seq(Written) /\ u \in Seq(Written)
  BY WrittenBlocks
<1>4. /\ FileWith(c, mode) = Then(Then(Then(Then(h, o), b), m), u)
      /\ TailOf(c) = Then(Then(Then(o, b), m), u)
  BY DEF FileWith, HeadWith, TailOf, Then
<1>. HIDE DEF h, o, b, m, u
<1>5. Then(h, Then(o, b)) = Then(Then(h, o), b) /\ Then(o, b) \in Seq(Written)
  BY <1>1, <1>2, <1>3, Glued
<1>6. /\ Then(h, Then(Then(o, b), m)) = Then(Then(h, Then(o, b)), m)
      /\ Then(Then(o, b), m) \in Seq(Written)
  BY <1>1, <1>3, <1>5, Glued
<1>7. /\ Then(h, TailOf(c)) = Then(Then(h, Then(Then(o, b), m)), u)
      /\ TailOf(c) \in Seq(Written)
  BY <1>1, <1>3, <1>4, <1>6, Glued
<1>8. FileWith(c, mode) = h \o TailOf(c)
  BY <1>4, <1>5, <1>6, <1>7 DEF Then
<1>9. FileWith(c, mode) \o <<>> = FileWith(c, mode)
  BY <1>1, ConcatEmptySeq
<1>10. QED BY <1>1, <1>7, <1>8, <1>9 DEF h

(* They are read as they were written, whatever the mode made of the lines *)
(* before them, if the file parses at all.                                 *)
LEMMA TailBack ==
    ASSUME NEW c \in Sent, c.microwaveprop # None, NEW mode \in Seq(Written),
           FromYaml(FileWith(c, mode)) # None
    PROVE  LET new == FromYaml(FileWith(c, mode))[1] IN
           new.http = c.http /\ new.microwaveprop = c.microwaveprop /\ new.update = c.update
<1>. DEFINE doc == FileWith(c, mode)
            x == TailOf(c)
            m == c.microwaveprop[1]
            u == c.update
            http == c.http
<1>1. c.microwaveprop = Some(m) /\ m \in MicrowavepropConfig
  BY OptOf, SomeIs DEF Sent
<1>2. u \in UpdateConfig /\ http \in HttpConfig
  BY DEF Sent
<1>3. Parses(doc) /\ WellTyped(doc)
  BY DEF FromYaml
<1>4. /\ FromYaml(doc)[1].http = ReadHttp(doc)
      /\ FromYaml(doc)[1].microwaveprop = ReadMicrowaveprop(doc)
      /\ FromYaml(doc)[1].update = ReadUpdate(doc)
  BY <1>3, SomeIs DEF FromYaml
<1>5. doc \in Seq(Written) /\ Carries(doc, x)
  <2>1. <<>> \in Seq(Written)
    OBVIOUS
  <2>2. QED BY <2>1, TailDoc, TailLast, Within
<1>6. Tops(x) = TailTops(c) /\ Kids(x) = TailKids(c)
  BY TailDoc
<1>7. /\ Entry("microwaveprop", None) \in Tops(x) /\ Entry("update", None) \in Tops(x)
  BY <1>6 DEF TailTops, MicrowavepropTops, Plus
<1>8. /\ Sub("http", "bind", Some(Text(http.bind))) \in Kids(x)
      /\ Sub("microwaveprop", "enabled", Some(Flag(m.enabled))) \in Kids(x)
      /\ Sub("microwaveprop", "monitor_token", Some(Text(m.monitor_token))) \in Kids(x)
      /\ Sub("microwaveprop", "beacon_id", Some(Text(m.beacon_id))) \in Kids(x)
      /\ Sub("microwaveprop", "gridsquare", Some(Text(m.gridsquare))) \in Kids(x)
      /\ Sub("microwaveprop", "config_version", Some(Number(m.config_version))) \in Kids(x)
      /\ Sub("update", "enabled", Some(Flag(u.enabled))) \in Kids(x)
      /\ Sub("update", "auto", Some(Flag(u.auto))) \in Kids(x)
      /\ Sub("update", "check_interval", Some(Number(u.check_interval))) \in Kids(x)
  BY <1>6 DEF TailKids, UpdateKids, MicrowavepropKids, Plus
<1>. HIDE DEF doc, x, m, u, http
<1>9. IsMap(doc, "microwaveprop") /\ IsMap(doc, "update")
  BY <1>3, <1>5, <1>7, WithinReads
<1>10. \A block, key, w : Sub(block, key, Some(w)) \in Kids(x) =>
           GetIn(doc, block, key) = Some(w[2])
  BY <1>3, <1>5, WithinReads
<1>11. ReadHttp(doc) = http
  BY <1>2, <1>8, <1>10, HttpRead
<1>12. ReadMicrowaveprop(doc) = Some(m)
  BY <1>1, <1>8, <1>9, <1>10, MicrowavepropRead
<1>13. ReadUpdate(doc) = u
  BY <1>2, <1>8, <1>9, <1>10, UpdateRead
<1>14. QED BY <1>1, <1>4, <1>11, <1>12, <1>13 DEF doc, http, u

-----------------------------------------------------------------------------
(* What becomes of a body                                                  *)

(* The config it makes of the running one.                                 *)
Linked(m, current, version) ==
    [enabled |-> m.enabled, monitor_token |-> TokenOf(m, current), beacon_id |-> m.beacon_id,
     gridsquare |-> m.gridsquare, config_version |-> UnwrapOr(version, AppliedVersion(current))]
Merged(body, current, version) ==
    [frequency |-> body.frequency, mode |-> body.mode, driver |-> body.driver,
     sample_rate |-> body.sample_rate, gain |-> body.gain, ppm |-> UnwrapOr(body.ppm, 0),
     period_seconds |-> UnwrapOr(body.period_seconds, current.period_seconds),
     beacon |-> body.beacon, http |-> UnwrapOr(body.http, [bind |-> DefaultBind]),
     microwaveprop |->
        IF body.microwaveprop = None THEN None
        ELSE Some(Linked(body.microwaveprop[1], current, version)),
     update |-> UnwrapOr(body.update, current.update)]

(* A default stands in for nothing.                                        *)
LEMMA UnwrappedNone == \A default : UnwrapOr(None, default) = default
BY DEF UnwrapOr

(* build_yaml_from_update writes that config, but for the mode.            *)
LEMMA BuildsWith ==
    ASSUME NEW body, NEW current, NEW version
    PROVE  BuildYaml(body, current, version) =
               FileWith(Merged(body, current, version), Bare[body.mode])
<1>. DEFINE c == Merged(body, current, version)
            gain(g) == Scalar("gain", Number(g))
            block(m) == MicrowavepropLines(m, current, version)
            g1 == UnwrapOr(Mapped(body.gain, gain), <<>>)
            b1 == UnwrapOr(Mapped(body.beacon, BeaconLines), <<>>)
            m1 == UnwrapOr(Mapped(body.microwaveprop, block), <<>>)
<1>1. /\ c.frequency = body.frequency /\ c.mode = body.mode /\ c.driver = body.driver
      /\ c.sample_rate = body.sample_rate /\ c.gain = body.gain /\ c.ppm = UnwrapOr(body.ppm, 0)
      /\ c.period_seconds = UnwrapOr(body.period_seconds, current.period_seconds)
      /\ c.beacon = body.beacon /\ c.http = UnwrapOr(body.http, [bind |-> DefaultBind])
      /\ c.microwaveprop = IF body.microwaveprop = None THEN None
                           ELSE Some(Linked(body.microwaveprop[1], current, version))
      /\ c.update = UnwrapOr(body.update, current.update)
  BY DEF Merged
<1>. HIDE DEF c
<1>2. g1 = GainFile(c)
  <2>1. CASE body.gain = None
    BY <1>1, <2>1, UnwrappedNone DEF Mapped, GainFile, None
  <2>2. CASE body.gain # None
    <3>1. Mapped(body.gain, gain) = Some(Scalar("gain", Number(body.gain[1])))
      BY <2>2 DEF Mapped
    <3>2. QED BY <1>1, <2>2, <3>1, Unwrapped DEF GainFile
  <2>3. QED BY <2>1, <2>2
<1>3. b1 = BeaconFile(c)
  <2>1. CASE body.beacon = None
    BY <1>1, <2>1, UnwrappedNone DEF Mapped, BeaconFile, None
  <2>2. CASE body.beacon # None
    <3>1. Mapped(body.beacon, BeaconLines) = Some(BeaconLines(body.beacon[1]))
      BY <2>2 DEF Mapped
    <3>2. QED BY <1>1, <2>2, <3>1, Unwrapped DEF BeaconFile
  <2>3. QED BY <2>1, <2>2
<1>4. m1 = MicrowavepropFile(c)
  <2>1. CASE body.microwaveprop = None
    BY <1>1, <2>1, UnwrappedNone DEF Mapped, MicrowavepropFile, None
  <2>2. CASE body.microwaveprop # None
    <3>. DEFINE m == body.microwaveprop[1]
                l == Linked(m, current, version)
    <3>1. Mapped(body.microwaveprop, block) = Some(MicrowavepropLines(m, current, version))
      BY <2>2 DEF Mapped
    <3>2. m1 = MicrowavepropLines(m, current, version)
      BY <3>1, Unwrapped
    <3>3. c.microwaveprop # None /\ c.microwaveprop[1] = l
      BY <1>1, <2>2, SomeIs
    <3>4. /\ l.enabled = m.enabled /\ l.monitor_token = TokenOf(m, current)
          /\ l.beacon_id = m.beacon_id /\ l.gridsquare = m.gridsquare
          /\ l.config_version = UnwrapOr(version, AppliedVersion(current))
      BY DEF Linked
    <3>. HIDE DEF l, m
    <3>5. QED BY <3>2, <3>3, <3>4 DEF MicrowavepropFile, MicrowavepropLines
  <2>3. QED BY <2>1, <2>2
<1>5. BuildYaml(body, current, version) =
          Scalar("frequency", Number(body.frequency)) \o Bare[body.mode]
              \o String("driver", body.driver) \o Scalar("sample_rate", Number(body.sample_rate))
              \o g1 \o Scalar("ppm", Number(UnwrapOr(body.ppm, 0)))
              \o Scalar("period_seconds",
                        Number(UnwrapOr(body.period_seconds, current.period_seconds)))
              \o b1 \o NestedOpen("http")
              \o NestedString("bind", UnwrapOr(body.http, [bind |-> DefaultBind]).bind)
              \o m1 \o UpdateLines(UnwrapOr(body.update, current.update))
  BY Zenon DEF BuildYaml
<1>. HIDE DEF g1, b1, m1
<1>6. QED BY <1>1, <1>2, <1>3, <1>4, <1>5, Zenon DEF FileWith, c

(* One of the modes there are is written as it is.                         *)
LEMMA Builds ==
    ASSUME NEW body, NEW current, NEW version, body.mode \in Modes
    PROVE  BuildYaml(body, current, version) = FileOf(Merged(body, current, version))
<1>. DEFINE c == Merged(body, current, version)
<1>1. Bare[body.mode] = Scalar("mode", Text(body.mode)) /\ c.mode = body.mode
  BY BareAssumption DEF Merged
<1>. HIDE DEF c
<1>2. BuildYaml(body, current, version) = FileWith(c, Bare[body.mode])
  BY BuildsWith DEF c
<1>3. QED BY <1>1, <1>2 DEF FileOf, c

(* The record of a config's type is one.                                   *)
LEMMA ConfigIsSent == \A c \in Config : c \in Sent
<1>1. Modes \subseteq Texts
  BY TextsAssumption
<1>2. QED BY <1>1 DEF Config, Sent

(* With a mode there is, what was sent is a config.                        *)
LEMMA SentIsConfig == \A c \in Sent : c.mode \in Modes => c \in Config
BY DEF Config, Sent

(* The version of a config.                                                *)
LEMMA VersionIs ==
    ASSUME NEW c \in Config
    PROVE  AppliedVersion(c) \in Nat
<1>1. CASE c.microwaveprop # None
  <2>1. c.microwaveprop[1] \in MicrowavepropConfig
    BY <1>1, OptOf, SomeIs DEF Config
  <2>2. QED BY <1>1, <2>1 DEF AppliedVersion, MicrowavepropConfig
<1>2. QED BY <1>1 DEF AppliedVersion

Body ==
    [enabled : BOOLEAN, monitor_token : Texts, beacon_id : Texts, gridsquare : Texts]

(* The microwaveprop block a body makes.                                   *)
LEMMA LinkedType ==
    ASSUME NEW m \in Body, NEW current \in Config, NEW version \in Opt(Nat)
    PROVE  Linked(m, current, version) \in MicrowavepropConfig
<1>1. TokenOf(m, current) \in Texts
  <2>1. CASE current.microwaveprop = None
    BY <2>1, DefaultsAre DEF TokenOf, Body
  <2>2. CASE current.microwaveprop # None
    <3>1. current.microwaveprop[1] \in MicrowavepropConfig
      BY <2>2, OptOf, SomeIs DEF Config
    <3>2. current.microwaveprop[1].monitor_token \in Texts
      BY <3>1 DEF MicrowavepropConfig
    <3>3. QED BY <2>2, <3>2 DEF TokenOf, Body
  <2>3. QED BY <2>1, <2>2
<1>2. UnwrapOr(version, AppliedVersion(current)) \in Nat
  BY VersionIs, Defaulted
<1>3. QED BY <1>1, <1>2 DEF Linked, MicrowavepropConfig, Body

(* The config a body makes, but for its mode.                              *)
LEMMA MergedType ==
    ASSUME NEW body \in ConfigUpdate, NEW current \in Config, NEW version \in Opt(Nat)
    PROVE  Merged(body, current, version) \in Sent
<1>1. UnwrapOr(body.ppm, 0) \in Int
  BY 0 \in Int, Defaulted DEF ConfigUpdate
<1>2. UnwrapOr(body.period_seconds, current.period_seconds) \in Nat
  BY Defaulted DEF ConfigUpdate, Config
<1>3. UnwrapOr(body.http, [bind |-> DefaultBind]) \in HttpConfig
  <2>1. [bind |-> DefaultBind] \in HttpConfig
    BY DefaultsAre DEF HttpConfig
  <2>2. body.http \in Opt(HttpConfig)
    BY DEF ConfigUpdate
  <2>3. QED BY <2>1, <2>2, Defaulted
<1>4. UnwrapOr(body.update, current.update) \in UpdateConfig
  BY Defaulted DEF ConfigUpdate, Config
<1>. DEFINE mw == IF body.microwaveprop = None THEN None
                  ELSE Some(Linked(body.microwaveprop[1], current, version))
<1>5. mw \in Opt(MicrowavepropConfig)
  <2>1. CASE body.microwaveprop = None
    BY <2>1, OptOf
  <2>2. CASE body.microwaveprop # None
    <3>1. body.microwaveprop \in Opt(Body)
      BY DEF ConfigUpdate, Body
    <3>2. body.microwaveprop[1] \in Body
      BY <2>2, <3>1, OptOf, SomeIs
    <3>3. QED BY <2>2, <3>2, LinkedType, OptOf
  <2>3. QED BY <2>1, <2>2
<1>. HIDE DEF mw
<1>6. Merged(body, current, version) =
          [frequency |-> body.frequency, mode |-> body.mode, driver |-> body.driver,
           sample_rate |-> body.sample_rate, gain |-> body.gain, ppm |-> UnwrapOr(body.ppm, 0),
           period_seconds |-> UnwrapOr(body.period_seconds, current.period_seconds),
           beacon |-> body.beacon, http |-> UnwrapOr(body.http, [bind |-> DefaultBind]),
           microwaveprop |-> mw, update |-> UnwrapOr(body.update, current.update)]
  BY Zenon DEF Merged, mw
<1>7. QED BY <1>1, <1>2, <1>3, <1>4, <1>5, <1>6 DEF Sent, ConfigUpdate

(* So it is taken as that config or refused.                               *)
LEMMA Applied ==
    ASSUME NEW body \in ConfigUpdate, body.mode \in Modes, NEW current \in Config, NEW version \in Opt(Nat),
           NEW new, new = FromYaml(BuildYaml(body, current, version))
    PROVE  LET c == Merged(body, current, version) IN
           /\ new # None => new = Some(c) /\ Sound(c)
           /\ Sound(c) => new = Some(c)
<1>. DEFINE c == Merged(body, current, version)
<1>1. c \in Sent
  BY MergedType
<1>2. new = FromYaml(FileOf(c))
  BY Builds
<1>. HIDE DEF c
<1>3. new = IF Whole(c) /\ c.mode \in Modes /\ Validate(c) THEN Some(c) ELSE None
  BY <1>1, <1>2, ComesBackAs
<1>4. new # None => new = Some(c) /\ Sound(c)
  BY <1>1, <1>3, SentIsConfig DEF Sound
<1>5. Sound(c) => new = Some(c)
  BY <1>3 DEF Sound, Config
<1>6. QED BY <1>4, <1>5 DEF c

-----------------------------------------------------------------------------
(* A config under another version                                          *)

Versioned(c, version) == [c EXCEPT !.microwaveprop[1].config_version = version]

MwAt(m, version) ==
    [enabled |-> m.enabled, monitor_token |-> m.monitor_token, beacon_id |-> m.beacon_id,
     gridsquare |-> m.gridsquare, config_version |-> version]
WithMw(c, mw) ==
    [frequency |-> c.frequency, mode |-> c.mode, driver |-> c.driver,
     sample_rate |-> c.sample_rate, gain |-> c.gain, ppm |-> c.ppm,
     period_seconds |-> c.period_seconds, beacon |-> c.beacon, http |-> c.http,
     microwaveprop |-> mw, update |-> c.update]

(* All but the block stays.                                                *)
LEMMA WithMwIs ==
    \A c, mw : LET w == WithMw(c, mw) IN
        /\ w.frequency = c.frequency /\ w.mode = c.mode /\ w.driver = c.driver
        /\ w.sample_rate = c.sample_rate /\ w.gain = c.gain /\ w.ppm = c.ppm
        /\ w.period_seconds = c.period_seconds /\ w.beacon = c.beacon /\ w.http = c.http
        /\ w.microwaveprop = mw /\ w.update = c.update
BY DEF WithMw

(* All but the version stays.                                              *)
LEMMA MwAtIs ==
    \A m, version : LET n == MwAt(m, version) IN
        /\ n.enabled = m.enabled /\ n.monitor_token = m.monitor_token
        /\ n.beacon_id = m.beacon_id /\ n.gridsquare = m.gridsquare
        /\ n.config_version = version
BY DEF MwAt

(* Only the version is another.                                            *)
LEMMA VersionedIs ==
    ASSUME NEW c \in Config, c.microwaveprop # None, NEW version
    PROVE  /\ c.microwaveprop[1] \in MicrowavepropConfig
           /\ Versioned(c, version) = WithMw(c, Some(MwAt(c.microwaveprop[1], version)))
<1>1. PICK m \in MicrowavepropConfig : c.microwaveprop = Some(m)
  BY OptOf DEF Config
<1>2. [m EXCEPT !.config_version = version] = MwAt(m, version)
  BY DEF MwAt, MicrowavepropConfig
<1>3. [Some(m) EXCEPT ![1].config_version = version] = Some(MwAt(m, version))
  BY <1>2 DEF Some
<1>4. Versioned(c, version) =
          [c EXCEPT !.microwaveprop = [@ EXCEPT ![1].config_version = version]]
  BY DEF Versioned
<1>5. Versioned(c, version) = [c EXCEPT !.microwaveprop = Some(MwAt(m, version))]
  BY <1>1, <1>3, <1>4
<1>6. [c EXCEPT !.microwaveprop = Some(MwAt(m, version))] = WithMw(c, Some(MwAt(m, version)))
  BY DEF Config, WithMw
<1>7. QED BY <1>1, <1>5, <1>6, SomeIs

(* So validate, the website and this page see the same.                    *)
LEMMA VersionedSound ==
    ASSUME NEW c, Sound(c), c.microwaveprop # None, NEW version \in Nat
    PROVE  LET w == Versioned(c, version) IN
           /\ Sound(w) /\ w.microwaveprop # None /\ AppliedVersion(w) = version
           /\ FromConfig(w) = FromConfig(c) /\ NodeLocal(w) = NodeLocal(c)
           /\ \A v \in Nat : Versioned(w, v) = Versioned(c, v)
<1>. DEFINE m == c.microwaveprop[1]
            n == MwAt(m, version)
            w == WithMw(c, Some(n))
<1>1. c \in Config /\ Whole(c) /\ Validate(c)
  BY DEF Sound
<1>2. m \in MicrowavepropConfig /\ Versioned(c, version) = w
  BY <1>1, VersionedIs
<1>3. /\ w.frequency = c.frequency /\ w.mode = c.mode /\ w.driver = c.driver
      /\ w.sample_rate = c.sample_rate /\ w.gain = c.gain /\ w.ppm = c.ppm
      /\ w.period_seconds = c.period_seconds /\ w.beacon = c.beacon /\ w.http = c.http
      /\ w.microwaveprop = Some(n) /\ w.update = c.update
  BY WithMwIs
<1>4. w.microwaveprop # None /\ w.microwaveprop[1] = n
  BY <1>3, SomeIs
<1>5. /\ n.enabled = m.enabled /\ n.monitor_token = m.monitor_token
      /\ n.beacon_id = m.beacon_id /\ n.gridsquare = m.gridsquare
      /\ n.config_version = version
  BY MwAtIs
<1>6. n \in MicrowavepropConfig
  BY <1>2 DEF MwAt, MicrowavepropConfig
<1>7. w \in Config
  <2>1. Some(n) \in Opt(MicrowavepropConfig)
    BY <1>6, OptOf
  <2>. HIDE DEF n
  <2>2. QED BY <1>1, <2>1 DEF WithMw, Config
<1>. HIDE DEF m, n, w
<1>8. Whole(w)
  BY <1>1, <1>3, <1>4, <1>5 DEF Whole, m
<1>9. Validate(w)
  <2>1. ValidBeacon(w) <=> ValidBeacon(c)
    BY <1>3 DEF ValidBeacon
  <2>2. QED BY <1>1, <1>3, <1>4, <1>5, <2>1 DEF Validate, m
<1>10. AppliedVersion(w) = version
  BY <1>4, <1>5 DEF AppliedVersion
<1>11. FromConfig(w) = FromConfig(c)
  BY <1>3, <1>4, <1>5 DEF FromConfig, m
<1>12. NodeLocal(w) = NodeLocal(c)
  BY <1>3, <1>4, <1>5 DEF NodeLocal, Mapped, m
<1>13. ASSUME NEW v \in Nat PROVE Versioned(w, v) = Versioned(c, v)
  <2>1. Versioned(w, v) = WithMw(w, Some(MwAt(n, v)))
    BY <1>4, <1>7, VersionedIs
  <2>2. Versioned(c, v) = WithMw(c, Some(MwAt(m, v)))
    BY <1>1, VersionedIs DEF m
  <2>3. MwAt(n, v) = MwAt(m, v)
    BY <1>5 DEF MwAt
  <2>4. QED BY <1>3, <2>1, <2>2, <2>3 DEF WithMw
<1>14. QED BY <1>2, <1>4, <1>7, <1>8, <1>9, <1>10, <1>11, <1>12, <1>13 DEF Sound

(* A config put together of its own parts is the config.                   *)
LEMMA OwnParts ==
    ASSUME NEW c \in Config
    PROVE  WithMw(c, c.microwaveprop) = c
BY DEF Config, WithMw

(* A block at its own version.                                             *)
LEMMA OwnMw ==
    ASSUME NEW m \in MicrowavepropConfig
    PROVE  MwAt(m, m.config_version) = m
BY DEF MwAt, MicrowavepropConfig

-----------------------------------------------------------------------------
(* cfg_to_update and cfg_to_view                                           *)

(* A beacon block is carried as it is.                                     *)
LEMMA BeaconCarried == \A o \in Opt(BeaconConfig) : Mapped(o, BeaconOf) = o
<1>1. TAKE o \in Opt(BeaconConfig)
<1>2. CASE o = None
  BY <1>2 DEF Mapped
<1>3. CASE o # None
  <2>1. PICK b \in BeaconConfig : o = Some(b)
    BY <1>3, OptOf
  <2>2. BeaconOf(b) = b
    BY DEF BeaconOf, BeaconConfig
  <2>3. Mapped(o, BeaconOf) = Some(BeaconOf(o[1]))
    BY <1>3 DEF Mapped
  <2>4. QED BY <2>1, <2>2, <2>3, SomeIs
<1>4. QED BY <1>2, <1>3

(* The update that a config is written from stands for that config.        *)
LEMMA Kept ==
    ASSUME NEW c \in Config
    PROVE  Merged(CfgToUpdate(c), c, Some(AppliedVersion(c))) = c
<1>. DEFINE u == CfgToUpdate(c)
            M == Merged(u, c, Some(AppliedVersion(c)))
<1>1. /\ u.frequency = c.frequency /\ u.mode = c.mode /\ u.driver = c.driver
      /\ u.sample_rate = c.sample_rate /\ u.gain = c.gain /\ u.ppm = Some(c.ppm)
      /\ u.period_seconds = Some(c.period_seconds) /\ u.http = Some(c.http)
      /\ u.update = Some(c.update)
  BY DEF CfgToUpdate, SentBack, CfgToView
<1>2. u.beacon = c.beacon
  <2>1. u.beacon = Mapped(c.beacon, BeaconOf)
    BY DEF CfgToUpdate, SentBack, CfgToView
  <2>2. QED BY <2>1, BeaconCarried DEF Config
<1>. DEFINE kept(m) == [enabled |-> m.enabled, monitor_token |-> m.monitor_token,
                        beacon_id |-> m.beacon_id, gridsquare |-> m.gridsquare]
<1>3. u.microwaveprop = IF c.microwaveprop = None THEN None ELSE Some(kept(c.microwaveprop[1]))
  BY DEF CfgToUpdate, SentBack, CfgToView, Mapped
<1>. HIDE DEF u
<1>4. (IF u.microwaveprop = None THEN None
       ELSE Some(Linked(u.microwaveprop[1], c, Some(AppliedVersion(c))))) = c.microwaveprop
  <2>1. CASE c.microwaveprop = None
    BY <1>3, <2>1
  <2>2. CASE c.microwaveprop # None
    <3>. DEFINE m == c.microwaveprop[1]
                k == kept(m)
    <3>1. m \in MicrowavepropConfig /\ c.microwaveprop = Some(m)
      BY <2>2, OptOf, SomeIs DEF Config
    <3>2. /\ k.enabled = m.enabled /\ k.monitor_token = m.monitor_token
          /\ k.beacon_id = m.beacon_id /\ k.gridsquare = m.gridsquare
      OBVIOUS
    <3>3. u.microwaveprop # None /\ u.microwaveprop[1] = k
      BY <1>3, <2>2, SomeIs
    <3>4. TokenOf(k, c) = m.monitor_token
      BY <2>2, <3>2 DEF TokenOf
    <3>5. UnwrapOr(Some(AppliedVersion(c)), AppliedVersion(c)) = m.config_version
      BY <2>2, Unwrapped DEF AppliedVersion
    <3>. HIDE DEF k
    <3>6. Linked(k, c, Some(AppliedVersion(c))) = MwAt(m, m.config_version)
      BY <3>2, <3>4, <3>5 DEF Linked, MwAt
    <3>7. QED BY <3>1, <3>3, <3>6, OwnMw
  <2>3. QED BY <2>1, <2>2
<1>5. M = WithMw(c, c.microwaveprop)
  BY <1>1, <1>2, <1>4, Unwrapped DEF Merged, WithMw
<1>6. QED BY <1>5, OwnParts DEF u

-----------------------------------------------------------------------------
(* The inductive invariant                                                 *)

(* What the file may say while the config in memory is something else.     *)
Lags(loaded) ==
    loaded # active =>
        unsaved /\ loaded.microwaveprop # None /\ active = Versioned(loaded, AppliedVersion(active))

IInv ==
    /\ unsaved \in BOOLEAN /\ Sound(active)
    /\ FromYaml(file) # None /\ Sound(FromYaml(file)[1]) /\ Lags(FromYaml(file)[1])

(* A node starts on a file that loads.                                     *)
LEMMA InitInv == Init => IInv
<1>. SUFFICES ASSUME Init PROVE IInv
  OBVIOUS
<1>1. file \in Seq(Written) /\ FromYaml(file) # None /\ active = FromYaml(file)[1]
  BY InputsAssumption DEF Init
<1>2. Sound(active)
  BY <1>1, LoadedSound
<1>3. QED BY <1>1, <1>2 DEF Init, IInv, Lags

(* A body that is applied, whatever it says for a mode.                    *)
LEMMA ApplyStep ==
    ASSUME IInv, NEW body \in ConfigUpdate, NEW version \in Opt(Nat), ApplyConfig(body, version)
    PROVE  LET c == Merged(body, active, version) IN
           /\ IInv'
           /\ body.mode \in Modes => active' = c
           /\ c.microwaveprop # None =>
                 /\ active'.http = c.http /\ active'.microwaveprop = c.microwaveprop
                 /\ active'.update = c.update
<1>. DEFINE c == Merged(body, active, version)
            doc == BuildYaml(body, active, version)
            mode == Bare[body.mode]
<1>1. file' = doc /\ FromYaml(doc) # None /\ active' = FromYaml(doc)[1] /\ unsaved' = FALSE
  BY DEF ApplyConfig
<1>2. active \in Config /\ c \in Sent
  <2>1. active \in Config
    BY DEF IInv, Sound
  <2>2. QED BY <2>1, MergedType
<1>3. mode \in Seq(Written)
  <2>1. body.mode \in Texts
    BY DEF ConfigUpdate
  <2>2. QED BY <2>1, BareAssumption
<1>4. body.mode \in Modes => active' = c
  <2>. SUFFICES ASSUME body.mode \in Modes PROVE active' = c
    OBVIOUS
  <2>1. FromYaml(doc) = Some(c)
    BY <1>1, <1>2, Applied
  <2>2. QED BY <1>1, <2>1, SomeIs
<1>. HIDE DEF c, doc, mode
<1>5. doc = FileWith(c, mode)
  BY BuildsWith DEF c, doc, mode
<1>6. doc \in Seq(Written)
  BY <1>2, <1>3, <1>5, WrittenFile
<1>7. Sound(active') /\ FromYaml(file') # None /\ FromYaml(file')[1] = active'
  BY <1>1, <1>6, LoadedSound
<1>8. IInv'
  BY <1>1, <1>7 DEF IInv, Lags
<1>9. c.microwaveprop # None =>
          /\ active'.http = c.http /\ active'.microwaveprop = c.microwaveprop
          /\ active'.update = c.update
  BY <1>1, <1>2, <1>3, <1>5, TailBack
<1>10. QED BY <1>4, <1>8, <1>9 DEF c

(* A version that is recorded.                                             *)
LEMMA PersistStep ==
    ASSUME IInv, NEW version \in Nat, PersistConfigVersion(version)
    PROVE  /\ IInv' /\ AppliedVersion(active)' = version
           /\ FromConfig(active)' = FromConfig(active) /\ NodeLocal(active)' = NodeLocal(active)
<1>1. Sound(active) /\ active.microwaveprop # None /\ active' = Versioned(active, version)
  BY DEF IInv, PersistConfigVersion, Versioned
<1>2. /\ Sound(active') /\ active'.microwaveprop # None /\ AppliedVersion(active') = version
      /\ FromConfig(active') = FromConfig(active) /\ NodeLocal(active') = NodeLocal(active)
  BY <1>1, VersionedSound
<1>3. CASE file' = BuildYaml(CfgToUpdate(active'), active', Some(version)) /\ unsaved' = FALSE
  <2>1. active' \in Config
    BY <1>2 DEF Sound
  <2>2. Merged(CfgToUpdate(active'), active', Some(version)) = active'
    BY <1>2, <2>1, Kept
  <2>3. file' = FileOf(active')
    <3>1. CfgToUpdate(active').mode = active'.mode
      BY DEF CfgToUpdate, SentBack, CfgToView
    <3>2. CfgToUpdate(active').mode \in Modes
      BY <2>1, <3>1 DEF Config
    <3>3. QED BY <1>3, <2>2, <3>2, Builds
  <2>4. FromYaml(file') = Some(active')
    BY <1>2, <2>1, <2>3, ComesBackAs, ConfigIsSent DEF Sound, Config
  <2>5. FromYaml(file') # None /\ FromYaml(file')[1] = active'
    BY <2>4, SomeIs
  <2>6. QED BY <1>2, <1>3, <2>5 DEF IInv, Lags
<1>4. CASE UNCHANGED file /\ unsaved' = TRUE
  <2>. DEFINE loaded == FromYaml(file)[1]
  <2>1. FromYaml(file') # None /\ FromYaml(file')[1] = loaded
    BY <1>4 DEF IInv
  <2>2. Sound(loaded) /\ Lags(loaded)
    BY DEF IInv
  <2>3. loaded.microwaveprop # None
    BY <1>1, <2>2 DEF Lags
  <2>. HIDE DEF loaded
  <2>4. active' = Versioned(loaded, version)
    <3>1. CASE loaded = active
      BY <1>1, <3>1
    <3>2. CASE loaded # active
      <4>1. active = Versioned(loaded, AppliedVersion(active))
        BY <2>2, <3>2 DEF Lags
      <4>2. AppliedVersion(active) \in Nat
        BY <1>1, VersionIs DEF Sound
      <4>3. QED BY <1>1, <2>2, <2>3, <4>1, <4>2, VersionedSound
    <3>3. QED BY <3>1, <3>2
  <2>5. Lags(loaded)'
    BY <1>2, <1>4, <2>1, <2>3, <2>4 DEF Lags, loaded
  <2>6. QED BY <1>2, <1>4, <2>1, <2>2, <2>5 DEF IInv, loaded
<1>5. QED BY <1>2, <1>3, <1>4 DEF PersistConfigVersion

(* The body a push makes.                                                  *)
LEMMA PushedBody ==
    ASSUME NEW pushed \in SyncConfig, NEW current \in Config
    PROVE  ToConfigUpdate(pushed, current) \in ConfigUpdate
           /\ ToConfigUpdate(pushed, current).beacon = pushed.beacon
<1>1. Mapped(pushed.beacon, BeaconOf) = pushed.beacon
  BY BeaconCarried DEF SyncConfig
<1>2. Redacted \in Texts
  BY InputsAssumption
<1>. DEFINE m == [enabled |-> pushed.upload_enabled, monitor_token |-> Redacted,
                  beacon_id |-> pushed.beacon_id, gridsquare |-> pushed.gridsquare]
            h == [bind |-> current.http.bind]
<1>3. Some(m) \in Opt(Body)
  <2>1. m \in Body
    BY <1>2 DEF Body, SyncConfig
  <2>2. QED BY <2>1, OptOf
<1>4. Some(h) \in Opt(HttpConfig)
  <2>1. current.http \in HttpConfig
    BY DEF Config
  <2>2. h \in HttpConfig
    BY <2>1 DEF HttpConfig
  <2>3. QED BY <2>2, OptOf
<1>5. Some(pushed.ppm) \in Opt(Int) /\ Some(pushed.period_seconds) \in Opt(Nat)
  BY OptOf DEF SyncConfig
<1>6. None \in Opt(UpdateConfig)
  BY OptOf
<1>7. ToConfigUpdate(pushed, current) =
          [frequency |-> pushed.frequency, mode |-> pushed.mode, driver |-> pushed.driver,
           sample_rate |-> pushed.sample_rate, gain |-> pushed.gain, ppm |-> Some(pushed.ppm),
           period_seconds |-> Some(pushed.period_seconds), beacon |-> pushed.beacon,
           http |-> Some(h), microwaveprop |-> Some(m), update |-> None]
  BY <1>1 DEF ToConfigUpdate
<1>. HIDE DEF h, m
<1>8. QED BY <1>3, <1>4, <1>5, <1>6, <1>7 DEF ConfigUpdate, SyncConfig, Body

(* A push that is applied takes hold.                                      *)
LEMMA PushedTakesHold ==
    ASSUME NEW pushed \in SyncConfig, NEW current \in Config, current.microwaveprop # None,
           NEW version \in Nat
    PROVE  LET c == Merged(ToConfigUpdate(pushed, current), current, Some(version)) IN
           /\ FromConfig(c) = pushed /\ AppliedVersion(c) = version
           /\ NodeLocal(c) = NodeLocal(current)
<1>. DEFINE m == [enabled |-> pushed.upload_enabled, monitor_token |-> Redacted,
                  beacon_id |-> pushed.beacon_id, gridsquare |-> pushed.gridsquare]
            h == [bind |-> current.http.bind]
            l == Linked(m, current, Some(version))
            u == ToConfigUpdate(pushed, current)
            c == Merged(u, current, Some(version))
<1>1. /\ u.frequency = pushed.frequency /\ u.mode = pushed.mode /\ u.driver = pushed.driver
      /\ u.sample_rate = pushed.sample_rate /\ u.gain = pushed.gain /\ u.ppm = Some(pushed.ppm)
      /\ u.period_seconds = Some(pushed.period_seconds) /\ u.http = Some(h)
      /\ u.microwaveprop = Some(m) /\ u.update = None
  BY DEF ToConfigUpdate
<1>2. u.beacon = pushed.beacon
  BY PushedBody
<1>3. /\ m.enabled = pushed.upload_enabled /\ m.monitor_token = Redacted
      /\ m.beacon_id = pushed.beacon_id /\ m.gridsquare = pushed.gridsquare
  OBVIOUS
<1>. HIDE DEF u, m
<1>4. /\ l.enabled = pushed.upload_enabled
      /\ l.monitor_token = current.microwaveprop[1].monitor_token
      /\ l.beacon_id = pushed.beacon_id /\ l.gridsquare = pushed.gridsquare
      /\ l.config_version = version
  BY <1>3, Unwrapped DEF Linked, TokenOf
<1>. HIDE DEF l
<1>5. /\ c.frequency = pushed.frequency /\ c.mode = pushed.mode /\ c.driver = pushed.driver
      /\ c.sample_rate = pushed.sample_rate /\ c.gain = pushed.gain /\ c.ppm = pushed.ppm
      /\ c.period_seconds = pushed.period_seconds /\ c.beacon = pushed.beacon /\ c.http = h
      /\ c.update = current.update
  BY <1>1, <1>2, Unwrapped, UnwrappedNone DEF Merged
<1>6. c.microwaveprop # None /\ c.microwaveprop[1] = l
  BY <1>1, SomeIs DEF Merged, l
<1>. HIDE DEF c
<1>7. h = current.http
  BY DEF Config, HttpConfig
<1>. HIDE DEF h
<1>8. FromConfig(c) = pushed
  <2>1. Mapped(c.beacon, BeaconOf) = pushed.beacon
    BY <1>5, BeaconCarried DEF SyncConfig
  <2>2. pushed.upload_enabled \in BOOLEAN
    BY DEF SyncConfig
  <2>3. (c.microwaveprop # None /\ c.microwaveprop[1].enabled) = pushed.upload_enabled
    BY <1>4, <1>6, <2>2
  <2>4. FromConfig(c) =
            [frequency |-> pushed.frequency, mode |-> pushed.mode, driver |-> pushed.driver,
             sample_rate |-> pushed.sample_rate, gain |-> pushed.gain, ppm |-> pushed.ppm,
             period_seconds |-> pushed.period_seconds, beacon |-> pushed.beacon,
             upload_enabled |-> pushed.upload_enabled, beacon_id |-> pushed.beacon_id,
             gridsquare |-> pushed.gridsquare]
    BY <1>4, <1>5, <1>6, <2>1, <2>3 DEF FromConfig
  <2>5. QED BY <2>4 DEF SyncConfig
<1>9. AppliedVersion(c) = version
  BY <1>4, <1>6 DEF AppliedVersion
<1>10. NodeLocal(c) = NodeLocal(current)
  BY <1>4, <1>5, <1>6, <1>7 DEF NodeLocal, Mapped
<1>11. QED BY <1>8, <1>9, <1>10 DEF c, u

(* A push, whichever way it is taken.                                      *)
LEMMA PushStep ==
    ASSUME IInv, NEW version \in 1 .. MaxVersion, NEW pushed \in Pushes, Push(version, pushed)
    PROVE  /\ IInv'
           /\ AppliedVersion(active)' = version /\ NodeLocal(active)' = NodeLocal(active)
           /\ pushed.mode \in Modes => FromConfig(active)' = pushed
<1>1. version \in Nat /\ pushed \in SyncConfig
  BY VersionAssumption, InputsAssumption
<1>2. active \in Config /\ active.microwaveprop # None
  BY DEF IInv, Sound, Push, Syncing
<1>3. CASE DecidePush(version, pushed) = "version_only" /\ PersistConfigVersion(version)
  <2>1. pushed = FromConfig(active)
    BY <1>3 DEF DecidePush
  <2>2. QED BY <1>1, <1>3, <2>1, PersistStep
<1>4. CASE ApplyConfig(ToConfigUpdate(pushed, active), Some(version))
  <2>. DEFINE u == ToConfigUpdate(pushed, active)
              c == Merged(u, active, Some(version))
  <2>1. u \in ConfigUpdate /\ Some(version) \in Opt(Nat)
    BY <1>1, <1>2, PushedBody, OptOf
  <2>2. u.mode = pushed.mode /\ u.microwaveprop # None
    BY SomeIs DEF ToConfigUpdate
  <2>3. c.microwaveprop # None
    <3>. HIDE DEF u
    <3>1. QED BY <2>2, SomeIs DEF Merged
  <2>4. FromConfig(c) = pushed /\ AppliedVersion(c) = version /\ NodeLocal(c) = NodeLocal(active)
    BY <1>1, <1>2, PushedTakesHold
  <2>. HIDE DEF u
  <2>5. /\ IInv'
        /\ u.mode \in Modes => active' = c
        /\ active'.http = c.http /\ active'.microwaveprop = c.microwaveprop
        /\ active'.update = c.update
    BY <1>4, <2>1, <2>3, ApplyStep DEF u
  <2>. HIDE DEF c
  <2>6. AppliedVersion(active') = AppliedVersion(c) /\ NodeLocal(active') = NodeLocal(c)
    BY <2>5 DEF AppliedVersion, NodeLocal
  <2>7. QED BY <2>2, <2>4, <2>5, <2>6
<1>5. QED BY <1>3, <1>4 DEF Push

(* Every step keeps the invariant.                                         *)
LEMMA NextInv == IInv /\ [Next]_vars => IInv'
<1>. SUFFICES ASSUME IInv, [Next]_vars PROVE IInv'
  OBVIOUS
<1>1. ASSUME NEW body \in Puts, PutConfig(body) PROVE IInv'
  <2>1. body \in ConfigUpdate /\ None \in Opt(Nat)
    BY InputsAssumption, OptOf
  <2>2. QED BY <1>1, <2>1, ApplyStep DEF PutConfig
<1>2. ASSUME NEW version \in 1 .. MaxVersion, NEW pushed \in Pushes, Push(version, pushed)
      PROVE  IInv'
  BY <1>2, PushStep
<1>3. ASSUME NEW version \in 1 .. MaxVersion, Accepted(version) PROVE IInv'
  <2>1. version \in Nat
    BY VersionAssumption
  <2>2. QED BY <1>3, <2>1, PersistStep DEF Accepted
<1>4. CASE Restart
  <2>1. active' = FromYaml(file)[1] /\ unsaved' = FALSE /\ file' = file
    BY <1>4 DEF Restart
  <2>2. FromYaml(file') # None /\ FromYaml(file')[1] = active' /\ Sound(active')
    BY <2>1 DEF IInv
  <2>3. QED BY <2>1, <2>2 DEF IInv, Lags
<1>5. CASE UNCHANGED vars
  <2>1. file' = file /\ active' = active /\ unsaved' = unsaved
    BY <1>5 DEF vars
  <2>2. Lags(FromYaml(file)[1])' = Lags(FromYaml(file)[1])
    BY <2>1 DEF Lags
  <2>3. QED BY <2>1, <2>2 DEF IInv
<1>6. QED BY <1>1, <1>2, <1>3, <1>4, <1>5 DEF Next

(* So it always holds.                                                     *)
LEMMA Invariant == Spec => []IInv
<1>1. Init => IInv
  BY InitInv
<1>2. IInv /\ [Next]_vars => IInv'
  BY NextInv
<1>3. QED BY <1>1, <1>2, PTL DEF Spec

-----------------------------------------------------------------------------
(* What a client sends back                                                *)

(* The view of a config, sent back as it is.                               *)
LEMMA ViewBack ==
    ASSUME NEW c \in Config
    PROVE  Merged(SentBack(CfgToView(c)), c, None) = c
<1>. DEFINE u == SentBack(CfgToView(c))
            shown(m) == [enabled |-> m.enabled, monitor_token |-> Redacted,
                         beacon_id |-> m.beacon_id, gridsquare |-> m.gridsquare]
<1>1. /\ u.frequency = c.frequency /\ u.mode = c.mode /\ u.driver = c.driver
      /\ u.sample_rate = c.sample_rate /\ u.gain = c.gain /\ u.ppm = Some(c.ppm)
      /\ u.period_seconds = Some(c.period_seconds) /\ u.http = Some(c.http)
      /\ u.update = Some(c.update)
  BY DEF SentBack, CfgToView
<1>2. u.beacon = c.beacon
  <2>1. u.beacon = Mapped(c.beacon, BeaconOf)
    BY DEF SentBack, CfgToView
  <2>2. QED BY <2>1, BeaconCarried DEF Config
<1>3. u.microwaveprop = IF c.microwaveprop = None THEN None ELSE Some(shown(c.microwaveprop[1]))
  BY DEF SentBack, CfgToView, Mapped
<1>. HIDE DEF u
<1>4. (IF u.microwaveprop = None THEN None
       ELSE Some(Linked(u.microwaveprop[1], c, None))) = c.microwaveprop
  <2>1. CASE c.microwaveprop = None
    BY <1>3, <2>1
  <2>2. CASE c.microwaveprop # None
    <3>. DEFINE m == c.microwaveprop[1]
                k == shown(m)
    <3>1. m \in MicrowavepropConfig /\ c.microwaveprop = Some(m)
      BY <2>2, OptOf, SomeIs DEF Config
    <3>2. /\ k.enabled = m.enabled /\ k.monitor_token = Redacted
          /\ k.beacon_id = m.beacon_id /\ k.gridsquare = m.gridsquare
      OBVIOUS
    <3>3. u.microwaveprop # None /\ u.microwaveprop[1] = k
      BY <1>3, <2>2, SomeIs
    <3>4. TokenOf(k, c) = m.monitor_token
      BY <2>2, <3>2 DEF TokenOf
    <3>5. UnwrapOr(None, AppliedVersion(c)) = m.config_version
      BY <2>2, UnwrappedNone DEF AppliedVersion
    <3>. HIDE DEF k
    <3>6. Linked(k, c, None) = MwAt(m, m.config_version)
      BY <3>2, <3>4, <3>5 DEF Linked, MwAt
    <3>7. QED BY <3>1, <3>3, <3>6, OwnMw
  <2>3. QED BY <2>1, <2>2
<1>5. Merged(u, c, None) = WithMw(c, c.microwaveprop)
  BY <1>1, <1>2, <1>4, Unwrapped DEF Merged, WithMw
<1>6. QED BY <1>5, OwnParts DEF u

(* The larger of two.                                                      *)
LEMMA MaxOf ==
    ASSUME NEW a \in Int, NEW b \in Int
    PROVE  Max({a, b}) = IF a >= b THEN a ELSE b
<1>. DEFINE m == IF a >= b THEN a ELSE b
<1>1. m \in {a, b} /\ \A y \in {a, b} : m >= y
  OBVIOUS
<1>2. \A x \in {a, b} : (\A y \in {a, b} : x >= y) => x = m
  OBVIOUS
<1>. HIDE DEF m
<1>3. (CHOOSE x \in {a, b} : \A y \in {a, b} : x >= y) = m
  BY <1>1, <1>2
<1>4. QED BY <1>3 DEF Max, m

(* The form shows a minute at least.                                       *)
LEMMA MinutesAre ==
    ASSUME NEW seconds \in Nat
    PROVE  Minutes(seconds) \in Nat /\ Minutes(seconds) >= 1
<1>1. (seconds + 30) \div 60 \in Int
  OBVIOUS
<1>2. QED BY <1>1, MaxOf DEF Minutes

(* What the form of a page that has just loaded shows.                     *)
Shown(c) == Filled(BlankForm, CfgToView(c))

(* The form.                                                               *)
Form ==
    [driver : Texts, frequency : Opt(Int), mode : Texts, sample_rate : Opt(Int), gain : Opt(Int),
     ppm : Opt(Int), beacon_offset_hz : Opt(Int), beacon_bandwidth_hz : Opt(Int),
     http_bind : Texts, mw_enabled : BOOLEAN, mw_token : Texts, mw_beacon_id : Texts,
     mw_gridsquare : Texts, up_enabled : BOOLEAN, up_auto : BOOLEAN, up_interval : Opt(Int)]

(* What a blank form has in it.                                            *)
LEMMA Blank == None \in Opt(Int) /\ "beacon" \in Texts
<1>1. "beacon" \in Modes
  BY DEF Modes
<1>2. QED BY <1>1, OptOf, TextsAssumption

(* The fields that a block which is absent leaves alone.                   *)
Same(f, g) ==
    /\ f.driver = g.driver /\ f.frequency = g.frequency /\ f.mode = g.mode
    /\ f.sample_rate = g.sample_rate /\ f.gain = g.gain /\ f.ppm = g.ppm
    /\ f.http_bind = g.http_bind /\ f.mw_enabled = g.mw_enabled
    /\ f.up_enabled = g.up_enabled /\ f.up_auto = g.up_auto /\ f.up_interval = g.up_interval

(* Each field of a page that has just loaded.                              *)
LEMMA ShownIs ==
    ASSUME NEW c \in Config
    PROVE  LET f == Shown(c) IN
           /\ f.driver = c.driver /\ f.frequency = Some(c.frequency) /\ f.mode = c.mode
           /\ f.sample_rate = Some(c.sample_rate) /\ f.gain = c.gain /\ f.ppm = Some(c.ppm)
           /\ f.http_bind = c.http.bind
           /\ f.up_enabled = c.update.enabled /\ f.up_auto = c.update.auto
           /\ f.up_interval = Some(Minutes(c.update.check_interval))
           /\ f.beacon_offset_hz =
                  IF c.beacon = None THEN None ELSE Some(c.beacon[1].offset_hz)
           /\ f.beacon_bandwidth_hz =
                  IF c.beacon = None THEN None ELSE Some(c.beacon[1].bandwidth_hz)
           /\ IF c.microwaveprop = None
              THEN /\ ~f.mw_enabled /\ f.mw_token = NoText /\ f.mw_beacon_id = NoText
                   /\ f.mw_gridsquare = NoText
              ELSE LET m == c.microwaveprop[1] IN
                   /\ f.mw_enabled = m.enabled /\ f.mw_token = Redacted
                   /\ f.mw_beacon_id = m.beacon_id /\ f.mw_gridsquare = m.gridsquare
<1>. DEFINE v == CfgToView(c)
            tuned == [BlankForm EXCEPT
                !.driver = v.driver, !.frequency = Some(v.frequency), !.mode = v.mode,
                !.sample_rate = Some(v.sample_rate), !.gain = v.gain, !.ppm = Some(v.ppm),
                !.http_bind = v.http.bind,
                !.mw_enabled = v.microwaveprop # None /\ v.microwaveprop[1].enabled,
                !.up_enabled = v.update.enabled, !.up_auto = v.update.auto,
                !.up_interval = Some(Minutes(v.update.check_interval))]
            marked(f, b) == [f EXCEPT !.beacon_offset_hz = Some(b.offset_hz),
                                      !.beacon_bandwidth_hz = Some(b.bandwidth_hz)]
            linked(f, m) == [f EXCEPT !.mw_token = m.monitor_token, !.mw_beacon_id = m.beacon_id,
                                      !.mw_gridsquare = m.gridsquare]
            beaconed == IF v.beacon = None THEN tuned ELSE marked(tuned, v.beacon[1])
<1>1. Shown(c) = IF v.microwaveprop = None THEN beaconed ELSE linked(beaconed, v.microwaveprop[1])
  BY DEF Shown, Filled
<1>2. /\ v.frequency = c.frequency /\ v.mode = c.mode /\ v.driver = c.driver
      /\ v.sample_rate = c.sample_rate /\ v.gain = c.gain /\ v.ppm = c.ppm
      /\ v.http = c.http /\ v.update = c.update
  BY DEF CfgToView
<1>3. v.beacon = c.beacon
  <2>1. v.beacon = Mapped(c.beacon, BeaconOf)
    BY DEF CfgToView
  <2>2. QED BY <2>1, BeaconCarried DEF Config
<1>4. /\ v.microwaveprop = None <=> c.microwaveprop = None
      /\ c.microwaveprop # None =>
            LET m == c.microwaveprop[1]
                n == v.microwaveprop[1] IN
            /\ n.enabled = m.enabled /\ n.monitor_token = Redacted
            /\ n.beacon_id = m.beacon_id /\ n.gridsquare = m.gridsquare
  BY SomeIs DEF CfgToView, Mapped
<1>. HIDE DEF v
<1>. DEFINE on == v.microwaveprop # None /\ v.microwaveprop[1].enabled
<1>5. /\ BlankForm \in Form /\ BlankForm.beacon_offset_hz = None
      /\ BlankForm.beacon_bandwidth_hz = None /\ BlankForm.mw_token = NoText
      /\ BlankForm.mw_beacon_id = NoText /\ BlankForm.mw_gridsquare = NoText
  BY DefaultsAre, Blank DEF BlankForm, Form
<1>6. /\ tuned.driver = v.driver /\ tuned.frequency = Some(v.frequency) /\ tuned.mode = v.mode
      /\ tuned.sample_rate = Some(v.sample_rate) /\ tuned.gain = v.gain
      /\ tuned.ppm = Some(v.ppm) /\ tuned.http_bind = v.http.bind
      /\ tuned.up_enabled = v.update.enabled /\ tuned.up_auto = v.update.auto
      /\ tuned.up_interval = Some(Minutes(v.update.check_interval))
      /\ tuned.beacon_offset_hz = None /\ tuned.beacon_bandwidth_hz = None
      /\ tuned.mw_enabled = on
      /\ tuned.mw_token = NoText /\ tuned.mw_beacon_id = NoText /\ tuned.mw_gridsquare = NoText
      /\ DOMAIN tuned = DOMAIN BlankForm
  BY <1>5 DEF Form
<1>. HIDE DEF tuned, on
<1>7. /\ Same(beaconed, tuned)
      /\ beaconed.mw_token = NoText /\ beaconed.mw_beacon_id = NoText
      /\ beaconed.mw_gridsquare = NoText
      /\ beaconed.beacon_offset_hz = IF c.beacon = None THEN None ELSE Some(c.beacon[1].offset_hz)
      /\ beaconed.beacon_bandwidth_hz =
             IF c.beacon = None THEN None ELSE Some(c.beacon[1].bandwidth_hz)
  <2>1. CASE c.beacon = None
    BY <1>3, <1>6, <2>1 DEF Same
  <2>2. CASE c.beacon # None
    BY <1>3, <1>5, <1>6, <2>2 DEF Same
  <2>3. QED BY <2>1, <2>2
<1>8. Same(Shown(c), tuned)
  BY <1>1, <1>7, <1>5 DEF Same
<1>9. /\ Shown(c).beacon_offset_hz = beaconed.beacon_offset_hz
      /\ Shown(c).beacon_bandwidth_hz = beaconed.beacon_bandwidth_hz
  BY <1>1
<1>10. CASE c.microwaveprop = None
  <2>1. v.microwaveprop = None /\ Shown(c) = beaconed
    BY <1>1, <1>4, <1>10
  <2>2. ~Shown(c).mw_enabled
    BY <1>6, <1>8, <2>1 DEF Same, on
  <2>3. QED BY <1>2, <1>6, <1>7, <1>8, <1>9, <1>10, <2>1, <2>2 DEF Same
<1>11. CASE c.microwaveprop # None
  <2>1. v.microwaveprop # None /\ Shown(c) = linked(beaconed, v.microwaveprop[1])
    BY <1>1, <1>4, <1>11
  <2>. DEFINE n == v.microwaveprop[1]
              m == c.microwaveprop[1]
  <2>2. /\ n.enabled = m.enabled /\ n.monitor_token = Redacted
        /\ n.beacon_id = m.beacon_id /\ n.gridsquare = m.gridsquare
    BY <1>4, <1>11
  <2>3. DOMAIN beaconed = DOMAIN BlankForm
    BY <1>6
  <2>. HIDE DEF n, beaconed
  <2>5. /\ Shown(c).mw_token = n.monitor_token /\ Shown(c).mw_beacon_id = n.beacon_id
        /\ Shown(c).mw_gridsquare = n.gridsquare
    BY <1>5, <2>1, <2>3 DEF Form, n
  <2>6. Shown(c).mw_enabled = m.enabled
    <3>0. m \in MicrowavepropConfig
      BY <1>11, OptOf, SomeIs DEF Config
    <3>1. m.enabled \in BOOLEAN
      BY <3>0 DEF MicrowavepropConfig
    <3>2. on = n.enabled
      BY <2>1, <2>2, <3>1 DEF on, n
    <3>3. QED BY <1>6, <1>7, <1>8, <2>1, <2>2, <3>2 DEF Same
  <2>7. QED BY <1>2, <1>6, <1>7, <1>8, <1>9, <1>11, <2>2, <2>5, <2>6 DEF Same
<1>12. QED BY <1>10, <1>11

(* The sentinel is not an absent token.                                    *)
LEMMA RedactedIs == Redacted # NoText
BY Zenon DEF Redacted, NoText

(* Trimming a text leaves one, and puts no line break into it.             *)
LEMMA TrimmedIs ==
    /\ \A t \in Texts : Trimmed[t] \in Texts /\ (t \notin Broken => Trimmed[t] \notin Broken)
    /\ Trimmed[NoText] = NoText
BY TextsAssumption DEF Defaults

(* The block of the config the form stands for, and its fields.            *)
TidyMw(m) ==
    [enabled |-> m.enabled, monitor_token |-> m.monitor_token,
     beacon_id |-> Trimmed[m.beacon_id], gridsquare |-> Trimmed[m.gridsquare],
     config_version |-> m.config_version]
TidyBlock(o) == IF o = None THEN None ELSE Some(TidyMw(o[1]))
LEMMA TidyMwIs ==
    \A m : LET n == TidyMw(m) IN
        /\ n.enabled = m.enabled /\ n.monitor_token = m.monitor_token
        /\ n.beacon_id = Trimmed[m.beacon_id] /\ n.gridsquare = Trimmed[m.gridsquare]
        /\ n.config_version = m.config_version
BY DEF TidyMw

(* The fields of that config.                                              *)
LEMMA TidiedIs ==
    ASSUME NEW c \in Config
    PROVE  Tidied(c) =
               [frequency |-> c.frequency, mode |-> c.mode, driver |-> Trimmed[c.driver],
                sample_rate |-> c.sample_rate, gain |-> c.gain, ppm |-> c.ppm,
                period_seconds |-> c.period_seconds,
                beacon |-> Some(UnwrapOr(c.beacon, [offset_hz |-> 0, bandwidth_hz |-> 1])),
                http |-> c.http, microwaveprop |-> TidyBlock(c.microwaveprop),
                update |-> [enabled |-> c.update.enabled, auto |-> c.update.auto,
                            check_interval |-> 60 * Minutes(c.update.check_interval)]]
<1>. DEFINE t == Trimmed[c.driver]
            b == Some(UnwrapOr(c.beacon, [offset_hz |-> 0, bandwidth_hz |-> 1]))
            tidy(m) == [m EXCEPT !.beacon_id = Trimmed[@], !.gridsquare = Trimmed[@]]
            mw == Mapped(c.microwaveprop, tidy)
            i == 60 * Minutes(c.update.check_interval)
            u == [c.update EXCEPT !.check_interval = i]
            w == [c EXCEPT !.driver = t, !.beacon = b, !.microwaveprop = mw]
<1>1. c.update \in UpdateConfig
  BY DEF Config
<1>2. mw = TidyBlock(c.microwaveprop)
  <2>1. CASE c.microwaveprop = None
    BY <2>1 DEF Mapped, TidyBlock
  <2>2. CASE c.microwaveprop # None
    <3>. DEFINE m == c.microwaveprop[1]
    <3>1. m \in MicrowavepropConfig
      BY <2>2, OptOf, SomeIs DEF Config
    <3>2. tidy(m) = TidyMw(m)
      <4>. DEFINE n == [m EXCEPT !.beacon_id = Trimmed[m.beacon_id]]
      <4>1. n = [enabled |-> m.enabled, monitor_token |-> m.monitor_token,
                 beacon_id |-> Trimmed[m.beacon_id], gridsquare |-> m.gridsquare,
                 config_version |-> m.config_version]
        BY <3>1 DEF MicrowavepropConfig
      <4>2. tidy(m) = [n EXCEPT !.gridsquare = Trimmed[m.gridsquare]]
        BY <3>1 DEF MicrowavepropConfig
      <4>. HIDE DEF n
      <4>3. QED BY <4>1, <4>2 DEF TidyMw
    <3>3. mw = Some(tidy(m))
      BY <2>2 DEF Mapped
    <3>4. QED BY <2>2, <3>2, <3>3 DEF TidyBlock
  <2>3. QED BY <2>1, <2>2
<1>3. Tidied(c) = [w EXCEPT !.update.check_interval = 60 * Minutes(@)]
  BY DEF Tidied
<1>. HIDE DEF t, b, mw
<1>4. w = [frequency |-> c.frequency, mode |-> c.mode, driver |-> t,
           sample_rate |-> c.sample_rate, gain |-> c.gain, ppm |-> c.ppm,
           period_seconds |-> c.period_seconds, beacon |-> b, http |-> c.http,
           microwaveprop |-> mw, update |-> c.update]
  <2>. DEFINE w1 == [c EXCEPT !.driver = t]
              w2 == [w1 EXCEPT !.beacon = b]
  <2>1. w1 = [frequency |-> c.frequency, mode |-> c.mode, driver |-> t,
              sample_rate |-> c.sample_rate, gain |-> c.gain, ppm |-> c.ppm,
              period_seconds |-> c.period_seconds, beacon |-> c.beacon, http |-> c.http,
              microwaveprop |-> c.microwaveprop, update |-> c.update]
    BY DEF Config
  <2>2. w = [w2 EXCEPT !.microwaveprop = mw]
    OBVIOUS
  <2>. HIDE DEF w1, w
  <2>3. w2 = [frequency |-> c.frequency, mode |-> c.mode, driver |-> t,
              sample_rate |-> c.sample_rate, gain |-> c.gain, ppm |-> c.ppm,
              period_seconds |-> c.period_seconds, beacon |-> b, http |-> c.http,
              microwaveprop |-> c.microwaveprop, update |-> c.update]
    BY <2>1
  <2>. HIDE DEF w2
  <2>4. QED BY <2>2, <2>3
<1>5. w.update = c.update
  BY <1>4
<1>. HIDE DEF w
<1>6. Tidied(c) = [w EXCEPT !.update = u]
  BY <1>3, <1>5
<1>7. u = [enabled |-> c.update.enabled, auto |-> c.update.auto, check_interval |-> i]
  BY <1>1 DEF UpdateConfig
<1>. HIDE DEF u, i
<1>8. [w EXCEPT !.update = u] =
          [frequency |-> c.frequency, mode |-> c.mode, driver |-> t,
           sample_rate |-> c.sample_rate, gain |-> c.gain, ppm |-> c.ppm,
           period_seconds |-> c.period_seconds, beacon |-> b, http |-> c.http,
           microwaveprop |-> mw, update |-> u]
  BY <1>4
<1>9. QED BY <1>2, <1>6, <1>7, <1>8 DEF t, b, i

(* It loads if its grid square is none or long enough.                     *)
LEMMA TidiedSound ==
    ASSUME NEW c, Sound(c)
    PROVE  /\ Tidied(c) \in Config /\ Whole(Tidied(c))
           /\ Validate(Tidied(c)) <=> GridStands(Tidied(c))
<1>. DEFINE b == UnwrapOr(c.beacon, [offset_hz |-> 0, bandwidth_hz |-> 1])
            i == 60 * Minutes(c.update.check_interval)
            u == [enabled |-> c.update.enabled, auto |-> c.update.auto, check_interval |-> i]
            t == Trimmed[c.driver]
            mw == TidyBlock(c.microwaveprop)
            w == Tidied(c)
<1>1. c \in Config /\ Whole(c) /\ Validate(c)
  BY DEF Sound
<1>2. w = [frequency |-> c.frequency, mode |-> c.mode, driver |-> t,
           sample_rate |-> c.sample_rate, gain |-> c.gain, ppm |-> c.ppm,
           period_seconds |-> c.period_seconds, beacon |-> Some(b), http |-> c.http,
           microwaveprop |-> mw, update |-> u]
  BY <1>1, TidiedIs
<1>3. b \in BeaconConfig /\ (c.beacon # None => b = c.beacon[1])
  <2>1. CASE c.beacon = None
    BY <2>1, UnwrappedNone DEF BeaconConfig
  <2>2. CASE c.beacon # None
    BY <1>1, <2>2, OptOf, SomeIs, Unwrapped DEF Config
  <2>3. QED BY <2>1, <2>2
<1>4. i \in Nat /\ i >= 60
  <2>1. c.update.check_interval \in Nat
    BY <1>1 DEF Config, UpdateConfig
  <2>2. Minutes(c.update.check_interval) \in Nat /\ Minutes(c.update.check_interval) >= 1
    BY <2>1, MinutesAre
  <2>3. QED BY <2>2
<1>5. t \in Texts /\ t \notin Broken
  BY <1>1, TrimmedIs DEF Config, Whole
<1>6. /\ mw \in Opt(MicrowavepropConfig)
      /\ mw # None =>
            /\ c.microwaveprop # None
            /\ mw[1].monitor_token \notin Broken /\ mw[1].beacon_id \notin Broken
            /\ mw[1].gridsquare \notin Broken
  <2>1. CASE c.microwaveprop = None
    BY <2>1, OptOf DEF TidyBlock
  <2>2. CASE c.microwaveprop # None
    <3>. DEFINE m == c.microwaveprop[1]
                n == TidyMw(m)
    <3>1. m \in MicrowavepropConfig
      BY <1>1, <2>2, OptOf, SomeIs DEF Config
    <3>2. m.monitor_token \notin Broken /\ m.beacon_id \notin Broken /\ m.gridsquare \notin Broken
      BY <1>1, <2>2 DEF Whole
    <3>3. mw = Some(n)
      BY <2>2 DEF TidyBlock
    <3>4. m.beacon_id \in Texts /\ m.gridsquare \in Texts
      BY <3>1 DEF MicrowavepropConfig
    <3>5. n \in MicrowavepropConfig
      BY <3>1, <3>4, TrimmedIs DEF TidyMw, MicrowavepropConfig
    <3>6. /\ n.monitor_token \notin Broken /\ n.beacon_id \notin Broken
          /\ n.gridsquare \notin Broken
      BY <3>2, <3>4, TidyMwIs, TrimmedIs
    <3>. HIDE DEF n, mw
    <3>7. QED BY <2>2, <3>3, <3>5, <3>6, OptOf, SomeIs
  <2>3. QED BY <2>1, <2>2
<1>. HIDE DEF b, i, t, mw
<1>7. u \in UpdateConfig /\ u.check_interval = i
  <2>1. c.update \in UpdateConfig
    BY <1>1 DEF Config
  <2>2. QED BY <1>4, <2>1 DEF UpdateConfig
<1>. HIDE DEF u, w
<1>8. w \in Config
  <2>1. Some(b) \in Opt(BeaconConfig)
    BY <1>3, OptOf
  <2>2. QED BY <1>1, <1>2, <1>5, <1>6, <1>7, <2>1 DEF Config
<1>9. /\ w.frequency = c.frequency /\ w.mode = c.mode /\ w.driver = t
      /\ w.sample_rate = c.sample_rate /\ w.period_seconds = c.period_seconds
      /\ w.beacon = Some(b) /\ w.http = c.http /\ w.microwaveprop = mw /\ w.update = u
  BY <1>2
<1>10. Whole(w)
  BY <1>1, <1>5, <1>6, <1>9 DEF Whole
<1>11. Validate(w) <=> GridStands(w)
  <2>1. c.mode = "beacon" => ValidBeacon(w)
    <3>1. c.mode = "beacon" => ValidBeacon(c)
      BY <1>1 DEF Validate
    <3>2. ValidBeacon(c) => ValidBeacon(w)
      BY <1>3, <1>9, SomeIs DEF ValidBeacon
    <3>3. QED BY <3>1, <3>2
  <2>2. w.update.check_interval >= MIN_CHECK_INTERVAL
    BY <1>4, <1>7, <1>9 DEF MIN_CHECK_INTERVAL
  <2>3. w.frequency > 0 /\ w.sample_rate >= MinRate /\ w.period_seconds >= 5
    BY <1>1, <1>9 DEF Validate
  <2>4. QED BY <1>9, <2>1, <2>2, <2>3 DEF Validate, GridStands
<1>12. QED BY <1>8, <1>10, <1>11 DEF w

(* What that form sends makes that config.                                 *)
LEMMA FormBack ==
    ASSUME NEW c \in Config
    PROVE  Merged(BodyOf(Shown(c)), c, None) = Tidied(c)
<1>. DEFINE f == Shown(c)
            u == BodyOf(f)
            b == UnwrapOr(c.beacon, [offset_hz |-> 0, bandwidth_hz |-> 1])
            k == Minutes(c.update.check_interval)
            bind == Trimmed[f.http_bind]
            beacon_id == Trimmed[f.mw_beacon_id]
            gridsquare == Trimmed[f.mw_gridsquare]
            blank == ~f.mw_enabled /\ f.mw_token = NoText /\ beacon_id = NoText
                                   /\ gridsquare = NoText
            mw == TidyBlock(c.microwaveprop)
            up == [enabled |-> c.update.enabled, auto |-> c.update.auto, check_interval |-> 60 * k]
<1>1. /\ f.driver = c.driver /\ f.frequency = Some(c.frequency) /\ f.mode = c.mode
      /\ f.sample_rate = Some(c.sample_rate) /\ f.gain = c.gain /\ f.ppm = Some(c.ppm)
      /\ f.http_bind = c.http.bind
      /\ f.up_enabled = c.update.enabled /\ f.up_auto = c.update.auto
      /\ f.up_interval = Some(k)
      /\ f.beacon_offset_hz = IF c.beacon = None THEN None ELSE Some(c.beacon[1].offset_hz)
      /\ f.beacon_bandwidth_hz = IF c.beacon = None THEN None ELSE Some(c.beacon[1].bandwidth_hz)
  BY ShownIs
<1>2. IF c.microwaveprop = None
      THEN /\ ~f.mw_enabled /\ f.mw_token = NoText /\ f.mw_beacon_id = NoText
           /\ f.mw_gridsquare = NoText
      ELSE LET m == c.microwaveprop[1] IN
           /\ f.mw_enabled = m.enabled /\ f.mw_token = Redacted
           /\ f.mw_beacon_id = m.beacon_id /\ f.mw_gridsquare = m.gridsquare
  BY ShownIs
<1>3. blank <=> c.microwaveprop = None
  BY <1>2, RedactedIs, TrimmedIs
<1>4. k \in Nat /\ k >= 1
  <2>1. c.update.check_interval \in Nat
    BY DEF Config, UpdateConfig
  <2>2. QED BY <2>1, MinutesAre
<1>. HIDE DEF f, k
<1>5. /\ u.frequency = f.frequency[1] /\ u.mode = f.mode /\ u.driver = Trimmed[f.driver]
      /\ u.sample_rate = f.sample_rate[1] /\ u.gain = f.gain
      /\ u.ppm = Some(UnwrapOr(f.ppm, 0)) /\ u.period_seconds = None
  BY DEF BodyOf
<1>6. u.beacon = Some([offset_hz |-> UnwrapOr(f.beacon_offset_hz, 0),
                       bandwidth_hz |-> UnwrapOr(f.beacon_bandwidth_hz, 1)])
  BY DEF BodyOf
<1>7. u.http = Some([bind |-> IF bind = NoText THEN DefaultBind ELSE bind])
  BY DEF BodyOf
<1>8. u.microwaveprop =
          IF blank THEN None
          ELSE Some([enabled |-> f.mw_enabled, monitor_token |-> f.mw_token,
                     beacon_id |-> beacon_id, gridsquare |-> gridsquare])
  BY DEF BodyOf
<1>9. u.update = Some([enabled |-> f.up_enabled, auto |-> f.up_auto,
                       check_interval |-> Max({60, 60 * UnwrapOr(f.up_interval, 60)})])
  BY DEF BodyOf
<1>. HIDE DEF u, blank
<1>10. /\ u.frequency = c.frequency /\ u.mode = c.mode /\ u.driver = Trimmed[c.driver]
       /\ u.sample_rate = c.sample_rate /\ u.gain = c.gain /\ u.ppm = Some(c.ppm)
  BY <1>1, <1>5, SomeIs, Unwrapped
<1>11. u.beacon = Some(b)
  <2>1. CASE c.beacon = None
    BY <1>1, <1>6, <2>1, UnwrappedNone
  <2>2. CASE c.beacon # None
    <3>1. PICK d \in BeaconConfig : c.beacon = Some(d)
      BY <2>2, OptOf DEF Config
    <3>2. UnwrapOr(f.beacon_offset_hz, 0) = d.offset_hz
      BY <1>1, <2>2, <3>1, SomeIs, Unwrapped
    <3>3. UnwrapOr(f.beacon_bandwidth_hz, 1) = d.bandwidth_hz
      BY <1>1, <2>2, <3>1, SomeIs, Unwrapped
    <3>4. [offset_hz |-> d.offset_hz, bandwidth_hz |-> d.bandwidth_hz] = d
      BY <3>1 DEF BeaconConfig
    <3>5. b = d
      BY <3>1, Unwrapped
    <3>6. QED BY <1>6, <3>2, <3>3, <3>4, <3>5
  <2>3. QED BY <2>1, <2>2
<1>12. u.http = Some(c.http)
  <2>1. c.http \in HttpConfig
    BY DEF Config
  <2>2. c.http.bind # NoText /\ [bind |-> c.http.bind] = c.http /\ bind = c.http.bind
    BY <1>1, <2>1 DEF HttpConfig, Addresses
  <2>3. QED BY <1>1, <1>7, <2>2
<1>13. u.update = Some(up)
  <2>1. UnwrapOr(f.up_interval, 60) = k
    BY <1>1, Unwrapped
  <2>2. Max({60, 60 * k}) = 60 * k
    BY <1>4, MaxOf
  <2>3. QED BY <1>1, <1>9, <2>1, <2>2
<1>14. (IF u.microwaveprop = None THEN None
        ELSE Some(Linked(u.microwaveprop[1], c, None))) = mw
  <2>1. CASE c.microwaveprop = None
    BY <1>3, <1>8, <2>1 DEF TidyBlock
  <2>2. CASE c.microwaveprop # None
    <3>. DEFINE m == c.microwaveprop[1]
                n == [enabled |-> f.mw_enabled, monitor_token |-> f.mw_token,
                      beacon_id |-> beacon_id, gridsquare |-> gridsquare]
    <3>1. /\ n.enabled = m.enabled /\ n.monitor_token = Redacted
          /\ n.beacon_id = Trimmed[m.beacon_id] /\ n.gridsquare = Trimmed[m.gridsquare]
      BY <1>2, <2>2
    <3>2. u.microwaveprop # None /\ u.microwaveprop[1] = n
      BY <1>3, <1>8, <2>2, SomeIs
    <3>3. TokenOf(n, c) = m.monitor_token
      BY <2>2, <3>1 DEF TokenOf
    <3>4. UnwrapOr(None, AppliedVersion(c)) = m.config_version
      BY <2>2, UnwrappedNone DEF AppliedVersion
    <3>. HIDE DEF n
    <3>5. Linked(n, c, None) = TidyMw(m)
      BY <3>1, <3>3, <3>4 DEF Linked, TidyMw
    <3>6. mw = Some(TidyMw(m))
      BY <2>2 DEF TidyBlock
    <3>7. QED BY <3>2, <3>5, <3>6
  <2>3. QED BY <2>1, <2>2
<1>. HIDE DEF up, b, mw
<1>15. Merged(u, c, None) =
           [frequency |-> c.frequency, mode |-> c.mode, driver |-> Trimmed[c.driver],
            sample_rate |-> c.sample_rate, gain |-> c.gain, ppm |-> c.ppm,
            period_seconds |-> c.period_seconds, beacon |-> Some(b), http |-> c.http,
            microwaveprop |-> mw, update |-> up]
  BY <1>5, <1>10, <1>11, <1>12, <1>13, <1>14, Unwrapped, UnwrappedNone DEF Merged
<1>16. QED BY <1>15, TidiedIs DEF u, f, b, k, up, mw

(* A config comes back from what it is written to, or not at all.          *)
LEMMA BuiltBack ==
    ASSUME NEW body, NEW current, NEW c \in Config, Whole(c), body.mode = c.mode,
           Merged(body, current, None) = c
    PROVE  FromYaml(BuildYaml(body, current, None)) = IF Validate(c) THEN Some(c) ELSE None
<1>1. c.mode \in Modes /\ c \in Sent
  BY ConfigIsSent DEF Config
<1>2. BuildYaml(body, current, None) = FileOf(c)
  BY <1>1, Builds
<1>3. QED BY <1>1, <1>2, ComesBackAs

(* Both come back.                                                         *)
LEMMA SoundComesBack == Sound(active) => ComesBack
<1>. SUFFICES ASSUME Sound(active) PROVE ComesBack
  OBVIOUS
<1>1. active \in Config /\ Whole(active) /\ Validate(active)
  BY DEF Sound
<1>2. ViewComesBack
  <2>1. SentBack(CfgToView(active)).mode = active.mode
    BY DEF SentBack, CfgToView
  <2>2. QED BY <1>1, <2>1, ViewBack, BuiltBack DEF ViewComesBack
<1>3. FormComesBack
  <2>. DEFINE c == Tidied(active)
              u == BodyOf(Shown(active))
  <2>1. c \in Config /\ Whole(c) /\ (Validate(c) <=> GridStands(c))
    BY TidiedSound
  <2>2. Merged(u, active, None) = c
    BY <1>1, FormBack
  <2>3. u.mode = c.mode
    <3>1. u.mode = Shown(active).mode
      BY DEF BodyOf
    <3>2. QED BY <1>1, <3>1, ShownIs, TidiedIs
  <2>. HIDE DEF c, u
  <2>4. FromYaml(BuildYaml(u, active, None)) = IF Validate(c) THEN Some(c) ELSE None
    BY <2>1, <2>2, <2>3, BuiltBack
  <2>5. QED BY <2>1, <2>4 DEF FormComesBack, SavedFrom, Shown, c, u
<1>4. QED BY <1>2, <1>3 DEF ComesBack

-----------------------------------------------------------------------------
(* The bins of an accepted config                                          *)

(* The smaller of two.                                                     *)
LEMMA MinOf ==
    ASSUME NEW a \in Int, NEW b \in Int
    PROVE  Min({a, b}) = IF a <= b THEN a ELSE b
<1>. DEFINE m == IF a <= b THEN a ELSE b
<1>1. m \in {a, b} /\ \A y \in {a, b} : m <= y
  OBVIOUS
<1>2. \A x \in {a, b} : (\A y \in {a, b} : x <= y) => x = m
  OBVIOUS
<1>. HIDE DEF m
<1>3. (CHOOSE x \in {a, b} : \A y \in {a, b} : x <= y) = m
  BY <1>1, <1>2
<1>4. QED BY <1>3 DEF Min, m

(* A quotient, and what rounding it may add or take away.                  *)
LEMMA QuotientIs ==
    ASSUME NEW n \in Nat, NEW d \in Nat, d > 0
    PROVE  n \div d \in Nat /\ (n \div d) * d <= n /\ n < (n \div d) * d + d
OBVIOUS

(* Rounding adds or takes away a half at most.                             *)
LEMMA RoundedIs ==
    ASSUME NEW a \in Int, NEW b \in Int, b > 0
    PROVE  LET q == Rounded(a, b) IN
           q \in Int /\ 2 * (b * q) <= 2 * a + b /\ 2 * (b * q) >= 2 * a - b
<1>1. CASE a >= 0
  <2>. DEFINE q == (2 * a + b) \div (2 * b)
  <2>1. q \in Nat /\ q * (2 * b) <= 2 * a + b /\ 2 * a + b < q * (2 * b) + 2 * b
    BY <1>1, QuotientIs
  <2>2. Rounded(a, b) = q
    BY <1>1 DEF Rounded
  <2>. HIDE DEF q
  <2>3. q * (2 * b) = 2 * (b * q)
    BY <2>1
  <2>4. QED BY <2>1, <2>2, <2>3
<1>2. CASE a < 0
  <2>. DEFINE q == (2 * (-a) + b) \div (2 * b)
  <2>1. q \in Nat /\ q * (2 * b) <= 2 * (-a) + b /\ 2 * (-a) + b < q * (2 * b) + 2 * b
    BY <1>2, QuotientIs
  <2>2. Rounded(a, b) = -q
    BY <1>2 DEF Rounded
  <2>. HIDE DEF q
  <2>3. b * (-q) = -(b * q) /\ q * (2 * b) = 2 * (b * q)
    BY <2>1
  <2>4. QED BY <2>1, <2>2, <2>3
<1>3. QED BY <1>1, <1>2

(* A common factor is left out, or put in.                                 *)
LEMMA Cancel ==
    ASSUME NEW p \in Int, NEW q \in Int, NEW r \in Int, r > 0, r * p <= r * q
    PROVE  p <= q
OBVIOUS

(* The same the other way round.                                           *)
LEMMA Scaled ==
    ASSUME NEW p \in Int, NEW q \in Int, NEW n \in Nat, p <= q
    PROVE  p * n <= q * n
OBVIOUS

(* The centre of the spectrum.                                             *)
LEMMA CenterIs == FFT_SIZE \in Nat /\ Center \in Nat /\ FFT_SIZE = 2 * Center /\ Center >= 2
BY FftAssumption DEF Center

(* A passband inside the spectrum is so in bins, but for one that rounding *)
(* may add.                                                                *)
LEMMA BinsFit ==
    ASSUME NEW offset \in Int, NEW width \in Int, NEW rate \in Int, rate > 0, width > 0,
           2 * offset + width <= rate, width - 2 * offset <= rate
    PROVE  LET x == OffsetBins(offset, rate)
               half == HalfWidthBins(width, rate) IN
           /\ x \in Int /\ half \in Nat /\ half >= 1
           /\ x + half <= Center + 1 /\ half - x <= Center + 1
           /\ half = 1 \/ 2 * (rate * half) <= width * FFT_SIZE + rate
           /\ 2 * (rate * half) >= width * FFT_SIZE - rate
<1>. DEFINE F == FFT_SIZE
            a == offset * F
            w == width * F
            x == OffsetBins(offset, rate)
            y == Rounded(w, 2 * rate)
            half == HalfWidthBins(width, rate)
<1>1. F \in Nat /\ Center \in Nat /\ F = 2 * Center /\ Center >= 2
  BY CenterIs
<1>2. a \in Int /\ w \in Int /\ w >= F
  <2>1. 1 * F <= width * F
    BY <1>1, Scaled
  <2>2. QED BY <1>1, <2>1
<1>. HIDE DEF F, a, w
<1>3. x \in Int /\ 2 * (rate * x) <= 2 * a + rate /\ 2 * (rate * x) >= 2 * a - rate
  BY <1>2, RoundedIs DEF OffsetBins, a, F
<1>4. y \in Int /\ 2 * (rate * y) <= w + rate /\ 2 * (rate * y) >= w - rate
  <2>1. 2 * rate \in Int /\ 2 * rate > 0
    OBVIOUS
  <2>2. y \in Int /\ 2 * ((2 * rate) * y) <= 2 * w + 2 * rate
                  /\ 2 * ((2 * rate) * y) >= 2 * w - 2 * rate
    BY <1>2, <2>1, RoundedIs
  <2>. HIDE DEF y
  <2>3. (2 * rate) * y = 2 * (rate * y)
    BY <2>2
  <2>4. rate * y \in Int
    BY <2>2
  <2>5. QED BY <1>2, <2>2, <2>3, <2>4
<1>5. half = IF 1 >= y THEN 1 ELSE y
  BY <1>4, MaxOf DEF HalfWidthBins, y, w, F
<1>. HIDE DEF x, y, half
<1>6. 2 * a + w <= rate * F /\ w - 2 * a <= rate * F
  <2>1. (2 * offset + width) * F <= rate * F /\ (width - 2 * offset) * F <= rate * F
    BY <1>1, Scaled
  <2>2. (2 * offset + width) * F = 2 * a + w /\ (width - 2 * offset) * F = w - 2 * a
    BY <1>1 DEF a, w
  <2>3. QED BY <2>1, <2>2
<1>7. rate * F = 2 * (rate * Center)
  BY <1>1
<1>8. x + y <= Center + 1 /\ y - x <= Center + 1
  <2>1. rate * (x + y) = rate * x + rate * y /\ rate * (y - x) = rate * y - rate * x
    BY <1>3, <1>4
  <2>2. rate * (Center + 1) = rate * Center + rate
    BY <1>1
  <2>3. rate * x \in Int /\ rate * y \in Int /\ rate * Center \in Int /\ rate * F \in Int
    BY <1>1, <1>3, <1>4
  <2>4. rate * (x + y) <= rate * (Center + 1) /\ rate * (y - x) <= rate * (Center + 1)
    BY <1>2, <1>3, <1>4, <1>6, <1>7, <2>1, <2>2, <2>3
  <2>5. QED BY <1>1, <1>3, <1>4, <2>4, Cancel
<1>9. x <= Center /\ -x <= Center
  <2>1. rate * (-x) = -(rate * x) /\ rate * x \in Int /\ rate * Center \in Int
    BY <1>1, <1>3
  <2>2. 2 * (rate * x) <= 2 * (rate * Center) + rate - F
    BY <1>1, <1>2, <1>3, <1>6, <1>7, <2>1
  <2>3. 2 * (rate * (-x)) <= 2 * (rate * Center) + rate - F
    BY <1>1, <1>2, <1>3, <1>6, <1>7, <2>1
  <2>4. rate * (Center + 1) = rate * Center + rate
    BY <1>1
  <2>5. rate * x < rate * (Center + 1) /\ rate * (-x) < rate * (Center + 1)
    BY <1>1, <2>1, <2>2, <2>3, <2>4
  <2>6. ~(x >= Center + 1) /\ ~(-x >= Center + 1)
    BY <1>1, <1>3, <2>5, Scaled
  <2>7. QED BY <1>1, <1>3, <2>6
<1>10. half \in Nat /\ half >= 1 /\ x + half <= Center + 1 /\ half - x <= Center + 1
  BY <1>1, <1>3, <1>4, <1>5, <1>8, <1>9
<1>11. half = 1 \/ 2 * (rate * half) <= w + rate
  BY <1>4, <1>5
<1>12. 2 * (rate * half) >= w - rate
  <2>1. CASE 1 >= y
    <3>1. half = 1 /\ y * rate <= 1 * rate
      BY <1>4, <1>5, <2>1, Scaled
    <3>2. y * rate = rate * y /\ rate * y \in Int /\ rate * half = rate
      BY <1>4, <3>1
    <3>3. QED BY <1>2, <1>4, <3>1, <3>2
  <2>2. CASE ~(1 >= y)
    BY <1>4, <1>5, <2>2
  <2>3. QED BY <2>1, <2>2
<1>13. QED BY <1>3, <1>10, <1>11, <1>12 DEF x, half, w, F

(* The passband of an accepted config is inside the sampled spectrum.      *)
LEMMA BandIs ==
    ASSUME NEW c, Sound(c)
    PROVE  LET band == PassbandFor(c) IN
           /\ c.sample_rate \in Int /\ c.sample_rate > 0
           /\ band.offset_hz \in Int /\ band.bandwidth_hz \in Int /\ band.bandwidth_hz > 0
           /\ 2 * band.offset_hz + band.bandwidth_hz <= c.sample_rate
           /\ band.bandwidth_hz - 2 * band.offset_hz <= c.sample_rate
<1>. DEFINE band == PassbandFor(c)
            r == c.sample_rate
<1>1. c \in Config /\ Validate(c)
  BY DEF Sound
<1>2. r \in Int /\ r >= 5000
  BY <1>1 DEF Config, Validate, MinRate
<1>3. CASE c.mode = "beacon"
  <2>1. ValidBeacon(c)
    BY <1>1, <1>3 DEF Validate
  <2>2. PICK b \in BeaconConfig : c.beacon = Some(b)
    BY <1>1, <2>1, OptOf DEF Config, ValidBeacon
  <2>3. b.bandwidth_hz > 0 /\ 2 * Abs(b.offset_hz) + b.bandwidth_hz <= r
    BY <2>1, <2>2, SomeIs DEF ValidBeacon
  <2>4. band = b
    BY <1>3, <2>2, Unwrapped DEF PassbandFor
  <2>5. b.offset_hz \in Int /\ b.bandwidth_hz \in Int
    BY <2>2 DEF BeaconConfig
  <2>6. 2 * b.offset_hz <= 2 * Abs(b.offset_hz) /\ -(2 * b.offset_hz) <= 2 * Abs(b.offset_hz)
        /\ Abs(b.offset_hz) \in Int
    BY <2>5 DEF Abs
  <2>7. QED BY <1>2, <2>3, <2>4, <2>5, <2>6
<1>4. CASE c.mode # "beacon"
  <2>1. c.mode \in {"usb", "lsb", "am", "nfm", "wfm", "cw"}
    BY <1>1, <1>4 DEF Config, Modes
  <2>2. \/ band = [offset_hz |-> 30, bandwidth_hz |-> 54]
        \/ band = [offset_hz |-> -30, bandwidth_hz |-> 54]
        \/ band = [offset_hz |-> 0, bandwidth_hz |-> 120]
        \/ band = [offset_hz |-> 0, bandwidth_hz |-> 250]
        \/ band = [offset_hz |-> 0, bandwidth_hz |-> 3000]
        \/ band = [offset_hz |-> 14, bandwidth_hz |-> 10]
    BY <2>1 DEF PassbandFor
  <2>. HIDE DEF band
  <2>3. /\ band.offset_hz \in Int /\ band.bandwidth_hz \in Int /\ band.bandwidth_hz > 0
        /\ 2 * band.offset_hz + band.bandwidth_hz <= 5000
        /\ band.bandwidth_hz - 2 * band.offset_hz <= 5000
    BY <2>2
  <2>4. QED BY <1>2, <2>3 DEF band
<1>5. QED BY <1>3, <1>4

(* So much of the spectrum as is left has a bin for the noise in it.       *)
LEMMA NoiseIsLeft ==
    ASSUME NEW middle \in Int, NEW half \in Nat, half >= 1,
           middle + half <= FFT_SIZE + 1, middle - half >= -1,
           half >= 2, 4 * half < FFT_SIZE - 1
    PROVE  Measurable([lo |-> Max({0, middle - half}), hi |-> Min({FFT_SIZE - 1, middle + half}),
                       half |-> half])
<1>. DEFINE lo == Max({0, middle - half})
            hi == Min({FFT_SIZE - 1, middle + half})
            range == [lo |-> lo, hi |-> hi, half |-> half]
<1>1. FFT_SIZE \in Nat /\ FFT_SIZE >= 4
  BY FftAssumption
<1>2. lo = IF 0 >= middle - half THEN 0 ELSE middle - half
  BY MaxOf
<1>3. hi = IF FFT_SIZE - 1 <= middle + half THEN FFT_SIZE - 1 ELSE middle + half
  BY <1>1, MinOf
<1>. HIDE DEF lo, hi
<1>4. lo \in Int /\ hi \in Int /\ hi > lo
  BY <1>1, <1>2, <1>3
<1>5. /\ GuardLo(range) = IF 0 >= lo - half THEN 0 ELSE lo - half
      /\ GuardHi(range) = IF FFT_SIZE - 1 <= hi + half THEN FFT_SIZE - 1 ELSE hi + half
  <2>1. Max({0, lo - half}) = IF 0 >= lo - half THEN 0 ELSE lo - half
    BY <1>4, MaxOf
  <2>2. Min({FFT_SIZE - 1, hi + half}) =
            IF FFT_SIZE - 1 <= hi + half THEN FFT_SIZE - 1 ELSE hi + half
    BY <1>1, <1>4, MinOf
  <2>3. QED BY <2>1, <2>2 DEF GuardLo, GuardHi, Guard
<1>6. range.lo = lo /\ range.hi = hi
  OBVIOUS
<1>. HIDE DEF range
<1>7. HasNoiseBins(range)
  BY <1>1, <1>2, <1>3, <1>4, <1>5 DEF HasNoiseBins
<1>8. QED BY <1>4, <1>6, <1>7 DEF Measurable, range, lo, hi

(* A sound config fits, and a moderate one can be measured.                *)
LEMMA SoundFits == Sound(active) => BandFits
<1>. SUFFICES ASSUME Sound(active) PROVE BandFits
  OBVIOUS
<1>. DEFINE band == PassbandFor(active)
            r == active.sample_rate
            x == OffsetBins(band.offset_hz, r)
            half == HalfWidthBins(band.bandwidth_hz, r)
            w == band.bandwidth_hz * FFT_SIZE
            middle == Center + x
<1>1. /\ r \in Int /\ r > 0
      /\ band.offset_hz \in Int /\ band.bandwidth_hz \in Int /\ band.bandwidth_hz > 0
      /\ 2 * band.offset_hz + band.bandwidth_hz <= r
      /\ band.bandwidth_hz - 2 * band.offset_hz <= r
  BY BandIs
<1>. HIDE DEF band, r
<1>2. /\ x \in Int /\ half \in Nat /\ half >= 1
      /\ x + half <= Center + 1 /\ half - x <= Center + 1
      /\ half = 1 \/ 2 * (r * half) <= w + r
      /\ 2 * (r * half) >= w - r
  BY <1>1, BinsFit
<1>3. FFT_SIZE \in Nat /\ Center \in Nat /\ FFT_SIZE = 2 * Center /\ Center >= 2
  BY CenterIs
<1>. HIDE DEF x, half
<1>4. middle \in Int /\ middle + half <= FFT_SIZE + 1 /\ middle - half >= -1
  BY <1>2, <1>3
<1>5. AcceptedInSpectrum
  BY <1>4 DEF AcceptedInSpectrum, band, r, x, half
<1>6. ModerateCanMeasure
  <2>. SUFFICES ASSUME 5 * band.bandwidth_hz <= 2 * r, w >= 4 * r
                PROVE  Measurable(ActiveRange)
    BY DEF ModerateCanMeasure, band, r
  <2>1. w \in Int
    BY <1>1, <1>3
  <2>2. r * half \in Int /\ r * FFT_SIZE \in Int
    BY <1>1, <1>2, <1>3
  <2>3. 5 * w <= 2 * (r * FFT_SIZE)
    <3>1. (5 * band.bandwidth_hz) * FFT_SIZE <= (2 * r) * FFT_SIZE
      BY <1>1, <1>3, Scaled
    <3>2. (5 * band.bandwidth_hz) * FFT_SIZE = 5 * w /\ (2 * r) * FFT_SIZE = 2 * (r * FFT_SIZE)
      BY <1>1, <1>3
    <3>3. QED BY <3>1, <3>2
  <2>. HIDE DEF w
  <2>4. half >= 2
    <3>1. 2 * (r * half) >= 3 * r
      BY <1>1, <1>2, <2>1, <2>2
    <3>2. half = 1 => r * half = r
      BY <1>1
    <3>3. QED BY <1>1, <1>2, <3>1, <3>2
  <2>5. 10 * half <= 2 * FFT_SIZE + 5
    <3>1. 10 * (r * half) <= 2 * (r * FFT_SIZE) + 5 * r
      BY <1>1, <1>2, <2>1, <2>2, <2>3, <2>4
    <3>2. r * (10 * half) = 10 * (r * half) /\ r * (2 * FFT_SIZE + 5) = 2 * (r * FFT_SIZE) + 5 * r
      BY <1>1, <1>2, <1>3
    <3>3. QED BY <1>1, <1>2, <1>3, <3>1, <3>2, Cancel
  <2>6. FFT_SIZE >= 10
    <3>1. 10 * r <= r * FFT_SIZE
      BY <1>1, <2>1, <2>2, <2>3
    <3>2. r * 10 <= r * FFT_SIZE
      BY <1>1, <3>1
    <3>3. QED BY <1>1, <1>3, <3>2, Cancel
  <2>7. 4 * half < FFT_SIZE - 1
    BY <1>2, <1>3, <2>4, <2>5, <2>6
  <2>. HIDE DEF middle
  <2>8. Measurable([lo |-> Max({0, middle - half}), hi |-> Min({FFT_SIZE - 1, middle + half}),
                    half |-> half])
    BY <1>2, <1>4, <2>4, <2>7, NoiseIsLeft
  <2>9. QED BY <2>8 DEF ActiveRange, BinRange, middle, x, half, band, r
<1>7. QED BY <1>5, <1>6 DEF BandFits

-----------------------------------------------------------------------------
(* The theorems                                                            *)

(* The running config always is of its type, whatever was typed, sent or   *)
(* pushed: config.rs Config.                                               *)
THEOREM TypeCorrect == Spec => []TypeOK
<1>1. IInv => TypeOK
  BY DEF IInv, Sound, TypeOK
<1>2. QED BY <1>1, Invariant, PTL

(* The file always loads, and it loads as the running config, or as that   *)
(* under an earlier version once a record of one did not reach it          *)
(* (server.rs apply_config, persist_config_version).                       *)
THEOREM FileLoads == Spec => []FileIsRunning
<1>1. IInv => FileIsRunning
  BY DEF IInv, Lags, Versioned, FileIsRunning
<1>2. QED BY <1>1, Invariant, PTL

(* A push that took effect is recorded under its version and leaves what   *)
(* is the node's own alone, whatever it pushed for a mode; one with a mode *)
(* there is is in effect to the last field (sync.rs apply_push,            *)
(* to_config_update; server.rs build_yaml_from_update; yaml.rs parse).     *)
THEOREM PushesHold == Spec => PushTakesHold
<1>1. IInv => \A version \in 1 .. MaxVersion, pushed \in Pushes :
                 Push(version, pushed) =>
                    /\ AppliedVersion(active') = version /\ NodeLocal(active') = NodeLocal(active)
                    /\ pushed.mode \in Modes => FromConfig(active') = pushed
  BY PushStep
<1>2. QED BY <1>1, Invariant, PTL DEF PushTakesHold, Spec

(* A client that PUTs the view it got changes nothing.  A page that is     *)
(* saved unedited tidies what it shows and changes no other field, the     *)
(* token, the version and the period least of all, or is refused for a     *)
(* grid square that has become too short (server.rs                        *)
(* build_yaml_from_update, app.js saveConfig).                             *)
THEOREM ComesBackUnchanged == Spec => []ComesBack
<1>1. IInv => ComesBack
  BY SoundComesBack DEF IInv
<1>2. QED BY <1>1, Invariant, PTL

(* What validate accepts is inside the spectrum, and a passband that       *)
(* leaves room for its guards can be measured, at every size of a frame    *)
(* (config.rs validate, measure.rs start_window).                          *)
THEOREM AcceptedFits == Spec => []BandFits
<1>1. IInv => BandFits
  BY SoundFits DEF IInv
<1>2. QED BY <1>1, Invariant, PTL
=============================================================================
