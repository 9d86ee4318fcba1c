--------------------------- MODULE PpSourcesProofs ---------------------------
(***************************************************************************)
(* PpSources finds the text of a token, whatever buffers are added and     *)
(* when, and a range over two buffers has none.                            *)
(***************************************************************************)
EXTENDS PpSources, SequenceTheorems, TLAPS

\* What every step keeps.  The text of the last answer is part of it, since
\* add must not change what an offset means.
IInv == TypeOK /\ BasesIncrease /\ OwnerIsBetween /\ RangesHaveTheirText /\ NoTextOverBuffers

LEMMA EntryTypes ==
  ASSUME SourcesAssumption, TypeOK, NEW i \in DOMAIN entries
  PROVE  /\ i \in 1 .. Len(entries)
         /\ entries[i].base \in Nat /\ entries[i].text \in Seq(Chars)
         /\ Len(entries[i].text) \in Nat
         /\ Past(entries[i]) \in Nat /\ entries[i].base <= Past(entries[i])
<1> DEFINE Entries == [text : Texts, base : Nat]
<1>0. entries \in Seq(Entries)
  BY DEF TypeOK
<1> HIDE DEF Entries
<1>3. i \in 1 .. Len(entries) /\ Len(entries) \in Nat /\ entries[i] \in Entries
  BY <1>0
<1>1. entries[i] \in [text : Texts, base : Nat]
  BY <1>3 DEF Entries
<1>2. entries[i].text \in Seq(Chars)
  BY <1>1 DEF SourcesAssumption
<1> QED
  BY <1>1, <1>2, <1>3 DEF Past

LEMMA RangeTypes ==
  ASSUME SourcesAssumption, TypeOK, NEW i \in DOMAIN entries, NEW r \in RangesOf(entries[i])
  PROVE  /\ r.begin \in Nat /\ r.end \in Nat
         /\ entries[i].base <= r.begin /\ r.begin < r.end /\ r.end <= Past(entries[i])
BY EntryTypes DEF RangesOf

\* The last token of a line, like the first, is of some buffer.
LEMMA LineTypes ==
  ASSUME SourcesAssumption, TypeOK, pc # "idle"
  PROVE  /\ \E i \in DOMAIN entries : line[1] \in RangesOf(entries[i])
         /\ \E i \in DOMAIN entries : line[Len(line)] \in RangesOf(entries[i])
         /\ Begin \in Nat /\ End \in Nat
<1>1. line \in Seq(Ranges) /\ Len(line) \in Nat /\ Len(line) >= 1
  BY DEF TypeOK
<1>2. line[1] \in Ranges /\ line[Len(line)] \in Ranges
  BY <1>1
<1>3. /\ \E i \in DOMAIN entries : line[1] \in RangesOf(entries[i])
      /\ \E i \in DOMAIN entries : line[Len(line)] \in RangesOf(entries[i])
  BY <1>2 DEF Ranges
<1> QED
  BY <1>3, RangeTypes DEF Begin, End

\* When the search ends, no other buffer has an offset that the owner has.
LEMMA SearchEndsAtTheOwner ==
  ASSUME SourcesAssumption, IInv, pc = "find", hi - lo <= 1,
         NEW i \in DOMAIN entries, entries[i].base <= Begin, Begin <= Past(entries[i])
  PROVE  i = lo
<1>1. lo \in DOMAIN entries /\ hi = lo + 1 /\ lo \in Nat /\ Begin \in Nat
  <2>1. Begin \in Nat
    BY LineTypes DEF IInv
  <2> QED
    BY <2>1 DEF IInv, OwnerIsBetween, TypeOK
<1>2. ~(i < lo)
  <2>1. i < lo => Past(entries[i]) < entries[lo].base
    BY <1>1 DEF IInv, BasesIncrease
  <2>2. entries[lo].base <= Begin
    BY DEF IInv, OwnerIsBetween
  <2>3. Past(entries[i]) \in Nat /\ entries[lo].base \in Nat
    BY <1>1, EntryTypes DEF IInv
  <2> QED
    BY <1>1, <2>1, <2>2, <2>3
<1>3. ~(lo < i)
  <2> SUFFICES ASSUME lo < i PROVE FALSE
    OBVIOUS
  <2>1. hi \in DOMAIN entries /\ hi <= i /\ hi <= Len(entries)
    BY <1>1, EntryTypes DEF IInv, TypeOK
  <2>2. Begin < entries[hi].base
    BY <2>1 DEF IInv, OwnerIsBetween
  <2>3. /\ entries[hi].base \in Nat /\ entries[i].base \in Nat
        /\ Past(entries[hi]) \in Nat /\ entries[hi].base <= Past(entries[hi])
        /\ hi \in Nat /\ i \in Nat
    BY <2>1, EntryTypes DEF IInv, TypeOK
  <2>4. hi < i => Past(entries[hi]) < entries[i].base
    BY <2>1 DEF IInv, BasesIncrease
  <2>5. hi = i \/ hi < i
    BY <2>1, <2>3
  <2> QED
    BY <1>1, <2>2, <2>3, <2>4, <2>5
<1> QED
  BY <1>1, <1>2, <1>3, EntryTypes DEF IInv

\* text() of a range within the buffer it was looked up by.
LEMMA TextWithin ==
  ASSUME SourcesAssumption, TypeOK, BasesIncrease,
         NEW i \in DOMAIN entries, NEW r \in RangesOf(entries[i])
  PROVE  Text(entries[i], r.begin, r.end) = Spelled(entries[i], r)
<1> DEFINE e == entries[i]
<1>1. /\ e.base \in Nat /\ Len(e.text) \in Nat /\ r.begin \in Nat /\ r.end \in Nat
      /\ e.base <= r.begin /\ r.begin < r.end /\ r.end <= e.base + Len(e.text)
  BY EntryTypes, RangeTypes DEF Past
<1>2. SizeMod \in Nat /\ r.end < SizeMod
  BY <1>1 DEF SourcesAssumption, BasesIncrease, TypeOK, Past
<1>3. Minus(r.begin, e.base) = r.begin - e.base /\ Minus(r.end, r.begin) = r.end - r.begin
  BY <1>1 DEF Minus
<1>4. Plus(r.begin - e.base, r.end - r.begin) = r.end - e.base
  BY <1>1, <1>2 DEF Plus
<1>5. (r.begin - e.base) + (r.end - r.begin) = r.end - e.base
  BY <1>1
<1> QED
  BY <1>1, <1>3, <1>4, <1>5 DEF Text, Spelled

\* text() of a range that ends in another buffer.
LEMMA TextOver ==
  ASSUME SourcesAssumption, TypeOK, BasesIncrease,
         NEW i \in DOMAIN entries, NEW r \in RangesOf(entries[i]),
         NEW j \in DOMAIN entries, NEW s \in RangesOf(entries[j]), i # j
  PROVE  Text(entries[i], r.begin, s.end) = <<>>
<1> DEFINE e == entries[i]
<1>1. /\ e.base \in Nat /\ Len(e.text) \in Nat /\ r.begin \in Nat /\ s.end \in Nat
      /\ e.base <= r.begin /\ r.begin <= e.base + Len(e.text)
  BY EntryTypes, RangeTypes DEF Past
<1>2. SizeMod \in Nat /\ s.end < SizeMod /\ e.base + Len(e.text) < SizeMod
  <2>1. /\ Past(e) \in Nat /\ Past(entries[j]) \in Nat /\ s.end <= Past(entries[j])
        /\ next \in Nat /\ SizeMod \in Nat
    BY EntryTypes, RangeTypes DEF SourcesAssumption, TypeOK
  <2>2. Past(e) < next /\ Past(entries[j]) < next /\ next < SizeMod
    BY DEF BasesIncrease
  <2> QED
    BY <1>1, <2>1, <2>2 DEF Past
<1>3. Minus(r.begin, e.base) = r.begin - e.base
  BY <1>1 DEF Minus
<1>4. CASE i < j
  <2>1. s.end > e.base + Len(e.text)
    <3>1. Past(e) < entries[j].base
      BY <1>4 DEF BasesIncrease
    <3>2. entries[j].base \in Nat /\ entries[j].base <= s.begin /\ s.begin < s.end /\ s.begin \in Nat
      BY EntryTypes, RangeTypes
    <3> QED
      BY <1>1, <3>1, <3>2 DEF Past
  <2>2. Plus(r.begin - e.base, Minus(s.end, r.begin)) = s.end - e.base
    BY <1>1, <1>2, <2>1 DEF Plus, Minus
  <2> QED
    BY <1>1, <1>3, <2>1, <2>2 DEF Text
<1>5. CASE j < i
  <2>1. s.end < e.base
    BY <1>1, <1>5, EntryTypes, RangeTypes DEF BasesIncrease, Past
  <2>2. Plus(r.begin - e.base, Minus(s.end, r.begin)) = s.end - e.base + SizeMod
    BY <1>1, <1>2, <2>1 DEF Plus, Minus
  <2> QED
    BY <1>1, <1>2, <1>3, <2>1, <2>2 DEF Text
<1> QED
  BY <1>4, <1>5, EntryTypes

-----------------------------------------------------------------------------
\* A buffer that is added keeps every other and their ranges.
LEMMA AddKeepsTheOthers ==
  ASSUME SourcesAssumption, TypeOK, add
  PROVE  /\ entries' \in Seq([text : Texts, base : Nat]) /\ entries' # <<>>
         /\ \A i \in DOMAIN entries : i \in DOMAIN entries' /\ entries'[i] = entries[i]
         /\ \E text \in Texts :
              /\ Len(text) \in Nat /\ next + Len(text) + 1 < SizeMod
              /\ next' = next + Len(text) + 1
              /\ \A i \in DOMAIN entries' :
                   i \in DOMAIN entries \/ (/\ i = Len(entries) + 1
                                            /\ entries'[i] = Entry(text, next))
         /\ Len(entries') = Len(entries) + 1
         /\ Ranges \subseteq Ranges'
<1> DEFINE Entries == [text : Texts, base : Nat]
<1>1. entries \in Seq(Entries) /\ next \in Nat
  BY DEF TypeOK
<1>2. PICK text \in Texts : /\ next + Len(text) + 1 < SizeMod
                            /\ entries' = Append(entries, Entry(text, next))
                            /\ next' = next + Len(text) + 1
  BY DEF add
<1>3. Len(text) \in Nat
  BY DEF SourcesAssumption
<1>4. Entry(text, next) \in Entries
  BY <1>1 DEF Entry
<1> HIDE DEF Entries
<1>5. /\ entries' \in Seq(Entries) /\ entries' # <<>> /\ Len(entries') = Len(entries) + 1
      /\ DOMAIN entries = 1 .. Len(entries) /\ DOMAIN entries' = 1 .. Len(entries) + 1
      /\ Len(entries) \in Nat
      /\ \A i \in DOMAIN entries : entries'[i] = entries[i]
      /\ entries'[Len(entries) + 1] = Entry(text, next)
  BY <1>1, <1>2, <1>4
<1>6. \A i \in DOMAIN entries : i \in DOMAIN entries' /\ entries'[i] = entries[i]
  BY <1>5
<1>7. Ranges \subseteq Ranges'
  <2> SUFFICES ASSUME NEW r \in Ranges PROVE r \in Ranges'
    OBVIOUS
  <2>1. PICK i \in DOMAIN entries : r \in RangesOf(entries[i])
    BY DEF Ranges
  <2>2. i \in DOMAIN entries' /\ r \in RangesOf(entries'[i])
    BY <1>6, <2>1
  <2> QED
    BY <2>2 DEF Ranges
<1>8. \A i \in DOMAIN entries' :
        i \in DOMAIN entries \/ (i = Len(entries) + 1 /\ entries'[i] = Entry(text, next))
  BY <1>5
<1> QED
  BY <1>2, <1>3, <1>5, <1>6, <1>7, <1>8 DEF Entries

LEMMA InitKeeps ==
  ASSUME SourcesAssumption, Init
  PROVE  IInv
<1>1. PICK main \in Texts : /\ Len(main) + 1 < SizeMod
                            /\ entries = <<Entry(main, 0)>>
                            /\ next = Len(main) + 1
  BY DEF Init
<1>2. main \in Seq(Chars) /\ Len(main) \in Nat
  BY DEF SourcesAssumption
<1>3. /\ entries \in Seq([text : Texts, base : Nat]) /\ entries # <<>>
      /\ Len(entries) = 1 /\ DOMAIN entries = {1} /\ entries[1] = Entry(main, 0)
  BY <1>1 DEF Entry
<1>4. Past(entries[1]) = Len(main) /\ entries[1].base = 0
  BY <1>2, <1>3 DEF Past, Entry
<1>5. TypeOK
  BY <1>1, <1>2, <1>3 DEF TypeOK, Init
<1>6. BasesIncrease
  BY <1>1, <1>2, <1>3, <1>4 DEF BasesIncrease
<1> QED
  BY <1>5, <1>6 DEF IInv, OwnerIsBetween, RangesHaveTheirText, NoTextOverBuffers, Init

LEMMA AddKeeps ==
  ASSUME SourcesAssumption, IInv, add
  PROVE  IInv'
<1>1. TypeOK /\ BasesIncrease
  BY DEF IInv
<1>2. /\ pc # "find" /\ pc' = pc /\ line' = line /\ lo' = lo /\ hi' = hi /\ answer' = answer
  BY DEF add
<1>3. PICK text \in Texts :
        /\ Len(text) \in Nat /\ next + Len(text) + 1 < SizeMod
        /\ next' = next + Len(text) + 1
        /\ \A i \in DOMAIN entries' :
             i \in DOMAIN entries \/ (i = Len(entries) + 1 /\ entries'[i] = Entry(text, next))
  BY <1>1, AddKeepsTheOthers
<1>4. \A i \in DOMAIN entries : i \in DOMAIN entries' /\ entries'[i] = entries[i]
  BY <1>1, AddKeepsTheOthers
<1>5. \A i \in DOMAIN entries :
        /\ i \in 1 .. Len(entries) /\ Past(entries[i]) \in Nat /\ entries[i].base \in Nat
        /\ entries[i].base <= Past(entries[i])
  BY <1>1, EntryTypes
<1>6. next \in Nat /\ SizeMod \in Nat /\ Len(entries) \in Nat /\ 1 \in DOMAIN entries
  BY <1>1 DEF TypeOK, SourcesAssumption
<1>7. TypeOK'
  <2>1. pc # "idle" => line \in Seq(Ranges')
    BY <1>1, AddKeepsTheOthers DEF TypeOK
  <2>2. entries' \in Seq([text : Texts, base : Nat]) /\ entries' # <<>>
    BY <1>1, AddKeepsTheOthers
  <2>3. next' \in Nat
    BY <1>3, <1>6
  <2> QED
    BY <1>1, <1>2, <2>1, <2>2, <2>3 DEF TypeOK
<1>8. Entry(text, next).base = next /\ Past(Entry(text, next)) = next + Len(text)
  BY DEF Entry, Past
<1>9. BasesIncrease'
  <2>1. (entries[1].base = 0)'
    BY <1>1, <1>4, <1>6 DEF BasesIncrease
  <2>2. ASSUME NEW i \in DOMAIN entries', NEW j \in DOMAIN entries', i < j
        PROVE  Past(entries'[i]) < entries'[j].base
    <3>1. i \in DOMAIN entries
      BY <1>3, <1>5, <1>6, <2>2
    <3>2. CASE j \in DOMAIN entries
      BY <1>1, <1>4, <2>2, <3>1, <3>2 DEF BasesIncrease
    <3>3. CASE entries'[j] = Entry(text, next)
      BY <1>1, <1>4, <1>8, <3>1, <3>3 DEF BasesIncrease
    <3> QED
      BY <1>3, <3>2, <3>3
  <2>3. ASSUME NEW i \in DOMAIN entries'
        PROVE  Past(entries'[i]) < next'
    <3>1. CASE i \in DOMAIN entries
      <4>1. Past(entries[i]) < next
        BY <1>1, <3>1 DEF BasesIncrease
      <4> QED
        BY <1>3, <1>4, <1>5, <1>6, <3>1, <4>1
    <3>2. CASE entries'[i] = Entry(text, next)
      BY <1>3, <1>6, <1>8, <3>2
    <3> QED
      BY <1>3, <3>1, <3>2
  <2>4. (next < SizeMod)'
    BY <1>3
  <2> QED
    BY <2>1, <2>2, <2>3, <2>4 DEF BasesIncrease, Past
<1>10. OwnerIsBetween'
  BY <1>2 DEF OwnerIsBetween
<1>11. /\ Begin' = Begin /\ End' = End
  BY <1>2 DEF Begin, End
\* The last answer is about offsets below the new buffer.
<1>12. ASSUME pc = "done"
       PROVE  /\ Begin \in Nat /\ End \in Nat /\ Begin < next /\ End < next
              /\ line[1].begin = Begin /\ line[Len(line)].end = End
              /\ line[Len(line)].begin \in Nat /\ line[Len(line)].begin < next
  <2>1. PICK k \in DOMAIN entries : line[1] \in RangesOf(entries[k])
    BY <1>1, <1>12, LineTypes
  <2>2. PICK m \in DOMAIN entries : line[Len(line)] \in RangesOf(entries[m])
    BY <1>1, <1>12, LineTypes
  <2>3. Past(entries[k]) < next /\ Past(entries[m]) < next
    BY <1>1 DEF BasesIncrease
  <2>4. Begin \in Nat /\ Begin <= Past(entries[k])
    BY <1>1, <1>5, <2>1, RangeTypes DEF Begin
  <2>5. /\ End \in Nat /\ End <= Past(entries[m])
        /\ line[Len(line)].begin \in Nat /\ line[Len(line)].begin <= Past(entries[m])
    BY <1>1, <1>5, <2>2, RangeTypes DEF End
  <2> QED
    BY <1>5, <1>6, <2>3, <2>4, <2>5 DEF Begin, End
<1>13. \A r : r \in RangesOf(Entry(text, next)) => r.begin \in Nat /\ r.begin >= next
  BY <1>3, <1>6, <1>8 DEF RangesOf
<1>14. RangesHaveTheirText'
  <2> SUFFICES ASSUME pc = "done", NEW i \in DOMAIN entries',
                      [begin |-> Begin, end |-> End] \in RangesOf(entries'[i])
               PROVE  answer = Spelled(entries'[i], [begin |-> Begin, end |-> End])
    BY <1>2, <1>11 DEF RangesHaveTheirText
  <2>1. i \in DOMAIN entries
    BY <1>3, <1>6, <1>12, <1>13
  <2> QED
    BY <1>4, <2>1 DEF IInv, RangesHaveTheirText
<1>15. NoTextOverBuffers'
  <2> SUFFICES ASSUME pc = "done", NEW i \in DOMAIN entries',
                      line[1] \in RangesOf(entries'[i]),
                      line[Len(line)] \notin RangesOf(entries'[i])
               PROVE  answer = <<>>
    BY <1>2 DEF NoTextOverBuffers
  <2>1. i \in DOMAIN entries
    BY <1>3, <1>6, <1>12, <1>13
  <2> QED
    BY <1>4, <2>1 DEF IInv, NoTextOverBuffers
<1> QED
  BY <1>7, <1>9, <1>10, <1>14, <1>15 DEF IInv

LEMMA AskKeeps ==
  ASSUME SourcesAssumption, IInv, Ask
  PROVE  IInv'
<1>1. TypeOK /\ BasesIncrease
  BY DEF IInv
<1>2. /\ pc' = "find" /\ lo' = 1 /\ hi' = Len(entries) + 1
      /\ entries' = entries /\ next' = next /\ answer' = answer
  BY DEF Ask
<1>3. /\ line' \in Seq(Ranges) /\ line' # <<>>
  <2>1. PICK n \in 1 .. MaxTokens : \E l \in [1 .. n -> Ranges] : line' = l
    BY DEF Ask
  <2>2. n \in Nat /\ n >= 1
    BY <2>1 DEF SourcesAssumption
  <2> QED
    BY <2>1, <2>2
<1>4. Ranges' = Ranges
  BY <1>2 DEF Ranges, RangesOf
<1>5. TypeOK'
  BY <1>1, <1>2, <1>3, <1>4 DEF TypeOK
<1>6. BasesIncrease'
  BY <1>1, <1>2 DEF BasesIncrease, Past
<1>7. OwnerIsBetween'
  <2>1. line'[1] \in Ranges
    BY <1>3
  <2>2. PICK i \in DOMAIN entries : line'[1] \in RangesOf(entries[i])
    BY <2>1 DEF Ranges
  <2>3. Begin' \in Nat /\ entries[1].base <= Begin'
    BY <1>1, <2>2, RangeTypes DEF Begin, BasesIncrease
  <2>4. Len(entries) \in Nat /\ Len(entries) >= 1
    BY <1>1 DEF TypeOK
  <2> QED
    BY <1>2, <2>3, <2>4 DEF OwnerIsBetween
<1> QED
  BY <1>2, <1>5, <1>6, <1>7 DEF IInv, RangesHaveTheirText, NoTextOverBuffers

\* Either half of the interval that the loop keeps is the one with the owner.
LEMMA HalveKeeps ==
  ASSUME SourcesAssumption, IInv, Halve
  PROVE  IInv'
<1>1. TypeOK /\ BasesIncrease /\ OwnerIsBetween
  BY DEF IInv
<1>2. /\ pc = "find" /\ pc' = pc /\ line' = line /\ hi - lo > 1
      /\ entries' = entries /\ next' = next /\ answer' = answer
  BY DEF Halve
<1> DEFINE mid == lo + (hi - lo) \div 2
<1>3. /\ lo \in Nat /\ hi \in Nat /\ Len(entries) \in Nat
      /\ 1 <= lo /\ hi <= Len(entries) + 1
  BY <1>1, <1>2 DEF TypeOK, OwnerIsBetween
<1>4. mid \in Nat /\ lo < mid /\ mid < hi
  BY <1>2, <1>3
<1>5. \/ entries[mid].base <= Begin /\ lo' = mid /\ hi' = hi
      \/ ~(entries[mid].base <= Begin) /\ hi' = mid /\ lo' = lo
  BY DEF Halve
<1> HIDE DEF mid
<1>6. entries[mid].base \in Nat /\ Begin \in Nat
  <2>1. mid \in DOMAIN entries
    BY <1>1, <1>3, <1>4 DEF TypeOK
  <2> QED
    BY <1>1, <1>2, <2>1, EntryTypes, LineTypes
<1>7. Begin' = Begin
  BY <1>2 DEF Begin
<1>8. TypeOK'
  <2>1. Ranges' = Ranges
    BY <1>2 DEF Ranges, RangesOf
  <2>2. lo' \in Nat /\ hi' \in Nat
    BY <1>3, <1>4, <1>5
  <2> QED
    BY <1>1, <1>2, <2>1, <2>2 DEF TypeOK
<1>9. BasesIncrease'
  BY <1>1, <1>2 DEF BasesIncrease, Past
<1>10. OwnerIsBetween'
  <2>1. /\ entries[lo].base <= Begin
        /\ hi <= Len(entries) => Begin < entries[hi].base
    BY <1>1, <1>2 DEF OwnerIsBetween
  <2>2. CASE entries[mid].base <= Begin /\ lo' = mid /\ hi' = hi
    BY <1>2, <1>3, <1>4, <1>7, <2>1, <2>2 DEF OwnerIsBetween
  <2>3. CASE ~(entries[mid].base <= Begin) /\ hi' = mid /\ lo' = lo
    <3>1. Begin < entries[mid].base
      BY <1>6, <2>3
    <3> QED
      BY <1>2, <1>3, <1>4, <1>7, <2>1, <2>3, <3>1 DEF OwnerIsBetween
  <2> QED
    BY <1>5, <2>2, <2>3
<1> QED
  BY <1>2, <1>8, <1>9, <1>10 DEF IInv, RangesHaveTheirText, NoTextOverBuffers

LEMMA AnswerKeeps ==
  ASSUME SourcesAssumption, IInv, Answer
  PROVE  IInv'
<1>1. TypeOK /\ BasesIncrease /\ OwnerIsBetween
  BY DEF IInv
<1>2. /\ pc = "find" /\ pc' = "done" /\ hi - lo <= 1 /\ line' = line
      /\ entries' = entries /\ next' = next /\ lo' = lo /\ hi' = hi
      /\ answer' = Text(entries[lo], Begin, End)
  BY DEF Answer
<1>3. /\ Begin' = Begin /\ End' = End
  BY <1>2 DEF Begin, End
<1>4. ASSUME NEW i \in DOMAIN entries, NEW r \in RangesOf(entries[i]), r.begin = Begin
      PROVE  i = lo
  <2>1. entries[i].base <= Begin /\ Begin <= Past(entries[i])
    BY <1>1, <1>4, RangeTypes, EntryTypes
  <2> QED
    BY <1>2, <2>1, SearchEndsAtTheOwner
<1>5. PICK i \in DOMAIN entries : line[1] \in RangesOf(entries[i])
  BY <1>1, <1>2, LineTypes
<1>6. PICK j \in DOMAIN entries : line[Len(line)] \in RangesOf(entries[j])
  BY <1>1, <1>2, LineTypes
<1>7. i = lo
  BY <1>4, <1>5 DEF Begin
<1>8. RangesHaveTheirText'
  <2> SUFFICES ASSUME NEW k \in DOMAIN entries,
                      [begin |-> Begin, end |-> End] \in RangesOf(entries[k])
               PROVE  answer' = Spelled(entries[k], [begin |-> Begin, end |-> End])
    BY <1>2, <1>3 DEF RangesHaveTheirText
  <2> DEFINE r == [begin |-> Begin, end |-> End]
  <2>1. k = lo
    BY <1>4
  <2>2. Text(entries[k], r.begin, r.end) = Spelled(entries[k], r)
    BY <1>1, TextWithin
  <2> QED
    BY <1>2, <2>1, <2>2
<1>9. line[1].begin = Begin /\ line[Len(line)].end = End
  BY DEF Begin, End
<1>10. NoTextOverBuffers'
  <2> SUFFICES ASSUME NEW k \in DOMAIN entries, line[1] \in RangesOf(entries[k]),
                      line[Len(line)] \notin RangesOf(entries[k])
               PROVE  answer' = <<>>
    BY <1>2 DEF NoTextOverBuffers
  <2>1. k = lo /\ j # lo
    BY <1>4, <1>6, <1>9
  <2>2. Text(entries[k], line[1].begin, line[Len(line)].end) = <<>>
    BY <1>1, <1>6, <2>1, TextOver
  <2> QED
    BY <1>2, <1>9, <2>1, <2>2
<1>11. answer' \in Seq(Chars)
  <2> DEFINE e == entries[lo]
             from == Minus(Begin, e.base)
             size == Len(e.text)
             n == IF from + Minus(End, Begin) <= size THEN from + Minus(End, Begin) ELSE size
  <2>1. /\ e.text \in Seq(Chars) /\ size \in Nat /\ Begin \in Nat /\ e.base \in Nat
        /\ e.base <= Begin /\ Begin <= e.base + size /\ End \in Nat /\ SizeMod \in Nat
    <3>1. lo \in DOMAIN entries
      BY <1>7
    <3>2. e.text \in Seq(Chars) /\ size \in Nat /\ e.base \in Nat
      BY <1>1, <3>1, EntryTypes
    <3>3. e.base <= Begin /\ Begin <= Past(e) /\ Begin \in Nat
      <4>1. /\ line[1].begin \in Nat /\ line[1].end \in Nat
            /\ e.base <= line[1].begin /\ line[1].begin < line[1].end
            /\ line[1].end <= Past(e) /\ Past(e) \in Nat
        BY <1>1, <1>5, <1>7, RangeTypes, EntryTypes
      <4> QED
        BY <1>9, <4>1
    <3>4. End \in Nat
      BY <1>1, <1>2, LineTypes
    <3> QED
      BY <3>2, <3>3, <3>4 DEF Past, SourcesAssumption
  <2>2. End < SizeMod /\ Begin < SizeMod
    <3>1. /\ Past(entries[j]) < next /\ End <= Past(entries[j]) /\ Past(entries[j]) \in Nat
          /\ Past(entries[i]) < next /\ Begin <= Past(entries[i]) /\ Past(entries[i]) \in Nat
          /\ next < SizeMod /\ next \in Nat
      <4>1. /\ End <= Past(entries[j]) /\ Past(entries[j]) \in Nat
            /\ Begin <= Past(entries[i]) /\ Past(entries[i]) \in Nat
        BY <1>1, <1>5, <1>6, <1>9, EntryTypes, RangeTypes
      <4>2. Past(entries[j]) < next /\ Past(entries[i]) < next /\ next < SizeMod
        BY <1>1 DEF BasesIncrease
      <4> QED
        BY <1>1, <4>1, <4>2 DEF TypeOK
    <3> QED
      BY <2>1, <3>1
  <2>3. from \in 0 .. size /\ Minus(End, Begin) \in Nat
    BY <2>1, <2>2 DEF Minus
  <2>4. from + 1 \in 1 .. Len(e.text) + 1 /\ n \in from + 1 - 1 .. Len(e.text)
    BY <2>1, <2>3
  <2>5. SubSeq(e.text, from + 1, n) \in Seq(Chars)
    BY <2>1, <2>4, SubSeqProperties
  <2>6. <<>> \in Seq(Chars)
    OBVIOUS
  <2>7. Text(e, Begin, End) \in {<<>>, SubSeq(e.text, from + 1, n)}
    BY DEF Text
  <2> QED
    BY <1>2, <2>5, <2>6, <2>7
<1>12. TypeOK'
  <2>1. Ranges' = Ranges
    BY <1>2 DEF Ranges, RangesOf
  <2> QED
    BY <1>1, <1>2, <1>11, <2>1 DEF TypeOK
<1>13. BasesIncrease'
  BY <1>1, <1>2 DEF BasesIncrease, Past
<1>14. OwnerIsBetween'
  BY <1>2 DEF OwnerIsBetween
<1> QED
  BY <1>8, <1>10, <1>12, <1>13, <1>14 DEF IInv

LEMMA StutterKeeps ==
  ASSUME IInv, UNCHANGED vars
  PROVE  IInv'
<1>1. Ranges' = Ranges /\ Begin' = Begin /\ End' = End
  BY DEF vars, Ranges, RangesOf, Begin, End
<1> QED
  BY <1>1 DEF vars, IInv, TypeOK, BasesIncrease, OwnerIsBetween, RangesHaveTheirText,
              NoTextOverBuffers, RangesOf, Past, Spelled

LEMMA Inductive ==
  ASSUME SourcesAssumption
  PROVE  Spec => []IInv
<1>1. Init => IInv
  BY InitKeeps
<1>2. IInv /\ [Next]_vars => IInv'
  BY AddKeeps, AskKeeps, HalveKeeps, AnswerKeeps, StutterKeeps DEF Next
<1> QED
  BY <1>1, <1>2, PTL DEF Spec

\* The search of find() (Preprocessor.hpp:100) never loses the buffer that
\* owns the offset, and ends at it.
THEOREM FindsTheOwner ==
  ASSUME SourcesAssumption
  PROVE  Spec => []OwnerIsBetween
<1>1. IInv => OwnerIsBetween
  BY DEF IInv
<1> QED
  BY <1>1, Inductive, PTL

\* text() (Preprocessor.hpp:79) gives a token its characters, before and after
\* any number of calls of add.
THEOREM TokensKeepTheirText ==
  ASSUME SourcesAssumption
  PROVE  Spec => []RangesHaveTheirText
<1>1. IInv => RangesHaveTheirText
  BY DEF IInv
<1> QED
  BY <1>1, Inductive, PTL

\* text() of a range over two buffers is empty, although its length wraps.
THEOREM NothingOverTwoBuffers ==
  ASSUME SourcesAssumption
  PROVE  Spec => []NoTextOverBuffers
<1>1. IInv => NoTextOverBuffers
  BY DEF IInv
<1> QED
  BY <1>1, Inductive, PTL
=============================================================================
