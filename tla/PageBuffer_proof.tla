--------------------------- MODULE PageBuffer_proof ---------------------------
(* Theorems about PageBuffer, for every value of its constants: every page  *)
(* size, and every mix of formats and failures of malloc and vsnprintf.     *)
EXTENDS PageBuffer, DataInduction

(* The inductive invariant: a page can hold at least the NUL.               *)
IInv ==
    /\ TypeOK
    /\ Exists => size > 0
    /\ PagesWithinSize
    /\ InOrder

(* InOrder of any stack of pages, as the argument for a step needs it.      *)
Start(ps, i) == IF i = 1 THEN 0 ELSE ps[i - 1][Len(ps[i - 1])]

Ordered(ps, p) ==
    /\ \A i \in 1 .. Len(ps) - 1 : ps[i] # <<>>
    /\ \A i \in 1 .. Len(ps) : \A k \in 1 .. Len(ps[i]) :
          ps[i][k] = Start(ps, i) + k
    /\ p = Start(ps, Len(ps)) + Len(ps[Len(ps)])

(* A text added to the newest page.                                         *)
Extended(ps, text) == [ps EXCEPT ![Len(ps)] = ps[Len(ps)] \o text]

(* A text that carries on where the first p bytes end.                      *)
RunsOn(text, p) == \A k \in 1 .. Len(text) : text[k] = p + k

-----------------------------------------------------------------------------
(* Sequences: concatenation, a split, one page replaced, one page added.    *)

LEMMA ConcatFacts ==
    ASSUME NEW s \in Seq(Nat), NEW t \in Seq(Nat)
    PROVE  /\ s \o t \in Seq(Nat) /\ Len(s \o t) = Len(s) + Len(t)
           /\ \A k \in 1 .. Len(s) : (s \o t)[k] = s[k]
           /\ \A k \in Len(s) + 1 .. Len(s) + Len(t) : (s \o t)[k] = t[k - Len(s)]
  OBVIOUS

LEMMA SplitFacts ==
    ASSUME NEW s \in Seq(Nat), NEW n \in 0 .. Len(s)
    PROVE  /\ SubSeq(s, 1, n) \in Seq(Nat) /\ Len(SubSeq(s, 1, n)) = n
           /\ \A k \in 1 .. n : SubSeq(s, 1, n)[k] = s[k]
           /\ SubSeq(s, n + 1, Len(s)) \in Seq(Nat)
           /\ Len(SubSeq(s, n + 1, Len(s))) = Len(s) - n
           /\ \A k \in 1 .. Len(s) - n : SubSeq(s, n + 1, Len(s))[k] = s[n + k]
  OBVIOUS

LEMMA ReplaceFacts ==
    ASSUME NEW ps \in Seq(Seq(Nat)), NEW i \in 1 .. Len(ps), NEW p \in Seq(Nat)
    PROVE  /\ [ps EXCEPT ![i] = p] \in Seq(Seq(Nat))
           /\ Len([ps EXCEPT ![i] = p]) = Len(ps)
           /\ [ps EXCEPT ![i] = p][i] = p
           /\ \A j \in 1 .. Len(ps) : j # i => [ps EXCEPT ![i] = p][j] = ps[j]
  OBVIOUS

LEMMA AppendFacts ==
    ASSUME NEW ps \in Seq(Seq(Nat)), NEW p \in Seq(Nat)
    PROVE  /\ Append(ps, p) \in Seq(Seq(Nat))
           /\ Len(Append(ps, p)) = Len(ps) + 1
           /\ Append(ps, p)[Len(ps) + 1] = p
           /\ \A j \in 1 .. Len(ps) : Append(ps, p)[j] = ps[j]
  OBVIOUS

(* A page that is not empty ends in a byte.                                 *)
LEMMA StartNat ==
    ASSUME NEW ps \in Seq(Seq(Nat)), NEW i \in 1 .. Len(ps),
           \A j \in 1 .. Len(ps) - 1 : ps[j] # <<>>
    PROVE  Start(ps, i) \in Nat
  <1>1. CASE i = 1
    BY <1>1 DEF Start
  <1>2. CASE i # 1
    <2> DEFINE p == ps[i - 1]
    <2>1. i - 1 \in 1 .. Len(ps) - 1 /\ i - 1 \in 1 .. Len(ps)
      BY <1>2
    <2>2. p \in Seq(Nat) /\ p # <<>>
      BY <2>1
    <2>3. p[Len(p)] \in Nat
      <3> HIDE DEF p
      <3> QED BY <2>2
    <2> QED BY <1>2, <2>3 DEF Start
  <1> QED BY <1>1, <1>2

(* A text that runs on from the newest page may be put at its end ...       *)
LEMMA ExtendOrdered ==
    ASSUME NEW ps \in Seq(Seq(Nat)), ps # <<>>, NEW p \in Nat, Ordered(ps, p),
           NEW text \in Seq(Nat), RunsOn(text, p)
    PROVE  /\ Extended(ps, text) \in Seq(Seq(Nat))
           /\ Len(Extended(ps, text)) = Len(ps)
           /\ Extended(ps, text)[Len(ps)] \in Seq(Nat)
           /\ Len(Extended(ps, text)[Len(ps)]) = Len(ps[Len(ps)]) + Len(text)
           /\ \A j \in 1 .. Len(ps) - 1 : Extended(ps, text)[j] = ps[j]
           /\ Ordered(Extended(ps, text), p + Len(text))
  <1> DEFINE m   == Len(ps)
             old == ps[m]
             new == old \o text
             qs  == [ps EXCEPT ![m] = new]
  <1>1. m \in Nat /\ m >= 1 /\ m \in 1 .. Len(ps) /\ old \in Seq(Nat)
    OBVIOUS
  <1> HIDE DEF old
  <1>2. /\ new \in Seq(Nat) /\ Len(new) = Len(old) + Len(text)
        /\ \A k \in 1 .. Len(old) : new[k] = old[k]
        /\ \A k \in Len(old) + 1 .. Len(old) + Len(text) :
              new[k] = text[k - Len(old)]
    BY <1>1, ConcatFacts
  <1> HIDE DEF new
  <1>3. /\ qs \in Seq(Seq(Nat)) /\ Len(qs) = m /\ qs[m] = new
        /\ \A j \in 1 .. m : j # m => qs[j] = ps[j]
    BY <1>1, <1>2, ReplaceFacts
  <1> HIDE DEF qs
  <1>4. \A j \in 1 .. m - 1 : qs[j] = ps[j] /\ ps[j] # <<>>
    BY <1>1, <1>3 DEF Ordered
  <1>5. /\ \A k \in 1 .. Len(old) : old[k] = Start(ps, m) + k
        /\ p = Start(ps, m) + Len(old)
    BY <1>1 DEF Ordered, old
  <1>6. Start(ps, m) \in Nat /\ Len(old) \in Nat /\ Len(text) \in Nat
    <2>1. \A j \in 1 .. Len(ps) - 1 : ps[j] # <<>>
      BY DEF Ordered
    <2>2. Start(ps, m) \in Nat
      BY <1>1, <2>1, StartNat
    <2> QED BY <1>1, <2>2
  <1>7. \A i \in 1 .. m : Start(qs, i) = Start(ps, i)
    BY <1>1, <1>4 DEF Start
  <1> HIDE DEF m
  <1>8. \A k \in 1 .. Len(new) : new[k] = Start(ps, m) + k
    <2> SUFFICES ASSUME NEW k \in 1 .. Len(new)
                 PROVE  new[k] = Start(ps, m) + k
      OBVIOUS
    <2>1. CASE k \in 1 .. Len(old)
      BY <1>2, <1>5, <2>1
    <2>2. CASE k \in Len(old) + 1 .. Len(old) + Len(text)
      <3>1. k - Len(old) \in 1 .. Len(text)
        BY <1>6, <2>2
      <3>2. new[k] = p + (k - Len(old))
        BY <1>2, <2>2, <3>1 DEF RunsOn
      <3> QED BY <1>5, <1>6, <2>2, <3>2
    <2> QED BY <1>2, <1>6, <2>1, <2>2
  <1>9. p + Len(text) = Start(qs, m) + Len(new)
    BY <1>1, <1>2, <1>5, <1>6, <1>7
  <1>10. \A i \in 1 .. m : \A k \in 1 .. Len(qs[i]) : qs[i][k] = Start(qs, i) + k
    <2> SUFFICES ASSUME NEW i \in 1 .. m, NEW k \in 1 .. Len(qs[i])
                 PROVE  qs[i][k] = Start(qs, i) + k
      OBVIOUS
    <2>1. CASE i = m
      BY <1>3, <1>7, <1>8, <2>1
    <2>2. CASE i # m
      <3>1. qs[i] = ps[i]
        BY <1>3, <2>2
      <3>2. i \in 1 .. Len(ps) /\ k \in 1 .. Len(ps[i])
        BY <3>1 DEF m
      <3>3. ps[i][k] = Start(ps, i) + k
        BY <3>2 DEF Ordered
      <3> QED BY <1>7, <3>1, <3>3
    <2> QED BY <2>1, <2>2
  <1>11. Ordered(qs, p + Len(text))
    BY <1>3, <1>4, <1>9, <1>10 DEF Ordered
  <1>12. qs = Extended(ps, text)
    BY DEF qs, new, old, m, Extended
  <1>13. Len(new) = Len(ps[m]) + Len(text)
    BY <1>2 DEF old
  <1> QED BY <1>2, <1>3, <1>4, <1>11, <1>12, <1>13 DEF m

(* ... or on a page of its own, if the newest one is not empty.             *)
LEMMA AppendOrdered ==
    ASSUME NEW ps \in Seq(Seq(Nat)), ps # <<>>, NEW p \in Nat, Ordered(ps, p),
           ps[Len(ps)] # <<>>, NEW text \in Seq(Nat), RunsOn(text, p),
           NEW qs \in Seq(Seq(Nat)), Len(qs) = Len(ps) + 1,
           qs[Len(ps) + 1] = text, \A j \in 1 .. Len(ps) : qs[j] = ps[j]
    PROVE  Ordered(qs, p + Len(text))
  <1> DEFINE m == Len(ps)
  <1>1. m \in Nat /\ m >= 1 /\ m = Len(ps) /\ ps[m] \in Seq(Nat) /\ ps[m] # <<>>
    OBVIOUS
  <1>2. /\ qs \in Seq(Seq(Nat)) /\ Len(qs) = m + 1 /\ qs[m + 1] = text
        /\ \A j \in 1 .. m : qs[j] = ps[j]
    OBVIOUS
  <1> HIDE DEF m
  <1>3. \A j \in 1 .. m : qs[j] # <<>>
    <2>1. \A j \in 1 .. m - 1 : ps[j] # <<>>
      BY <1>1 DEF Ordered
    <2>2. \A j \in 1 .. m : j \in 1 .. m - 1 \/ j = m
      BY <1>1
    <2> QED BY <1>1, <1>2, <2>1, <2>2
  <1>4. \A i \in 1 .. m : Start(qs, i) = Start(ps, i)
    <2>1. \A i \in 1 .. m : i # 1 => i - 1 \in 1 .. m
      BY <1>1
    <2> QED BY <1>2, <2>1 DEF Start
  <1>5. Start(qs, m + 1) = p
    <2>1. Len(ps[m]) \in 1 .. Len(ps[m])
      BY <1>1
    <2>2. ps[m][Len(ps[m])] = Start(ps, m) + Len(ps[m])
      <3>1. m \in 1 .. Len(ps)
        BY <1>1
      <3> QED BY <2>1, <3>1 DEF Ordered
    <2>3. Start(qs, m + 1) = ps[m][Len(ps[m])]
      <3>1. m + 1 # 1 /\ (m + 1) - 1 = m /\ m \in 1 .. m
        BY <1>1
      <3> QED BY <1>2, <3>1 DEF Start
    <2> QED BY <1>1, <2>2, <2>3 DEF Ordered
  <1>6. \A i \in 1 .. m + 1 : \A k \in 1 .. Len(qs[i]) : qs[i][k] = Start(qs, i) + k
    <2> SUFFICES ASSUME NEW i \in 1 .. m + 1, NEW k \in 1 .. Len(qs[i])
                 PROVE  qs[i][k] = Start(qs, i) + k
      OBVIOUS
    <2>1. CASE i = m + 1
      BY <1>2, <1>5, <2>1 DEF RunsOn
    <2>2. CASE i \in 1 .. m
      <3>1. qs[i] = ps[i] /\ k \in 1 .. Len(ps[i])
        BY <1>2, <2>2
      <3>2. i \in 1 .. Len(ps)
        BY <1>1, <2>2
      <3>3. ps[i][k] = Start(ps, i) + k
        BY <3>1, <3>2 DEF Ordered
      <3> QED BY <1>4, <2>2, <3>1, <3>3
    <2> QED BY <1>1, <2>1, <2>2
  <1>7. p + Len(text) = Start(qs, m + 1) + Len(qs[m + 1])
    BY <1>2, <1>5
  <1>8. \A j \in 1 .. (m + 1) - 1 : qs[j] # <<>>
    BY <1>1, <1>3
  <1>9. Ordered(qs, p + Len(text))
    BY <1>2, <1>6, <1>7, <1>8 DEF Ordered
  <1> QED BY <1>9

-----------------------------------------------------------------------------
(* The steps. *)

LEMMA InOrderIsOrdered == InOrder <=> (Exists => Ordered(pages, printed))
  BY DEF InOrder, Ordered, Before, Start, top

LEMMA InOrderIsOrderedNext == InOrder' <=> (Exists' => Ordered(pages, printed)')
  BY DEF InOrder, Ordered, Before, Start, top

(* The newest page, and the order of the pages.                             *)
LEMMA PageFacts ==
    ASSUME IInv, Exists
    PROVE  /\ pages \in Seq(Seq(Nat)) /\ pages # <<>>
           /\ top \in Nat /\ top >= 1 /\ top = Len(pages)
           /\ pages[top] \in Seq(Nat) /\ Len(pages[top]) < size
           /\ \A i \in 1 .. top : Len(pages[i]) <= size
           /\ size \in Nat /\ size > 0 /\ printed \in Nat
           /\ Ordered(pages, printed)
  <1>1. Ordered(pages, printed)
    BY InOrderIsOrdered DEF IInv
  <1> QED BY <1>1 DEF IInv, TypeOK, PagesWithinSize, Exists, top

LEMMA InitIInv == Init => IInv
  BY DEF Init, IInv, TypeOK, Exists, PagesWithinSize, InOrder, top

LEMMA NewIInv ==
    ASSUME IInv, NEW n \in NewSizes, New(n)
    PROVE  IInv'
  <1>1. size' \in Nat /\ size' > 0
    BY ConstantsAssumption DEF New
  <1>2. pages' = << <<>> >> /\ printed' = 0
    BY DEF New
  <1> QED BY <1>1, <1>2 DEF IInv, TypeOK, Exists, PagesWithinSize, InOrder,
                            Before, top

(* The bytes of a format are the next ones in the printed order.            *)
LEMMA FormattedFacts ==
    ASSUME IInv, NEW f \in Formats
    PROVE  /\ f.len \in Nat
           /\ Formatted(f) \in Seq(Nat) /\ Len(Formatted(f)) = f.len
           /\ RunsOn(Formatted(f), printed)
  <1>1. f.len \in Nat /\ printed \in Nat
    BY ConstantsAssumption DEF Format, IInv, TypeOK
  <1> QED BY <1>1 DEF Formatted, RunsOn

LEMMA PrintFitsIInv ==
    ASSUME IInv, NEW f \in Formats, PrintFits(f)
    PROVE  IInv'
  <1> DEFINE m    == Len(pages)
             text == Formatted(f)
  <1>1. /\ Exists /\ f.len < size - Len(pages[m])
        /\ pages' = Extended(pages, text)
        /\ printed' = printed + f.len /\ size' = size
    BY FormattedFacts DEF PrintFits, Printed, Room, top, Extended
  <1>2. /\ pages \in Seq(Seq(Nat)) /\ pages # <<>> /\ m \in Nat /\ m >= 1
        /\ size \in Nat /\ size > 0 /\ printed \in Nat
        /\ \A i \in 1 .. m : Len(pages[i]) <= size
        /\ Len(pages[m]) \in Nat
        /\ Ordered(pages, printed)
    BY <1>1, PageFacts DEF top
  <1>3. /\ text \in Seq(Nat) /\ Len(text) = f.len /\ f.len \in Nat
        /\ RunsOn(text, printed)
    BY FormattedFacts
  <1> HIDE DEF text
  <1>4. /\ pages' \in Seq(Seq(Nat)) /\ Len(pages') = m
        /\ Len(pages'[m]) = Len(pages[m]) + f.len
        /\ \A j \in 1 .. m - 1 : pages'[j] = pages[j]
        /\ Ordered(pages', printed')
    <2> DEFINE qs == Extended(pages, text)
    <2>1. /\ qs \in Seq(Seq(Nat)) /\ Len(qs) = Len(pages)
          /\ Len(qs[Len(pages)]) = Len(pages[Len(pages)]) + Len(text)
          /\ \A j \in 1 .. Len(pages) - 1 : qs[j] = pages[j]
          /\ Ordered(qs, printed + Len(text))
      BY <1>2, <1>3, ExtendOrdered, ZenonT(30)
    <2> QED BY <1>1, <1>3, <2>1
  <1> HIDE DEF m
  <1>5. Exists'
    BY <1>2, <1>4 DEF Exists
  <1>6. Len(pages'[m]) < size
    <2>1. Len(pages[m]) + f.len < size
      BY <1>1, <1>2, <1>3
    <2> QED BY <1>4, <2>1
  <1>7. PagesWithinSize'
    <2>1. \A i \in 1 .. m : i \in 1 .. m - 1 \/ i = m
      BY <1>2
    <2>2. \A i \in 1 .. m - 1 : Len(pages'[i]) <= size
      <3>1. \A i \in 1 .. m - 1 : i \in 1 .. m
        BY <1>2
      <3> QED BY <1>2, <1>4, <3>1
    <2>3. Len(pages'[m]) <= size
      BY <1>2, <1>3, <1>4, <1>6
    <2> QED BY <1>1, <1>4, <1>6, <2>1, <2>2, <2>3 DEF PagesWithinSize, top
  <1> QED BY <1>1, <1>2, <1>3, <1>4, <1>5, <1>7, InOrderIsOrderedNext, SMTT(20)
          DEF IInv, TypeOK

(* A backfill extends the page before, then adds one for the rest.          *)
LEMMA PrintNewPageIInv ==
    ASSUME IInv, NEW f \in Formats, PrintNewPage(f)
    PROVE  IInv' /\ Len(pages'[Len(pages)]) = size
  <1> DEFINE m    == Len(pages)
             text == Formatted(f)
             n    == size - Len(pages[m])
             low  == SubSeq(text, 1, n)
             high == SubSeq(text, n + 1, Len(text))
             full == Extended(pages, low)
  <1>1. /\ Exists /\ f.len >= n /\ f.len < size
        /\ pages' = Backfill(Append(pages, text))
        /\ printed' = printed + f.len /\ size' = size
    BY FormattedFacts DEF PrintNewPage, NeedsPage, Printed, Room, top
  <1>2. /\ pages \in Seq(Seq(Nat)) /\ pages # <<>> /\ m \in Nat /\ m >= 1
        /\ size \in Nat /\ size > 0 /\ printed \in Nat
        /\ \A i \in 1 .. m : Len(pages[i]) <= size
        /\ Len(pages[m]) \in Nat /\ Len(pages[m]) < size
        /\ Ordered(pages, printed)
    BY <1>1, PageFacts DEF top
  <1>3. /\ text \in Seq(Nat) /\ Len(text) = f.len /\ f.len \in Nat
        /\ RunsOn(text, printed)
    BY FormattedFacts
  <1> HIDE DEF text
  <1>4. n \in 0 .. Len(text) /\ n \in Nat /\ n > 0
    BY <1>1, <1>2, <1>3, SMTT(20)
  <1>5. /\ low \in Seq(Nat) /\ Len(low) = n /\ RunsOn(low, printed)
        /\ high \in Seq(Nat) /\ Len(high) = f.len - n
        /\ RunsOn(high, printed + n)
    <2> HIDE DEF n
    <2>1. /\ low \in Seq(Nat) /\ Len(low) = n
          /\ \A k \in 1 .. n : low[k] = text[k]
          /\ high \in Seq(Nat) /\ Len(high) = Len(text) - n
          /\ \A k \in 1 .. Len(text) - n : high[k] = text[n + k]
      BY <1>3, <1>4, SplitFacts
    <2> HIDE DEF low, high
    <2>2. RunsOn(low, printed)
      <3> SUFFICES ASSUME NEW k \in 1 .. Len(low)
                   PROVE  low[k] = printed + k
        BY DEF RunsOn
      <3>1. k \in 1 .. n /\ k \in 1 .. Len(text)
        BY <1>3, <1>4, <2>1
      <3> QED BY <1>3, <2>1, <3>1 DEF RunsOn
    <2>3. RunsOn(high, printed + n)
      <3> SUFFICES ASSUME NEW k \in 1 .. Len(high)
                   PROVE  high[k] = (printed + n) + k
        BY DEF RunsOn
      <3>1. n + k \in 1 .. Len(text)
        BY <1>3, <1>4, <2>1
      <3>2. text[n + k] = printed + (n + k)
        BY <1>3, <3>1 DEF RunsOn
      <3> QED BY <1>2, <1>3, <1>4, <2>1, <3>2, SMTT(20)
    <2> QED BY <1>3, <2>1, <2>2, <2>3
  <1> HIDE DEF low, high
  <1>6. /\ full \in Seq(Seq(Nat)) /\ Len(full) = m
        /\ full[m] \in Seq(Nat) /\ Len(full[m]) = Len(pages[m]) + n
        /\ \A j \in 1 .. m - 1 : full[j] = pages[j]
        /\ Ordered(full, printed + n)
    <2>1. /\ full \in Seq(Seq(Nat)) /\ Len(full) = Len(pages)
          /\ full[Len(pages)] \in Seq(Nat)
          /\ Len(full[Len(pages)]) = Len(pages[Len(pages)]) + Len(low)
          /\ \A j \in 1 .. Len(pages) - 1 : full[j] = pages[j]
          /\ Ordered(full, printed + Len(low))
      BY <1>2, <1>5, ExtendOrdered
    <2> QED BY <1>5, <2>1
  <1>7. Len(full[m]) = size
    BY <1>2, <1>6
  <1>8. /\ pages' \in Seq(Seq(Nat)) /\ Len(pages') = m + 1
        /\ pages'[m + 1] = high
        /\ \A j \in 1 .. m : pages'[j] = full[j]
    <2> DEFINE ps == Append(pages, text)
               qs == [ps EXCEPT ![m] = full[m]]
    <2>1. /\ ps \in Seq(Seq(Nat)) /\ Len(ps) = m + 1 /\ ps[m + 1] = text
          /\ \A j \in 1 .. m : ps[j] = pages[j]
      BY <1>2, <1>3, AppendFacts
    <2>2. m \in 1 .. m /\ m \in 1 .. m + 1 /\ m + 1 \in 1 .. m + 1
          /\ (m + 1) - 1 = m
      BY <1>2
    <2>3. full[m] = pages[m] \o low
      BY <1>2 DEF full, Extended
    <2>4. pages' = [ps EXCEPT ![m] = pages[m] \o low, ![m + 1] = high]
      BY <1>1, <2>1, <2>2 DEF Backfill, Room, low, high, n
    <2> HIDE DEF ps, m, full
    <2>5. pages' = [qs EXCEPT ![m + 1] = high]
      BY <2>3, <2>4
    <2>6. /\ qs \in Seq(Seq(Nat)) /\ Len(qs) = m + 1 /\ qs[m] = full[m]
          /\ \A j \in 1 .. m + 1 : j # m => qs[j] = ps[j]
      BY <1>6, <2>1, <2>2, ReplaceFacts
    <2> HIDE DEF qs
    <2>7. /\ pages' \in Seq(Seq(Nat)) /\ Len(pages') = m + 1
          /\ pages'[m + 1] = high
          /\ \A j \in 1 .. m + 1 : j # m + 1 => pages'[j] = qs[j]
      BY <1>5, <2>2, <2>5, <2>6, ReplaceFacts
    <2>8. \A j \in 1 .. m : /\ j # m + 1 /\ j \in 1 .. m + 1
                            /\ j # m => j \in 1 .. m - 1
      BY <1>2
    <2> QED BY <1>6, <2>1, <2>6, <2>7, <2>8, ZenonT(30)
  <1>9. full # <<>> /\ full[Len(full)] # <<>>
    BY <1>2, <1>6, <1>7
  <1> HIDE DEF m, n, full
  <1>10. Ordered(pages', printed')
    <2>1. Ordered(pages', (printed + n) + Len(high))
      <3> DEFINE q == printed + n
      <3>1. q \in Nat /\ RunsOn(high, q) /\ Ordered(full, q)
        BY <1>2, <1>4, <1>5, <1>6
      <3> HIDE DEF q
      <3>2. Ordered(pages', q + Len(high))
        BY <1>5, <1>6, <1>8, <1>9, <3>1, AppendOrdered
      <3> QED BY <3>2 DEF q
    <2>2. (printed + n) + Len(high) = printed'
      BY <1>1, <1>2, <1>3, <1>4, <1>5, SMTT(20)
    <2> QED BY <2>1, <2>2
  <1>11. Exists'
    BY <1>2, <1>8 DEF Exists
  <1>12. Len(high) < size
    <2>1. Len(high) = f.len - n /\ f.len < size /\ n > 0 /\ n \in Nat
      BY <1>1, <1>4, <1>5
    <2> QED BY <1>2, <1>3, <2>1
  <1>13. Len(pages'[m]) = size
    <2>1. m \in 1 .. m
      BY <1>2
    <2> QED BY <1>7, <1>8, <2>1
  <1>14. \A i \in 1 .. m + 1 : Len(pages'[i]) <= size
    <2> SUFFICES ASSUME NEW i \in 1 .. m + 1
                 PROVE  Len(pages'[i]) <= size
      OBVIOUS
    <2>1. CASE i \in 1 .. m - 1
      <3>1. i \in 1 .. m
        BY <1>2, <2>1
      <3>2. pages'[i] = pages[i]
        BY <1>6, <1>8, <2>1, <3>1
      <3> QED BY <1>2, <3>1, <3>2
    <2>2. CASE i = m
      BY <1>2, <1>13, <2>2
    <2>3. CASE i = m + 1
      BY <1>2, <1>5, <1>8, <1>12, <2>3
    <2> QED BY <1>2, <2>1, <2>2, <2>3
  <1>15. PagesWithinSize'
    BY <1>1, <1>8, <1>12, <1>14 DEF PagesWithinSize, top
  <1> QED BY <1>1, <1>2, <1>3, <1>8, <1>10, <1>11, <1>13, <1>15, InOrderIsOrderedNext, SMTT(20)
          DEF IInv, TypeOK, m

(* When the second formatting fails the buffer gets an empty page: the text *)
(* needed one, so the page before is not empty.                             *)
LEMMA PrintAgainErrorIInv ==
    ASSUME IInv, NEW f \in Formats, PrintAgainError(f)
    PROVE  IInv'
  <1> DEFINE m == Len(pages)
  <1>1. /\ Exists /\ f.len >= size - Len(pages[m]) /\ f.len < size
        /\ pages' = Append(pages, <<>>)
        /\ printed' = printed /\ size' = size
    BY DEF PrintAgainError, NeedsPage, Printed, Room, top
  <1>2. /\ pages \in Seq(Seq(Nat)) /\ pages # <<>> /\ m \in Nat /\ m >= 1
        /\ size \in Nat /\ size > 0 /\ printed \in Nat /\ f.len \in Nat
        /\ \A i \in 1 .. m : Len(pages[i]) <= size
        /\ Len(pages[m]) \in Nat /\ m = Len(pages)
        /\ Ordered(pages, printed)
    BY <1>1, PageFacts, FormattedFacts DEF top
  <1>3. /\ <<>> \in Seq(Nat) /\ RunsOn(<<>>, printed) /\ Len(<<>>) = 0
    BY DEF RunsOn
  <1>4. /\ pages' \in Seq(Seq(Nat)) /\ Len(pages') = m + 1
        /\ pages'[m + 1] = <<>>
        /\ \A j \in 1 .. m : pages'[j] = pages[j]
    BY <1>1, <1>2, <1>3, AppendFacts
  <1>5. pages[m] # <<>>
    BY <1>1, <1>2
  <1>6. Ordered(pages', printed')
    <2>1. Ordered(pages', printed + Len(<<>>))
      BY <1>2, <1>3, <1>4, <1>5, AppendOrdered
    <2> QED BY <1>1, <1>2, <2>1
  <1> HIDE DEF m
  <1>7. PagesWithinSize'
    <2>1. \A i \in 1 .. m + 1 : i \in 1 .. m \/ i = m + 1
      BY <1>2
    <2>2. \A i \in 1 .. m + 1 : Len(pages'[i]) <= size
      <3>1. \A i \in 1 .. m : Len(pages'[i]) <= size
        BY <1>2, <1>4
      <3>2. Len(pages'[m + 1]) <= size
        BY <1>2, <1>3, <1>4
      <3> QED BY <2>1, <3>1, <3>2
    <2> QED BY <1>1, <1>2, <1>4, <2>2 DEF PagesWithinSize, top
  <1>8. Exists'
    BY <1>2, <1>4 DEF Exists
  <1> QED BY <1>1, <1>2, <1>4, <1>6, <1>7, <1>8, InOrderIsOrderedNext
          DEF IInv, TypeOK

LEMMA DelIInv ==
    ASSUME IInv, Del
    PROVE  IInv'
  BY DEF IInv, Del, TypeOK, Exists, PagesWithinSize, InOrder, top

(* Failed calls and readers leave the buffer alone.                         *)
LEMMA StutterIInv ==
    ASSUME IInv, UNCHANGED <<size, pages, printed>>
    PROVE  IInv'
  BY DEF IInv, TypeOK, Exists, PagesWithinSize, InOrder, Before, top

LEMMA NextIInv ==
    ASSUME IInv, [Next]_vars
    PROVE  IInv'
  <1>1. ASSUME NEW n \in NewSizes, New(n)
        PROVE  IInv'
    BY <1>1, NewIInv
  <1>2. ASSUME NEW f \in Formats, pbnprintf(f)
        PROVE  IInv'
    <2>1. CASE PrintFits(f)
      BY <2>1, PrintFitsIInv
    <2>2. CASE PrintNewPage(f)
      BY <2>2, PrintNewPageIInv
    <2>3. CASE PrintAgainError(f)
      BY <2>3, PrintAgainErrorIInv
    <2>4. CASE PrintError(f) \/ PrintTooLong(f) \/ PrintNoMemory(f)
      <3>1. UNCHANGED <<size, pages, printed>>
        BY <2>4 DEF PrintError, PrintTooLong, PrintNoMemory, Printed
      <3> QED BY <3>1, StutterIInv
    <2> QED BY <1>2, <2>1, <2>2, <2>3, <2>4 DEF pbnprintf
  <1>3. CASE NewFails \/ Fwrite \/ Write \/ WriteFails \/ Swrite \/ SwriteFails
    <2>1. UNCHANGED <<size, pages, printed>>
      BY <1>3 DEF NewFails, Fwrite, Write, WriteFails, Swrite, SwriteFails
    <2> QED BY <2>1, StutterIInv
  <1>4. CASE Del
    BY <1>4, DelIInv
  <1>5. CASE UNCHANGED vars
    <2>1. UNCHANGED <<size, pages, printed>>
      BY <1>5 DEF vars
    <2> QED BY <2>1, StutterIInv
  <1> QED BY <1>1, <1>2, <1>3, <1>4, <1>5 DEF Next

-----------------------------------------------------------------------------
(* The theorem: whatever the formats, the failures of malloc and vsnprintf  *)
(* and the page size, pages never hold more bytes than their size, and      *)
(* together hold what was printed with success, in order: page_buffer.c     *)
(* 47-62 and 77-99.                                                         *)
THEOREM PagesHoldTheText == Spec => [](TypeOK /\ PagesWithinSize /\ InOrder)
  <1>1. Init => IInv
    BY InitIInv
  <1>2. IInv /\ [Next]_vars => IInv'
    BY NextIInv
  <1>3. IInv => TypeOK /\ PagesWithinSize /\ InOrder
    BY DEF IInv
  <1> QED BY <1>1, <1>2, <1>3, PTL DEF Spec

LEMMA StepLeavesFull ==
    IInv /\ [Next]_vars
      => [Exists /\ top' > top
            => \/ ret'.status >= 0 /\ Len(pages'[top]) = size
               \/ ret'.status < 0 /\ pages' = Append(pages, <<>>)]_vars
  <1> DEFINE Left == \/ ret'.status >= 0 /\ Len(pages'[top]) = size
                     \/ ret'.status < 0 /\ pages' = Append(pages, <<>>)
  <1> SUFFICES ASSUME IInv, Next, Exists, top' > top
               PROVE  Left
    OBVIOUS
  <1>1. ASSUME NEW n \in NewSizes, New(n) PROVE FALSE
    BY <1>1 DEF New
  <1>2. ASSUME UNCHANGED pages PROVE FALSE
    BY <1>2, PageFacts DEF top
  <1>3. ASSUME NEW f \in Formats, pbnprintf(f) PROVE Left
    <2>1. CASE PrintFits(f)
      <3>1. top' = top /\ top \in Nat
        BY <2>1, PageFacts DEF PrintFits, top
      <3> QED BY <3>1
    <2>2. CASE PrintNewPage(f)
      <3>1. Len(pages'[top]) = size
        BY <2>2, PrintNewPageIInv DEF top
      <3>2. ret'.status = f.len /\ f.len >= 0
        BY <2>2, FormattedFacts DEF PrintNewPage, Printed, Return
      <3> QED BY <3>1, <3>2
    <2>3. CASE PrintAgainError(f)
      <3>1. ret'.status = -1 /\ pages' = Append(pages, <<>>)
        BY <2>3 DEF PrintAgainError, Printed, Return
      <3> QED BY <3>1
    <2>4. CASE PrintError(f) \/ PrintTooLong(f) \/ PrintNoMemory(f)
      BY <1>2, <2>4 DEF PrintError, PrintTooLong, PrintNoMemory
    <2> QED BY <1>3, <2>1, <2>2, <2>3, <2>4 DEF pbnprintf
  <1>4. CASE Del
    <2>1. pages' = <<>>
      BY <1>4 DEF Del
    <2>2. top' = 0 /\ top \in Nat
      BY <2>1, PageFacts DEF top
    <2> QED BY <2>2
  <1>5. CASE NewFails \/ Fwrite \/ Write \/ WriteFails \/ Swrite \/ SwriteFails
    BY <1>2, <1>5 DEF NewFails, Fwrite, Write, WriteFails, Swrite, SwriteFails
  <1> QED BY <1>1, <1>3, <1>4, <1>5 DEF Next

(* A print that succeeds goes on to a new page only when that fills the old *)
(* one to its last byte: the backfill leaves no gap (page_buffer.c:45-62).  *)
(* A page is left in any other way only by a print whose second vsnprintf   *)
(* fails (page_buffer.c:91), unchanged and with an empty page behind it.    *)
THEOREM PagesAreLeftFull == Spec => PagesLeftFull
  BY InitIInv, NextIInv, StepLeavesFull, PTL DEF Spec, PagesLeftFull

-----------------------------------------------------------------------------
(* The pages taken together: what swrite, fwrite and write put out, and     *)
(* that the buffer implements TextLog.                                      *)

(* The first p bytes printed.                                               *)
Text(p) == [k \in 1 .. p |-> k]

LEMMA TextFacts ==
    ASSUME NEW p \in Nat
    PROVE  /\ Text(p) \in Seq(Nat) /\ Len(Text(p)) = p
           /\ \A k \in 1 .. p : Text(p)[k] = k
           /\ p = 0 => Text(p) = <<>>
  BY DEF Text

LEMMA IsText ==
    ASSUME NEW p \in Nat, NEW s \in Seq(Nat), Len(s) = p, \A k \in 1 .. p : s[k] = k
    PROVE  s = Text(p)
  BY DEF Text

(* A text, and bytes that run on from it.                                   *)
LEMMA TextRunsOn ==
    ASSUME NEW p \in Nat, NEW s \in Seq(Nat), RunsOn(s, p)
    PROVE  Text(p) \o s = Text(p + Len(s))
  <1> DEFINE a == Text(p)
             n == Len(s)
             t == a \o s
  <1>1. a \in Seq(Nat) /\ Len(a) = p /\ \A k \in 1 .. p : a[k] = k
    BY TextFacts
  <1> HIDE DEF a
  <1>2. n \in Nat /\ \A k \in 1 .. n : s[k] = p + k
    BY DEF RunsOn
  <1>3. /\ t \in Seq(Nat) /\ Len(t) = p + n
        /\ \A k \in 1 .. p : t[k] = a[k]
        /\ \A k \in p + 1 .. p + n : t[k] = s[k - p]
    BY <1>1, ConcatFacts
  <1> HIDE DEF t, n
  <1>4. ASSUME NEW k \in 1 .. p + n PROVE t[k] = k
    <2>1. CASE k \in 1 .. p
      BY <1>1, <1>3, <2>1
    <2>2. CASE k \in p + 1 .. p + n
      <3>1. k - p \in 1 .. n /\ p + (k - p) = k
        BY <1>2, <2>2
      <3>2. t[k] = s[k - p] /\ s[k - p] = p + (k - p)
        BY <1>2, <1>3, <2>2, <3>1
      <3> QED BY <3>1, <3>2
    <2> QED BY <1>2, <2>1, <2>2
  <1>5. t = Text(p + n)
    <2>1. p + n \in Nat
      BY <1>2
    <2> QED BY <1>3, <1>4, <2>1, IsText
  <1> QED BY <1>5 DEF t, n, a

(* What an ordered stack of pages ends with, and the next begins after.     *)
LEMMA StartNext ==
    ASSUME NEW ps \in Seq(Seq(Nat)), NEW p \in Nat, Ordered(ps, p), NEW i \in 2 .. Len(ps)
    PROVE  /\ i - 1 \in 1 .. Len(ps) /\ ps[i - 1] \in Seq(Nat)
           /\ Start(ps, i - 1) \in Nat
           /\ Start(ps, i) = Start(ps, i - 1) + Len(ps[i - 1])
  <1> DEFINE page == ps[i - 1]
  <1>1. i - 1 \in 1 .. Len(ps) /\ i - 1 \in 1 .. Len(ps) - 1 /\ i # 1
    OBVIOUS
  <1>2. page \in Seq(Nat) /\ page # <<>>
    BY <1>1 DEF Ordered
  <1>3. \A k \in 1 .. Len(page) : page[k] = Start(ps, i - 1) + k
    BY <1>1 DEF Ordered
  <1>4. Start(ps, i) = page[Len(page)]
    BY <1>1 DEF Start
  <1>5. Start(ps, i - 1) \in Nat
    BY <1>1, StartNat DEF Ordered
  <1> HIDE DEF page
  <1>6. Len(page) \in 1 .. Len(page)
    BY <1>2
  <1> QED BY <1>1, <1>2, <1>3, <1>4, <1>5, <1>6 DEF page

(* The pages together are what has been printed.                            *)
LEMMA PagesAreText ==
    ASSUME IInv, Exists
    PROVE  FlattenSeq(pages) = Text(printed)
  <1> DEFINE m == Len(pages)
             End(i) == Start(pages, i) + Len(pages[i])
             g == [i \in 1 .. m |-> Text(End(i))]
  <1>1. /\ pages \in Seq(Seq(Nat)) /\ pages # <<>> /\ m \in Nat /\ m >= 1 /\ m \in 1 .. m
        /\ Ordered(pages, printed) /\ printed \in Nat
    BY PageFacts DEF top
  <1>2. ASSUME NEW i \in 1 .. m
        PROVE  /\ pages[i] \in Seq(Nat) /\ Len(pages[i]) \in Nat
               /\ Start(pages, i) \in Nat /\ End(i) \in Nat
               /\ \A k \in 1 .. Len(pages[i]) : pages[i][k] = Start(pages, i) + k
    <2>1. pages[i] \in Seq(Nat)
      BY <1>1
    <2>2. Start(pages, i) \in Nat
      BY <1>1, StartNat DEF Ordered
    <2> QED BY <1>1, <2>1, <2>2, SMTT(20) DEF Ordered
  <1>3. g \in [1 .. m -> Seq(Nat)]
    BY <1>2, TextFacts
  <1>4. g[1] = pages[1]
    <2>1. 1 \in 1 .. m /\ Start(pages, 1) = 0
      BY <1>1 DEF Start
    <2>2. pages[1] = Text(Len(pages[1]))
      <3> DEFINE page == pages[1]
      <3>1. page \in Seq(Nat) /\ \A k \in 1 .. Len(page) : page[k] = k
        BY <1>2, <2>1
      <3> HIDE DEF page
      <3>2. page = Text(Len(page))
        BY <3>1 DEF Text
      <3> QED BY <3>2 DEF page
    <2> QED BY <1>2, <2>1, <2>2
  <1>5. ASSUME NEW i \in 2 .. m PROVE g[i] = g[i - 1] \o pages[i]
    <2> DEFINE s == Start(pages, i)
               page == pages[i]
    <2>1. i \in 1 .. m /\ i - 1 \in 1 .. m
      BY <1>1
    <2>2. s = End(i - 1) /\ s \in Nat
      BY <1>1, <1>2, <2>1, StartNext
    <2>3. g[i] = Text(s + Len(page)) /\ g[i - 1] = Text(s)
      BY <2>1, <2>2
    <2>4. page \in Seq(Nat) /\ \A k \in 1 .. Len(page) : page[k] = s + k
      BY <1>2, <2>1
    <2> HIDE DEF s, page
    <2>5. Text(s + Len(page)) = Text(s) \o page
      BY <2>2, <2>4, TextRunsOn DEF RunsOn
    <2> QED BY <2>3, <2>5 DEF page
  <1>6. FlattenSeq(pages) = g[m]
    <2> HIDE DEF g
    <2> QED BY <1>1, <1>3, <1>4, <1>5, FlattenIs
  <1>7. printed = End(m)
    BY <1>1 DEF Ordered
  <1> QED BY <1>1, <1>6, <1>7

LEMMA NoPages == FlattenSeq(<<>>) = <<>>
  BY DEF FlattenSeq

-----------------------------------------------------------------------------
(* swrite *)

(* Whatever a call does that is not a reader.                               *)
LEMMA OthersReturn ==
    ASSUME Next, ~ Swrite, ~ Fwrite, ~ Write
    PROVE  ret'.op \in {"new", "print", "del"} \/ ret'.status = -1
  <1>1. ASSUME NEW n \in NewSizes, New(n) PROVE ret'.op = "new"
    BY <1>1 DEF New, Return
  <1>2. ASSUME NEW f \in Formats, pbnprintf(f) PROVE ret'.op = "print"
    BY <1>2
    DEF pbnprintf, PrintError, PrintFits, PrintTooLong, PrintNoMemory, PrintNewPage,
        PrintAgainError, Printed, Return
  <1>3. NewFails \/ WriteFails \/ SwriteFails => ret'.status = -1
    BY DEF NewFails, WriteFails, SwriteFails, Return
  <1>4. Del => ret'.op = "del"
    BY DEF Del, Return
  <1> QED BY <1>1, <1>2, <1>3, <1>4 DEF Next

LEMMA StepSwrite ==
    ASSUME IInv, SwriteIsText, [Next]_vars
    PROVE  SwriteIsText'
  <1>1. CASE UNCHANGED vars
    BY <1>1 DEF vars, SwriteIsText
  <1>2. CASE Swrite
    BY <1>2, PagesAreText DEF Swrite, SwriteIsText, Return, Text
  <1>3. CASE Fwrite \/ Write
    BY <1>3 DEF Fwrite, Write, SwriteIsText, Return
  <1>4. CASE Next /\ ~ Swrite /\ ~ Fwrite /\ ~ Write
    BY <1>4, OthersReturn DEF SwriteIsText
  <1> QED BY <1>1, <1>2, <1>3, <1>4

LEMMA Invariant == Spec => []IInv
  BY InitIInv, NextIInv, PTL DEF Spec

(* swrite gives the caller the whole text in order (page_buffer.c:142-161). *)
THEOREM SwriteGivesText == Spec => []SwriteIsText
  <1>1. Init => SwriteIsText
    BY DEF Init, SwriteIsText, Return
  <1> QED BY <1>1, StepSwrite, Invariant, PTL DEF Spec

-----------------------------------------------------------------------------
(* The text log *)

LogIsText ==
    /\ ~ Exists => FlattenSeq(pages) = <<>>
    /\ Exists => FlattenSeq(pages) = Text(printed) /\ printed \in Nat

LEMMA LogOfPages == IInv => LogIsText
  BY PagesAreText, NoPages DEF Exists, IInv, TypeOK, LogIsText

(* A text that has grown by n bytes.                                        *)
LEMMA TextGrows ==
    ASSUME NEW p \in Nat, NEW n \in Nat
    PROVE  Text(p + n) = Text(p) \o [k \in 1 .. n |-> Len(Text(p)) + k]
  <1> DEFINE more == [k \in 1 .. n |-> p + k]
  <1>1. Len(Text(p)) = p
    BY TextFacts
  <1>2. more \in Seq(Nat) /\ Len(more) = n /\ \A k \in 1 .. n : more[k] = p + k
    OBVIOUS
  <1>3. more = [k \in 1 .. n |-> Len(Text(p)) + k]
    BY <1>1
  <1> HIDE DEF more
  <1>4. Text(p) \o more = Text(p + n)
    BY <1>2, TextRunsOn DEF RunsOn
  <1> QED BY <1>3, <1>4

LEMMA StepTextLog ==
    ASSUME LogIsText, LogIsText', [Next]_vars
    PROVE  [T!Next]_(FlattenSeq(pages))
  <1> DEFINE log == FlattenSeq(pages)
  <1> SUFFICES T!AppendText \/ T!End \/ log' = log
    BY DEF T!Next
  <1>1. CASE UNCHANGED pages
    BY <1>1
  <1>2. ASSUME NEW n \in NewSizes, New(n) PROVE T!End
    <2>1. Exists' /\ printed' = 0
      BY <1>2 DEF New, Exists
    <2>2. log' = Text(0)
      BY <2>1 DEF LogIsText
    <2> QED BY <2>2, TextFacts DEF T!End
  <1>3. CASE Del
    BY <1>3 DEF Del, LogIsText, Exists, T!End
  <1>4. ASSUME NEW f \in Formats, PrintFits(f) \/ PrintNewPage(f) \/ PrintAgainError(f)
        PROVE  T!AppendText \/ log' = log
    <2>1. f.len \in Nat
      BY ConstantsAssumption DEF Format
    <2>2. Exists /\ (printed' = printed + f.len \/ printed' = printed)
      BY <1>4, <2>1 DEF PrintFits, PrintNewPage, PrintAgainError, NeedsPage, Printed
    <2>3. printed \in Nat /\ log = Text(printed)
      BY <2>2 DEF LogIsText
    <2>4. Exists'
      BY <1>4, <2>3 DEF PrintFits, PrintNewPage, PrintAgainError, NeedsPage, Exists, Backfill
    <2>5. log' = Text(printed')
      BY <2>4 DEF LogIsText
    <2>6. CASE printed' = printed
      BY <2>3, <2>5, <2>6
    <2>7. CASE printed' = printed + f.len /\ f.len > 0
      <3> DEFINE n == f.len
      <3>1. log' = log \o [k \in 1 .. n |-> Len(log) + k]
        BY <2>1, <2>3, <2>5, <2>7, TextGrows
      <3>2. Len(log) = printed /\ Len(log') = printed + n
        <4>1. printed + n \in Nat /\ log' = Text(printed + n)
          BY <2>1, <2>3, <2>5, <2>7
        <4> HIDE DEF n, log
        <4> QED BY <2>3, <4>1, TextFacts
      <3>3. n \in 1 .. Len(log') - Len(log)
        BY <2>1, <2>3, <2>7, <3>2
      <3> HIDE DEF n, log
      <3> QED BY <3>1, <3>3 DEF T!AppendText, log
    <2> QED BY <2>1, <2>2, <2>3, <2>6, <2>7
  <1>5. ASSUME NEW f \in Formats, PrintError(f) \/ PrintTooLong(f) \/ PrintNoMemory(f)
        PROVE  UNCHANGED pages
    BY <1>5 DEF PrintError, PrintTooLong, PrintNoMemory
  <1>6. NewFails \/ Fwrite \/ Write \/ WriteFails \/ Swrite \/ SwriteFails \/ UNCHANGED vars
          => UNCHANGED pages
    BY DEF NewFails, Fwrite, Write, WriteFails, Swrite, SwriteFails, vars
  <1> QED BY <1>1, <1>2, <1>3, <1>4, <1>5, <1>6 DEF Next, pbnprintf

(* To its caller the buffer is one text, to which a print adds all it makes *)
(* or nothing, and which only a new buffer and PageBuffer_del end: the      *)
(* pages, the second formatting and the backfill do not show.               *)
THEOREM ImplementsTextLog == Spec => TextLogSpec
  <1>1. Init => T!Init
    BY NoPages DEF Init, T!Init
  <1>2. LogIsText /\ LogIsText' /\ [Next]_vars => [T!Next]_(FlattenSeq(pages))
    BY StepTextLog
  <1> QED BY <1>1, <1>2, LogOfPages, Invariant, PTL DEF Spec, TextLogSpec, T!Spec

-----------------------------------------------------------------------------
(* fwrite and write *)

(* What of the newest i pages has not gone out is before Rest(i).           *)
Rest(i) == Start(pages, Len(pages) + 1 - i)

(* Of s + 1 .. p, bytes are no more than there are, and all when they are   *)
(* as many.                                                                 *)
Covers(bytes, s, p) ==
    /\ Len(bytes) <= p - s
    /\ Len(bytes) = p - s => \A k \in s + 1 .. p : \E j \in 1 .. Len(bytes) : bytes[j] = k

Begins(part, page) ==
    Len(part) <= Len(page) /\ \A k \in 1 .. Len(part) : part[k] = page[k]

(* The i-th page that is put out.                                           *)
LEMMA VisitedPage ==
    ASSUME IInv, Exists, NEW i \in 1 .. Len(pages)
    PROVE  /\ NewestFirst[i] = pages[Len(pages) + 1 - i]
           /\ NewestFirst[i] \in Seq(Nat)
           /\ \A k \in 1 .. Len(NewestFirst[i]) : NewestFirst[i][k] = Rest(i) + k
           /\ Rest(i) \in Nat
           /\ i = 1 => printed = Rest(1) + Len(NewestFirst[1])
           /\ i # 1 => Rest(i - 1) = Rest(i) + Len(NewestFirst[i])
  <1> DEFINE m == Len(pages)
             q == m + 1 - i
  <1>1. /\ pages \in Seq(Seq(Nat)) /\ pages # <<>> /\ m \in Nat /\ m >= 1
        /\ Ordered(pages, printed) /\ printed \in Nat
    BY PageFacts DEF top
  <1>2. q \in 1 .. m /\ m - i + 1 = q
    BY <1>1
  <1>3. NewestFirst[i] = pages[q]
    BY <1>1, <1>2 DEF NewestFirst, Reverse
  <1>4. /\ pages[q] \in Seq(Nat) /\ Start(pages, q) \in Nat
        /\ \A k \in 1 .. Len(pages[q]) : pages[q][k] = Start(pages, q) + k
    <2> HIDE DEF q
    <2>1. q \in 1 .. Len(pages) /\ \A j \in 1 .. Len(pages) - 1 : pages[j] # <<>>
      BY <1>1, <1>2 DEF Ordered
    <2>2. Start(pages, q) \in Nat
      BY <1>1, <2>1, StartNat
    <2> QED BY <1>1, <2>1, <2>2 DEF Ordered
  <1>5. i = 1 => printed = Start(pages, q) + Len(pages[q])
    BY <1>1 DEF Ordered
  <1>6. ASSUME i # 1
        PROVE  Start(pages, m + 1 - (i - 1)) = Start(pages, q) + Len(pages[q])
    <2>1. q + 1 \in 2 .. m /\ (q + 1) - 1 = q /\ m + 1 - (i - 1) = q + 1
      BY <1>1, <1>2, <1>6
    <2> HIDE DEF q, m
    <2>2. Start(pages, q + 1) = Start(pages, q) + Len(pages[q])
      BY <1>1, <2>1, StartNext DEF m
    <2> QED BY <2>1, <2>2
  <1> QED BY <1>3, <1>4, <1>5, <1>6 DEF Rest

LEMMA SumsMeet ==
    ASSUME NEW b \in Nat, NEW n \in Nat, NEW l \in Nat, NEW s \in Nat, NEW p \in Nat,
           n <= l, b <= p - (s + l), b + n = p - s
    PROVE  b = p - (s + l) /\ n = l
  OBVIOUS

(* One page more.                                                           *)
LEMMA CoversNext ==
    ASSUME NEW bytes \in Seq(Nat), NEW part \in Seq(Nat), NEW page \in Seq(Nat),
           NEW s \in Nat, NEW r \in Nat, NEW p \in Nat, r = s + Len(page),
           RunsOn(page, s), Begins(part, page), Covers(bytes, r, p)
    PROVE  Covers(bytes \o part, s, p)
  <1> DEFINE all == bytes \o part
             b == Len(bytes)
             n == Len(part)
  <1>1. /\ all \in Seq(Nat) /\ Len(all) = b + n /\ b \in Nat /\ n \in Nat
        /\ \A k \in 1 .. b : all[k] = bytes[k]
        /\ \A k \in b + 1 .. b + n : all[k] = part[k - b]
    BY ConcatFacts
  <1> HIDE DEF all
  <1> DEFINE l == Len(page)
  <1>2. l \in Nat /\ r = s + l /\ n <= l /\ b <= p - r
    BY DEF Begins, Covers
  <1>3. Len(all) <= p - s
    BY <1>1, <1>2
  <1>4. ASSUME Len(all) = p - s, NEW k \in s + 1 .. p
        PROVE  \E j \in 1 .. Len(all) : all[j] = k
    <2>1. b = p - r /\ n = Len(page)
      <3> HIDE DEF b, n, l
      <3>1. b + n = p - s
        BY <1>1, <1>4
      <3>2. b = p - (s + l) /\ n = l
        BY <1>1, <1>2, <3>1, SumsMeet
      <3> QED BY <1>2, <3>2 DEF l
    <2>2. CASE k \in r + 1 .. p
      <3>1. PICK j \in 1 .. b : bytes[j] = k
        BY <2>1, <2>2 DEF Covers
      <3> HIDE DEF b, n
      <3>2. j \in 1 .. b + n
        BY <1>1
      <3>3. j \in 1 .. Len(all) /\ all[j] = k
        BY <1>1, <3>1, <3>2
      <3> QED BY <3>3
    <2>3. CASE k \in s + 1 .. r
      <3> DEFINE d == k - s
      <3>1. d \in 1 .. n /\ b + d \in 1 .. Len(all) /\ b + d \in b + 1 .. b + n
            /\ (b + d) - b = d /\ s + d = k
        BY <1>1, <2>1, <2>3
      <3> HIDE DEF d, n, b
      <3>2. all[b + d] = part[d] /\ part[d] = page[d] /\ page[d] = s + d
        BY <1>1, <2>1, <3>1 DEF n, Begins, RunsOn
      <3> QED BY <3>1, <3>2
    <2> QED BY <1>2, <2>2, <2>3
  <1> QED BY <1>3, <1>4 DEF all, Covers

LEMMA PutOutCovers ==
    ASSUME IInv, Exists, NEW n \in Short(top)
    PROVE  PutOut(n) \in Seq(Nat) /\ Covers(PutOut(n), Rest(Len(pages)), printed)
  <1> DEFINE m == Len(pages)
             ps == [i \in 1 .. m |-> SubSeq(NewestFirst[i], 1, n[i])]
  <1>1. m \in Nat /\ m >= 1 /\ m = top /\ printed \in Nat /\ size \in Nat
    BY PageFacts DEF top
  <1>2. /\ DOMAIN n = 1 .. m
        /\ \A i \in 1 .. m : n[i] \in 0 .. size /\ n[i] <= Len(NewestFirst[i])
    BY <1>1 DEF Short
  <1>3. ASSUME NEW i \in 1 .. m
        PROVE  /\ ps[i] \in Seq(Nat) /\ Len(ps[i]) <= Len(NewestFirst[i])
               /\ \A k \in 1 .. Len(ps[i]) : ps[i][k] = NewestFirst[i][k]
    <2> DEFINE page == NewestFirst[i]
    <2>1. page \in Seq(Nat) /\ n[i] \in 0 .. Len(page)
      BY <1>1, <1>2, VisitedPage
    <2>2. ps[i] = SubSeq(page, 1, n[i])
      OBVIOUS
    <2> HIDE DEF page
    <2>3. /\ SubSeq(page, 1, n[i]) \in Seq(Nat) /\ Len(SubSeq(page, 1, n[i])) = n[i]
          /\ \A k \in 1 .. n[i] : SubSeq(page, 1, n[i])[k] = page[k]
      BY <2>1, SplitFacts
    <2> HIDE DEF ps
    <2> QED BY <2>1, <2>2, <2>3 DEF page
  <1>4. ps \in Seq(Seq(Nat)) /\ Len(ps) = m /\ ps # <<>>
    <2>1. ps \in [1 .. m -> Seq(Nat)]
      BY <1>3
    <2> HIDE DEF ps
    <2> QED BY <1>1, <2>1
  <1>5. PutOut(n) = FlattenSeq(ps)
    BY <1>2 DEF PutOut
  <1> HIDE DEF ps
  <1>6. PICK g \in [1 .. m -> Seq(Nat)] : Concatenates(g, ps, m) /\ FlattenSeq(ps) = g[m]
    BY <1>4, FlattenExists
  <1> DEFINE A == {i \in 1 .. m : Covers(g[i], Rest(i), printed)}
  <1>7. 1 \in A
    <2> DEFINE page == NewestFirst[1]
               part == ps[1]
               p    == printed
    <2>1. /\ page \in Seq(Nat) /\ Rest(1) \in Nat /\ p = Rest(1) + Len(page)
          /\ \A k \in 1 .. Len(page) : page[k] = Rest(1) + k
          /\ part \in Seq(Nat) /\ Len(part) <= Len(page)
          /\ \A k \in 1 .. Len(part) : part[k] = page[k]
      BY <1>1, <1>3, VisitedPage
    <2>2. g[1] = part
      BY <1>6 DEF Concatenates
    <2> HIDE DEF page, part
    <2>3. ASSUME Len(part) = p - Rest(1), NEW k \in Rest(1) + 1 .. p
          PROVE  \E j \in 1 .. Len(part) : part[j] = k
      <3> DEFINE r == Rest(1)
                 l == Len(part)
                 j == k - r
      <3>1. r \in Nat /\ l \in Nat /\ l = Len(page) /\ l = p - r /\ p \in Nat
        BY <1>1, <2>1, <2>3
      <3>2. \A i \in 1 .. l : part[i] = r + i
        BY <2>1, <3>1
      <3> HIDE DEF r
      <3>3. k \in r + 1 .. p
        BY <2>3 DEF r
      <3> HIDE DEF l
      <3>4. j \in 1 .. l /\ r + j = k
        BY <3>1, <3>3
      <3> HIDE DEF j
      <3>5. part[j] = k
        BY <3>2, <3>4
      <3> QED BY <3>4, <3>5 DEF l
    <2>4. Len(part) <= p - Rest(1)
      BY <1>1, <2>1
    <2> QED BY <1>1, <2>2, <2>3, <2>4 DEF Covers
  <1>8. ASSUME NEW i \in 1 .. m - 1, i \in A PROVE i + 1 \in A
    <2> DEFINE k == i + 1
               page == NewestFirst[k]
    <2>1. k \in 1 .. m /\ k \in 2 .. m /\ k # 1 /\ k - 1 = i /\ i \in 1 .. m
      BY <1>1
    <2> HIDE DEF k
    <2>2. /\ page \in Seq(Nat) /\ Rest(k) \in Nat /\ Rest(i) = Rest(k) + Len(page)
          /\ \A j \in 1 .. Len(page) : page[j] = Rest(k) + j
          /\ Rest(i) \in Nat
      BY <2>1, VisitedPage
    <2>3. /\ ps[k] \in Seq(Nat) /\ Len(ps[k]) <= Len(page)
          /\ \A j \in 1 .. Len(ps[k]) : ps[k][j] = page[j]
      BY <1>3, <2>1
    <2>4. g[k] = g[i] \o ps[k] /\ g[i] \in Seq(Nat)
      BY <1>6, <2>1 DEF Concatenates
    <2>5. Covers(g[i], Rest(i), printed)
      BY <1>8
    <2>6. Covers(g[i] \o ps[k], Rest(k), printed)
      <3>1. RunsOn(page, Rest(k)) /\ Begins(ps[k], page)
        BY <2>2, <2>3 DEF RunsOn, Begins
      <3> HIDE DEF page
      <3> QED BY <1>1, <2>2, <2>3, <2>4, <2>5, <3>1, CoversNext
    <2> QED BY <2>1, <2>4, <2>6 DEF k
  <1>9. m \in A
    <2> HIDE DEF A
    <2>1. 1 .. m \subseteq A
      BY <1>1, <1>7, <1>8, IntervalInduction
    <2> QED BY <1>1, <2>1
  <1> QED
    <2>1. g[m] \in Seq(Nat)
      BY <1>1, <1>6
    <2> QED BY <1>5, <1>6, <1>9, <2>1

LEMMA StepFullCount ==
    ASSUME IInv, FullCountIsEveryByte, [Next]_vars
    PROVE  FullCountIsEveryByte'
  <1> DEFINE Full(bytes, p) ==
                /\ Len(bytes) = p
                /\ \A k \in 1 .. p : k \in {bytes[i] : i \in 1 .. Len(bytes)}
  <1>1. ASSUME Exists
        PROVE  Length = printed /\ printed \in Nat /\ FlattenSeq(pages) = Text(printed)
    BY <1>1, PagesAreText, PageFacts, TextFacts DEF Length
  <1>2. ASSUME Exists, NEW n \in Short(top), Len(PutOut(n)) = Length
        PROVE  Full(PutOut(n), printed)
    <2> DEFINE bytes == PutOut(n)
    <2>1. Len(pages) \in Nat /\ Len(pages) >= 1 /\ Rest(Len(pages)) = 0
      BY <1>2, PageFacts DEF Rest, Start, top
    <2>2. Covers(bytes, Rest(Len(pages)), printed) /\ Len(bytes) = printed
      BY <1>1, <1>2, PutOutCovers
    <2> HIDE DEF bytes
    <2>3. \A k \in 1 .. printed : \E j \in 1 .. Len(bytes) : bytes[j] = k
      BY <1>1, <1>2, <2>1, <2>2 DEF Covers
    <2> QED BY <2>2, <2>3 DEF bytes
  <1>3. CASE UNCHANGED vars
    BY <1>3 DEF vars, FullCountIsEveryByte, Length
  <1>4. CASE Fwrite \/ Write
    <2>1. PICK n \in Short(top) :
             ret'.status = Len(PutOut(n)) /\ ret'.bytes = PutOut(n)
      BY <1>4 DEF Fwrite, Write, Return
    <2>2. Exists /\ printed' = printed /\ Length' = Length
      BY <1>4 DEF Fwrite, Write, Length
    <2> HIDE DEF Full
    <2>3. ret'.status = Length' => Full(ret'.bytes, printed')
      <3> SUFFICES ASSUME Len(PutOut(n)) = Length PROVE Full(PutOut(n), printed)
        BY <2>1, <2>2
      <3> QED BY <1>2, <2>2
    <2> QED BY <2>3 DEF FullCountIsEveryByte, Full
  <1>5. CASE Swrite
    <2>1. Exists /\ printed' = printed /\ ret'.bytes = FlattenSeq(pages)
      BY <1>5 DEF Swrite, Return
    <2>2. /\ printed \in Nat /\ ret'.bytes = Text(printed)
          /\ Len(Text(printed)) = printed /\ \A k \in 1 .. printed : Text(printed)[k] = k
      BY <1>1, <2>1, TextFacts
    <2>3. Full(ret'.bytes, printed)
      BY <2>2
    <2> QED BY <2>1, <2>3 DEF FullCountIsEveryByte
  <1>6. CASE Next /\ ~ Swrite /\ ~ Fwrite /\ ~ Write
    <2>1. CASE ret'.op \in {"new", "print", "del"}
      BY <2>1 DEF FullCountIsEveryByte
    <2>2. CASE ret'.status = -1
      <3>1. Length' \in Nat
        BY DEF Length
      <3> QED BY <2>2, <3>1 DEF FullCountIsEveryByte
    <2> QED BY <1>6, <2>1, <2>2, OthersReturn
  <1> QED BY <1>3, <1>4, <1>5, <1>6

(* When the count that fwrite or write returns is the length of the buffer, *)
(* no page was cut short, and every byte printed has gone out once          *)
(* (page_buffer.c:109-130).                                                 *)
THEOREM FullCountMeansAll == Spec => []FullCountIsEveryByte
  <1>1. Init => FullCountIsEveryByte
    BY DEF Init, FullCountIsEveryByte, Return
  <1> QED BY <1>1, StepFullCount, Invariant, PTL DEF Spec
=============================================================================
