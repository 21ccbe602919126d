--------------------------- MODULE RdpPictureProofs ---------------------------
(***************************************************************************)
(* No pixel is lost on its way to the host, for every size of the desktop, *)
(* every cap on an event and every limit of the queue.                     *)
(*                                                                         *)
(* - fold_payload, the chunks and queue_delta redraw what they were given: *)
(*   painting their result on any picture gives what painting their        *)
(*   arguments in order gives, with no more cells (FoldPayloadRedraws,     *)
(*   ChunksRedraw, QueueDeltaRedelivers); the loop that makes room ends    *)
(*   (MakeRoomRedelivers); and no event exceeds the cap, unless it is a    *)
(*   single row (ChunksStayWithinCap, QueueDeltaStaysWithinCap).           *)
(* - The host's picture, with what the writer holds, the mailbox and the   *)
(*   events the output task still has to send, is the server's desktop;    *)
(*   no delta outgrows the cap; every variable has its type                *)
(*   (PictureIsSafe).                                                      *)
(*                                                                         *)
(* A loop over a list is reasoned about with FoldProofs, instantiated with *)
(* one turn of the loop.                                                   *)
(***************************************************************************)
EXTENDS RdpDisplayProofs

-------------------------------------------------------------------------------
(* Lists of lists. *)

Join(s, t) == s \o t
Joined == INSTANCE FoldProofs WITH Step <- Join

\* FlattenSeq puts the lists one behind the other.
LEMMA FlattenIsJoined ==
    ASSUME NEW T, NEW ss \in Seq(Seq(T))
    PROVE  FlattenSeq(ss) = Joined!Fold(<<>>, ss)
<1>1. CASE Len(ss) = 0
  <2>1. ss = <<>>
    BY <1>1
  <2> QED
    BY <1>1, <2>1, Joined!FoldEmpty DEF FlattenSeq
<1>2. CASE Len(ss) # 0
  <2>1. ss[1] \in Seq(T)
    BY <1>2
  <2>2. Join(<<>>, ss[1]) = ss[1]
    BY <2>1, ConcatEmptySeq DEF Join
  <2>3. (CHOOSE f : Joined!Rest(ss, f))[Len(ss)] = Joined!Fold(<<>>, ss)
    BY <1>2, <2>2, Joined!FromFirst
  <2>4. FlattenSeq(ss) = (CHOOSE f : Joined!Rest(ss, f))[Len(ss)]
    BY <1>2 DEF FlattenSeq, Joined!Rest, Join
  <2> QED
    BY <2>3, <2>4
<1> QED
  BY <1>1, <1>2

\* One more list.
LEMMA FlattenAppend ==
    ASSUME NEW T, NEW ss \in Seq(Seq(T)), NEW s \in Seq(T)
    PROVE  FlattenSeq(Append(ss, s)) = FlattenSeq(ss) \o s
<1>1. Append(ss, s) \in Seq(Seq(T))
  OBVIOUS
<1>2. Joined!Fold(<<>>, Append(ss, s)) = Join(Joined!Fold(<<>>, ss), s)
  BY Joined!FoldAppend
<1> QED
  BY <1>1, <1>2, FlattenIsJoined DEF Join

\* No list.
LEMMA FlattenEmpty == FlattenSeq(<<>>) = <<>>
  BY DEF FlattenSeq

\* The type of the result.
LEMMA FlattenTyped ==
    ASSUME NEW T, NEW ss \in Seq(Seq(T))
    PROVE  FlattenSeq(ss) \in Seq(T)
<1>1. \A v \in Seq(T), e \in Seq(T) : Join(v, e) \in Seq(T)
  BY ConcatProperties DEF Join
<1>2. <<>> \in Seq(T)
  BY EmptySeq
<1>3. Joined!Fold(<<>>, ss) \in Seq(T)
  BY <1>1, <1>2, Joined!FoldPreserves
<1> QED
  BY <1>3, FlattenIsJoined

-------------------------------------------------------------------------------
(* Painting lists of entries. *)

Painted == INSTANCE FoldProofs WITH Step <- PaintOne

\* Paint is the loop over the entries.
LEMMA PaintIsLoop ==
    ASSUME NEW p, NEW s
    PROVE  Paint(p, s) = Painted!Fold(p, s)
  BY DEF Paint, Painted!Fold, FoldLeft, MapThenFoldSet, Painted!MapThenFoldSet,
         Max, Painted!Highest

\* Nothing to paint.
LEMMA PaintNothing ==
    ASSUME NEW p
    PROVE  Paint(p, <<>>) = p
  BY PaintIsLoop, Painted!FoldEmpty

\* One entry.
LEMMA PaintSingle ==
    ASSUME NEW p, NEW e
    PROVE  Paint(p, <<e>>) = PaintOne(p, e)
  BY PaintIsLoop, Painted!FoldOne

\* One entry more.
LEMMA PaintAppend ==
    ASSUME NEW p, NEW T, NEW s \in Seq(T), NEW e \in T
    PROVE  Paint(p, Append(s, e)) = PaintOne(Paint(p, s), e)
<1>1. Painted!Fold(p, Append(s, e)) = PaintOne(Painted!Fold(p, s), e)
  BY Painted!FoldAppend
<1> QED
  BY <1>1, PaintIsLoop

\* Two lists.
LEMMA PaintConcat ==
    ASSUME NEW p, NEW T, NEW s \in Seq(T), NEW t \in Seq(T)
    PROVE  Paint(p, s \o t) = Paint(Paint(p, s), t)
<1>1. Painted!Fold(p, s \o t) = Painted!Fold(Painted!Fold(p, s), t)
  BY Painted!FoldConcat
<1> QED
  BY <1>1, PaintIsLoop

\* Painting the strips of an area paints the area in the entry's colours.
Filled(p, entry, area) == [c \in DOMAIN p |-> IF c \in area THEN entry.pixels[c] ELSE p[c]]
LEMMA PaintCut ==
    ASSUME NEW p, p = [c \in DOMAIN p |-> p[c]], NEW s, NEW entry, NEW area, Cut(s, entry, area)
    PROVE  Paint(p, s) = Filled(p, entry, area)
<1> DEFINE n == Len(s)
           Seen(k) == UNION {Cells(s[i].rect) : i \in 1 .. k}
           P(k) == Paint(p, SubSeq(s, 1, k))
           S == {k \in 0 .. n : P(k) = Filled(p, entry, Seen(k))}
<1>1. /\ s \in Seq(Strips(entry)) /\ n \in Nat /\ DOMAIN s = 1 .. n
      /\ \A i \in 1 .. n : \A c \in Cells(s[i].rect) : s[i].pixels[c] = entry.pixels[c]
  BY DEF Cut
<1>2. Seen(n) = area
  BY <1>1 DEF Cut
<1>3. 0 \in S
  <2>1. SubSeq(s, 1, 0) = <<>>
    OBVIOUS
  <2>2. P(0) = p
    BY <2>1, PaintNothing
  <2>3. Seen(0) = {}
    OBVIOUS
  <2>4. Filled(p, entry, {}) = p
    BY DEF Filled
  <2>5. 0 \in 0 .. n
    BY <1>1
  <2> HIDE DEF P, Seen
  <2> QED
    BY <2>2, <2>3, <2>4, <2>5
<1>4. ASSUME NEW k \in 0 .. n, k < n, k \in S PROVE k + 1 \in S
  <2>1. /\ SubSeq(s, 1, k) \in Seq(Strips(entry)) /\ s[k + 1] \in Strips(entry)
        /\ SubSeq(s, 1, k + 1) = Append(SubSeq(s, 1, k), s[k + 1])
    BY <1>1, <1>4, Painted!PrefixGrows
  <2>2. P(k + 1) = PaintOne(P(k), s[k + 1])
    <3> DEFINE q == SubSeq(s, 1, k)
               e == s[k + 1]
               T == Strips(entry)
    <3>1. q \in Seq(T) /\ e \in T /\ SubSeq(s, 1, k + 1) = Append(q, e)
      BY <2>1
    <3> HIDE DEF q, e, T
    <3>2. Paint(p, Append(q, e)) = PaintOne(Paint(p, q), e)
      BY <3>1, PaintAppend
    <3> QED
      BY <3>1, <3>2 DEF q, e
  <2>3. k + 1 \in 1 .. n /\ k + 1 \in 0 .. n
    BY <1>1, <1>4
  <2>4. Seen(k + 1) = Seen(k) \cup Cells(s[k + 1].rect)
    <3>1. 1 .. (k + 1) = (1 .. k) \cup {k + 1}
      BY <1>4
    <3> QED
      BY <3>1
  <2>5. P(k) = Filled(p, entry, Seen(k))
    BY <1>4
  <2> HIDE DEF P, Seen
  <2>6. \A c \in Cells(s[k + 1].rect) : s[k + 1].pixels[c] = entry.pixels[c]
    BY <1>1, <2>3
  <2>7. PaintOne(Filled(p, entry, Seen(k)), s[k + 1])
          = Filled(p, entry, Seen(k) \cup Cells(s[k + 1].rect))
    BY <2>6 DEF Filled, PaintOne
  <2> QED
    BY <2>2, <2>3, <2>4, <2>5, <2>7
<1> HIDE DEF P, Seen
<1>5. P(n) = Filled(p, entry, Seen(n))
  <2> HIDE DEF S
  <2>1. \A k \in 0 .. n : k < n /\ k \in S => k + 1 \in S
    BY <1>4
  <2>2. \A k \in 0 .. n : k \in S
    <3> HIDE DEF n
    <3> QED
      BY <1>1, <1>3, <2>1, Painted!PositionInduction
  <2>3. n \in 0 .. n
    BY <1>1
  <2> QED
    BY <2>2, <2>3 DEF S
<1>6. SubSeq(s, 1, n) = s
  BY <1>1
<1> QED
  BY <1>2, <1>5, <1>6 DEF P

\* What trimming leaves shows the entry everywhere but under the cover.
LEMMA PaintTrimmed ==
    ASSUME NEW p, p = [c \in DOMAIN p |-> p[c]], NEW entry, entry.rect \in Rects, NEW cover \in Rects
    PROVE  Paint(p, trim_covered_pixels(entry, cover))
             = Filled(p, entry, Cells(entry.rect) \ Cells(cover))
  BY TrimIsDifference, PaintCut

\* The bands of an entry show the entry.
LEMMA PaintBands ==
    ASSUME NEW p, p = [c \in DOMAIN p |-> p[c]], NEW entry, entry.rect \in Rects
    PROVE  Paint(p, split_entry_into_bands(entry)) = PaintOne(p, entry)
<1>1. Cut(split_entry_into_bands(entry), entry, Cells(entry.rect))
  BY SplitIsPartition
<1>2. Filled(p, entry, Cells(entry.rect)) = PaintOne(p, entry)
  BY DEF Filled, PaintOne
<1> QED
  BY <1>1, <1>2, PaintCut

-------------------------------------------------------------------------------
(* The entries of a desktop, and lists that redraw the same with no more cells. *)

\* The rectangles and colours a delta for a desktop of this size may carry.
EntriesOf(size) ==
    {e \in [rect : Rects, pixels : PixelMaps] :
        /\ e.rect.x \in Nat /\ e.rect.y \in Nat
        /\ e.rect.width # 0 /\ e.rect.height # 0
        /\ e.pixels \in [Cells(e.rect) -> Colors]
        /\ Cells(e.rect) \subseteq Cells(Screen(size))}

\* A strip that is not empty and lies in the entry is an entry.
LEMMA StripTyped ==
    ASSUME NEW size, NEW entry \in EntriesOf(size), NEW e \in Strips(entry),
           e.rect.width # 0, e.rect.height # 0, Cells(e.rect) \subseteq Cells(entry.rect)
    PROVE  e \in EntriesOf(size)
<1>1. CASE e = entry
  BY <1>1
<1>2. CASE e # entry
  <2>1. PICK r \in Rects : e = Part(entry, r)
    BY <1>2 DEF Strips
  <2>2. e.rect = r /\ e.pixels = [c \in Cells(r) |-> entry.pixels[c]]
    BY <2>1 DEF Part
  <2>3. /\ r.x \in Int /\ r.y \in Int /\ r.width \in Nat \ {0} /\ r.height \in Nat \ {0}
        /\ entry.rect.x \in Nat /\ entry.rect.y \in Nat
        /\ entry.rect.width \in Nat /\ entry.rect.height \in Nat
    BY <2>2 DEF EntriesOf, Rects
  <2>4. <<r.x, r.y>> \in Cells(r)
    BY <2>3 DEF Cells
  <2>5. <<r.x, r.y>> \in Cells(entry.rect)
    BY <2>2, <2>4
  <2>6. r.x \in Nat /\ r.y \in Nat
    BY <2>3, <2>5 DEF Cells
  <2>7. e.pixels \in [Cells(r) -> Colors]
    BY <2>2 DEF EntriesOf
  <2>8. e.pixels \in PixelMaps
    BY <2>7 DEF PixelMaps
  <2>9. e \in [rect : Rects, pixels : PixelMaps]
    BY <2>1, <2>2, <2>8 DEF Part
  <2>10. Cells(e.rect) \subseteq Cells(Screen(size))
    BY DEF EntriesOf
  <2> QED
    BY <2>2, <2>6, <2>7, <2>9, <2>10 DEF EntriesOf
<1> QED
  BY <1>1, <1>2

-------------------------------------------------------------------------------
(* How much a list of entries carries. *)

AddArea(sum, entry) == sum + Area(entry)
Weighed == INSTANCE FoldProofs WITH Step <- AddArea

\* PayloadOf is the loop over the entries.
LEMMA PayloadIsLoop ==
    ASSUME NEW s
    PROVE  PayloadOf(s) = Weighed!Fold(0, s)
  BY DEF PayloadOf, Weighed!Fold, FoldLeft, MapThenFoldSet,
         Weighed!MapThenFoldSet, Max, Weighed!Highest, AddArea

\* An entry has an area.
LEMMA AreaTyped ==
    ASSUME NEW e, e.rect \in Rects
    PROVE  Area(e) \in Nat
<1>1. e.rect.width \in Nat /\ e.rect.height \in Nat
  BY DEF Rects
<1>2. \A a, b \in Nat : a * b \in Nat
  BY SMT
<1> QED
  BY <1>1, <1>2 DEF Area

\* Lists of entries, whatever desktop they are for.
AnyEntries == [rect : Rects, pixels : PixelMaps]

\* The payload of a list, of no entry, of one and of two lists.
LEMMA PayloadSums ==
    /\ PayloadOf(<<>>) = 0
    /\ \A e \in AnyEntries : PayloadOf(<<e>>) = Area(e)
    /\ \A s \in Seq(AnyEntries) : PayloadOf(s) \in Nat
    /\ \A s, t \in Seq(AnyEntries) : PayloadOf(s \o t) = PayloadOf(s) + PayloadOf(t)
    /\ \A s \in Seq(AnyEntries), e \in AnyEntries : PayloadOf(Append(s, e)) = PayloadOf(s) + Area(e)
<1> DEFINE T == AnyEntries
<1>1. \A e \in T : Area(e) \in Nat
  BY AreaTyped DEF AnyEntries
<1> HIDE DEF T
<1>2. \A n \in Nat, e \in T : AddArea(n, e) \in Nat
  BY <1>1 DEF AddArea
<1>3. ASSUME NEW s \in Seq(T) PROVE PayloadOf(s) \in Nat
  <2>1. 0 \in Nat
    OBVIOUS
  <2>2. Weighed!Fold(0, s) \in Nat
    BY <1>2, <2>1, Weighed!FoldPreserves
  <2> QED
    BY <2>2, PayloadIsLoop
<1>4. ASSUME NEW s \in Seq(T), NEW n \in Nat PROVE Weighed!Fold(n, s) = n + PayloadOf(s)
  <2> DEFINE R == {<<n + m, m>> : m \in Nat}
  <2>1. <<n, 0>> \in R
    <3>1. n + 0 = n
      OBVIOUS
    <3> QED
      BY <3>1
  <2>2. ASSUME NEW x, NEW y, NEW e \in T, <<x, y>> \in R
        PROVE  <<AddArea(x, e), AddArea(y, e)>> \in R
    <3>1. y \in Nat /\ x = n + y
      BY <2>2
    <3>2. AddArea(y, e) \in Nat /\ AddArea(x, e) = n + AddArea(y, e)
      BY <1>1, <3>1 DEF AddArea
    <3> QED
      BY <3>2
  <2>3. <<Weighed!Fold(n, s), Weighed!Fold(0, s)>> \in R
    <3> HIDE DEF R
    <3> QED
      BY <2>1, <2>2, Weighed!FoldRelates
  <2> QED
    BY <2>3, PayloadIsLoop
<1>5. ASSUME NEW s \in Seq(T), NEW t \in Seq(T)
      PROVE  PayloadOf(s \o t) = PayloadOf(s) + PayloadOf(t)
  <2>1. Weighed!Fold(0, s \o t) = Weighed!Fold(Weighed!Fold(0, s), t)
    BY Weighed!FoldConcat
  <2> QED
    BY <1>3, <1>4, <2>1, PayloadIsLoop
<1>6. ASSUME NEW s \in Seq(T), NEW e \in T PROVE PayloadOf(Append(s, e)) = PayloadOf(s) + Area(e)
  <2>1. Weighed!Fold(0, Append(s, e)) = AddArea(Weighed!Fold(0, s), e)
    BY Weighed!FoldAppend
  <2> QED
    BY <2>1, PayloadIsLoop DEF AddArea
<1>7. ASSUME NEW e \in T PROVE PayloadOf(<<e>>) = Area(e)
  <2>1. Weighed!Fold(0, <<e>>) = AddArea(0, e)
    BY Weighed!FoldOne
  <2>2. 0 + Area(e) = Area(e)
    BY <1>1
  <2> QED
    BY <2>1, <2>2, PayloadIsLoop DEF AddArea
<1>8. PayloadOf(<<>>) = 0
  BY Weighed!FoldEmpty, PayloadIsLoop
<1> QED
  BY <1>3, <1>5, <1>6, <1>7, <1>8 DEF T

\* The number of cells of a band.
BandSize(a, b, c, d) == IF a >= b \/ c >= d THEN 0 ELSE (d - c) * (b - a)

\* push_band: a list of at most one entry, with the cells of the band.
LEMMA PushTyped ==
    ASSUME NEW size, NEW entry \in EntriesOf(size),
           NEW a \in Int, NEW b \in Int, NEW c \in Int, NEW d \in Int,
           entry.rect.y <= a, b <= entry.rect.y + entry.rect.height,
           entry.rect.x <= c, d <= entry.rect.x + entry.rect.width
    PROVE  /\ push_band(entry, a, b, c, d) \in Seq(EntriesOf(size))
           /\ PayloadOf(push_band(entry, a, b, c, d)) = BandSize(a, b, c, d)
<1>1. CASE a >= b \/ c >= d
  <2>1. push_band(entry, a, b, c, d) = <<>>
    BY <1>1 DEF push_band
  <2> QED
    BY <1>1, <2>1, PayloadSums, EmptySeq DEF BandSize
<1>2. CASE ~(a >= b \/ c >= d)
  <2> DEFINE r == HelperFrameRect(c, a, d - c, b - a)
             e == Part(entry, r)
  <2>1. push_band(entry, a, b, c, d) = <<e>>
    BY <1>2 DEF push_band
  <2>2. r \in Rects /\ r.x = c /\ r.y = a /\ r.width = d - c /\ r.height = b - a
    BY <1>2 DEF HelperFrameRect, Rects
  <2>3. e.rect = r /\ e \in Strips(entry)
    BY <2>2 DEF Part, Strips
  <2>4. d - c # 0 /\ b - a # 0 /\ c + (d - c) = d /\ a + (b - a) = b
    BY <1>2
  <2>5. Cells(r) \subseteq Cells(entry.rect)
    <3>1. /\ entry.rect.x \in Int /\ entry.rect.y \in Int
          /\ entry.rect.width \in Int /\ entry.rect.height \in Int
      BY DEF EntriesOf, Rects
    <3>2. /\ c .. d - 1 \subseteq entry.rect.x .. entry.rect.x + entry.rect.width - 1
          /\ a .. b - 1 \subseteq entry.rect.y .. entry.rect.y + entry.rect.height - 1
      BY <3>1
    <3>3. Cells(r) = (c .. d - 1) \X (a .. b - 1)
      BY <2>2, <2>4 DEF Cells
    <3> QED
      BY <3>2, <3>3 DEF Cells
  <2> HIDE DEF r, e
  <2>6. e \in EntriesOf(size)
    BY <2>2, <2>3, <2>4, <2>5, StripTyped
  <2>7. e \in AnyEntries
    BY <2>6 DEF EntriesOf, AnyEntries
  <2>8. PayloadOf(<<e>>) = (d - c) * (b - a)
    BY <2>2, <2>3, <2>7, PayloadSums DEF Area
  <2> QED
    BY <1>2, <2>1, <2>6, <2>8 DEF BandSize
<1> QED
  BY <1>1, <1>2

\* What lies around a hole is less than the whole.
LEMMA AroundHole ==
    ASSUME NEW A \in Nat, NEW t \in Nat, NEW m \in Nat, NEW u \in Nat, NEW l \in Nat, NEW r \in Nat,
           l + r <= A
    PROVE  A * t + A * u + l * m + r * m <= A * (t + m + u)
<1>1. A * (t + m + u) = A * t + A * m + A * u
  BY SMTT(30)
<1>2. l * m + r * m = (l + r) * m
  BY SMTT(30)
<1>3. (l + r) * m <= A * m
  BY MulMonotone
<1>4. /\ A * t \in Nat /\ A * m \in Nat /\ A * u \in Nat /\ l * m \in Nat /\ r * m \in Nat
      /\ (l + r) * m \in Nat
  BY SMTT(30)
<1> QED
  BY <1>1, <1>2, <1>3, <1>4

\* A band without rows or without columns has no cells.
LEMMA BandCells ==
    ASSUME NEW a \in Int, NEW b \in Int, NEW c \in Int, NEW d \in Int, a <= b, c <= d
    PROVE  BandSize(a, b, c, d) = (d - c) * (b - a)
<1>1. CASE a = b
  <2>1. b - a = 0 /\ d - c \in Int
    BY <1>1
  <2>2. \A n \in Int : n * 0 = 0
    OBVIOUS
  <2> QED
    BY <1>1, <2>1, <2>2 DEF BandSize
<1>2. CASE c = d
  <2>1. d - c = 0 /\ b - a \in Int
    BY <1>2
  <2>2. \A n \in Int : 0 * n = 0
    OBVIOUS
  <2> QED
    BY <1>2, <2>1, <2>2 DEF BandSize
<1>3. CASE a # b /\ c # d
  BY <1>3 DEF BandSize
<1> QED
  BY <1>1, <1>2, <1>3

\* An entry as it is typed.
LEMMA EntryRect ==
    ASSUME NEW size, NEW entry \in EntriesOf(size)
    PROVE  /\ entry \in AnyEntries /\ entry.rect \in Rects
           /\ entry.rect.x \in Nat /\ entry.rect.y \in Nat
           /\ entry.rect.width \in Nat \ {0} /\ entry.rect.height \in Nat \ {0}
  BY DEF EntriesOf, AnyEntries, Rects

\* Trimming leaves entries of the desktop, with no more cells than before.
LEMMA TrimTyped ==
    ASSUME NEW size, NEW entry \in EntriesOf(size), NEW cover \in Rects
    PROVE  /\ trim_covered_pixels(entry, cover) \in Seq(EntriesOf(size))
           /\ PayloadOf(trim_covered_pixels(entry, cover)) <= Area(entry)
<1> DEFINE E == EntriesOf(size)
           rect == entry.rect
           left == Larger(cover.x, rect.x)
           top == Larger(cover.y, rect.y)
           right == Smaller(cover.x + cover.width, rect.x + rect.width)
           bottom == Smaller(cover.y + cover.height, rect.y + rect.height)
           Y == rect.y + rect.height
           X == rect.x + rect.width
           trimmed == trim_covered_pixels(entry, cover)
<1>0. entry \in AnyEntries /\ Area(entry) \in Nat
  BY EntryRect, AreaTyped
<1>1. /\ rect.x \in Nat /\ rect.y \in Nat /\ rect.width \in Nat /\ rect.height \in Nat
      /\ cover.x \in Int /\ cover.y \in Int /\ cover.width \in Nat /\ cover.height \in Nat
  BY EntryRect DEF Rects
<1>2. left \in Int /\ top \in Int /\ right \in Int /\ bottom \in Int /\ Y \in Int /\ X \in Int
  BY <1>1 DEF Larger, Smaller
<1>3. CASE left >= right \/ top >= bottom
  <2>1. trimmed = <<entry>>
    BY <1>3 DEF trim_covered_pixels
  <2>2. <<entry>> \in Seq(E)
    OBVIOUS
  <2>3. PayloadOf(<<entry>>) = Area(entry)
    BY <1>0, PayloadSums
  <2> QED
    BY <1>0, <2>1, <2>2, <2>3
<1>4. CASE ~(left >= right \/ top >= bottom)
  <2> DEFINE s1 == push_band(entry, rect.y, top, rect.x, X)
             s2 == push_band(entry, bottom, Y, rect.x, X)
             s3 == push_band(entry, top, bottom, rect.x, left)
             s4 == push_band(entry, top, bottom, right, X)
  <2>1. trimmed = s1 \o s2 \o s3 \o s4
    BY <1>4 DEF trim_covered_pixels
  <2>2. /\ left < right /\ top < bottom
        /\ rect.x <= left /\ right <= X /\ rect.y <= top /\ bottom <= Y
        /\ rect.x <= X /\ rect.y <= Y /\ left <= X /\ rect.x <= right /\ top <= Y /\ rect.y <= bottom
    BY <1>1, <1>2, <1>4 DEF Larger, Smaller
  <2>x. /\ rect.x \in Int /\ rect.y \in Int /\ rect.x <= rect.x /\ rect.y <= rect.y
        /\ X <= X /\ Y <= Y
    BY <1>1, <1>2
  <2>w. X = rect.x + rect.width /\ Y = rect.y + rect.height
    OBVIOUS
  <2> HIDE DEF left, top, right, bottom, X, Y, trimmed
  <2>3. s1 \in Seq(E) /\ PayloadOf(s1) = (X - rect.x) * (top - rect.y)
    <3>1. s1 \in Seq(E) /\ PayloadOf(s1) = BandSize(rect.y, top, rect.x, X)
      BY <1>2, <2>2, <2>w, <2>x, PushTyped
    <3> QED
      BY <1>2, <2>2, <2>x, <3>1, BandCells
  <2>4. s2 \in Seq(E) /\ PayloadOf(s2) = (X - rect.x) * (Y - bottom)
    <3>1. s2 \in Seq(E) /\ PayloadOf(s2) = BandSize(bottom, Y, rect.x, X)
      BY <1>2, <2>2, <2>w, <2>x, PushTyped
    <3> QED
      BY <1>2, <2>2, <2>x, <3>1, BandCells
  <2>5. s3 \in Seq(E) /\ PayloadOf(s3) = (left - rect.x) * (bottom - top)
    <3>1. s3 \in Seq(E) /\ PayloadOf(s3) = BandSize(top, bottom, rect.x, left)
      BY <1>2, <2>2, <2>w, <2>x, PushTyped
    <3>2. top <= bottom
      BY <1>2, <2>2
    <3> QED
      BY <1>2, <2>2, <2>x, <3>1, <3>2, BandCells
  <2>6. s4 \in Seq(E) /\ PayloadOf(s4) = (X - right) * (bottom - top)
    <3>1. s4 \in Seq(E) /\ PayloadOf(s4) = BandSize(top, bottom, right, X)
      BY <1>2, <2>2, <2>w, <2>x, PushTyped
    <3>2. top <= bottom
      BY <1>2, <2>2
    <3> QED
      BY <1>2, <2>2, <2>x, <3>1, <3>2, BandCells
  <2> HIDE DEF s1, s2, s3, s4, E
  <2>7. s1 \o s2 \in Seq(E) /\ s1 \o s2 \o s3 \in Seq(E) /\ s1 \o s2 \o s3 \o s4 \in Seq(E)
    BY <2>3, <2>4, <2>5, <2>6, ConcatProperties
  <2>8. E \subseteq AnyEntries
    BY EntryRect DEF E
  <2>9. /\ s1 \in Seq(AnyEntries) /\ s2 \in Seq(AnyEntries) /\ s3 \in Seq(AnyEntries)
        /\ s4 \in Seq(AnyEntries) /\ s1 \o s2 \in Seq(AnyEntries) /\ s1 \o s2 \o s3 \in Seq(AnyEntries)
    BY <2>3, <2>4, <2>5, <2>6, <2>7, <2>8, SeqWidens
  <2>10. PayloadOf(s1 \o s2 \o s3 \o s4)
           = PayloadOf(s1) + PayloadOf(s2) + PayloadOf(s3) + PayloadOf(s4)
    <3>1. PayloadOf(s1 \o s2) = PayloadOf(s1) + PayloadOf(s2)
      BY <2>9, PayloadSums
    <3>2. PayloadOf(s1 \o s2 \o s3) = PayloadOf(s1 \o s2) + PayloadOf(s3)
      BY <2>9, PayloadSums
    <3>3. PayloadOf(s1 \o s2 \o s3 \o s4) = PayloadOf(s1 \o s2 \o s3) + PayloadOf(s4)
      BY <2>9, PayloadSums
    <3> QED
      BY <3>1, <3>2, <3>3
  <2>11. Area(entry) = (X - rect.x) * ((top - rect.y) + (bottom - top) + (Y - bottom))
    <3>1. X - rect.x = rect.width
      BY <1>1, <2>w
    <3>2. (top - rect.y) + (bottom - top) + (Y - bottom) = rect.height
      BY <1>1, <1>2, <2>w
    <3> QED
      BY <3>1, <3>2 DEF Area
  <2>12. /\ X - rect.x \in Nat /\ top - rect.y \in Nat /\ bottom - top \in Nat /\ Y - bottom \in Nat
         /\ left - rect.x \in Nat /\ X - right \in Nat
         /\ (left - rect.x) + (X - right) <= X - rect.x
    BY <1>1, <1>2, <2>2
  <2>13. (X - rect.x) * (top - rect.y) + (X - rect.x) * (Y - bottom)
           + (left - rect.x) * (bottom - top) + (X - right) * (bottom - top)
         <= (X - rect.x) * ((top - rect.y) + (bottom - top) + (Y - bottom))
    BY <2>12, AroundHole
  <2> QED
    BY <2>1, <2>3, <2>4, <2>5, <2>6, <2>7, <2>10, <2>11, <2>13 DEF E, trimmed
<1> QED
  BY <1>3, <1>4 DEF trimmed

-------------------------------------------------------------------------------
(* Folding newer entries into older ones. *)

\* Painting entries of a desktop on a picture of it gives a picture of it.
LEMMA PaintTyped ==
    ASSUME NEW size, NEW s \in Seq(EntriesOf(size)), NEW p \in Pictures(size)
    PROVE  Paint(p, s) \in Pictures(size)
<1> DEFINE V == Pictures(size)
           T == EntriesOf(size)
<1>1. ASSUME NEW v \in V, NEW e \in T PROVE PaintOne(v, e) \in V
  BY DEF Pictures, EntriesOf, PaintOne
<1> HIDE DEF V, T
<1>2. s \in Seq(T) /\ p \in V
  BY DEF V, T
<1>3. Painted!Fold(p, s) \in V
  BY <1>1, <1>2, Painted!FoldPreserves
<1> QED
  BY <1>3, PaintIsLoop DEF V

\* A picture is the function of its cells.
LEMMA PictureIsMap ==
    ASSUME NEW size, NEW p \in Pictures(size)
    PROVE  p = [c \in DOMAIN p |-> p[c]] /\ DOMAIN p = Cells(Screen(size))
  BY DEF Pictures

\* ss[i] is the part of a[i] that lies outside area, with no more cells.
Replaces(ss, a, area, size) ==
    /\ a \in Seq(EntriesOf(size)) /\ ss \in Seq(Seq(EntriesOf(size))) /\ Len(ss) = Len(a)
    /\ \A i \in 1 .. Len(a) : PayloadOf(ss[i]) <= Area(a[i])
    /\ \A i \in 1 .. Len(a) : \A p \in Pictures(size) :
           Paint(p, ss[i]) = Filled(p, a[i], Cells(a[i].rect) \ area)

\* Two pictures that differ at most in area.
Agree(p, q, area) == \A c \in DOMAIN p : c \notin area => p[c] = q[c]

\* One step of the next lemma: what is painted on pictures that agree outside area.
LEMMA PaintAgrees ==
    ASSUME NEW size, NEW p \in Pictures(size), NEW q \in Pictures(size), NEW area, NEW e,
           Agree(p, q, area)
    PROVE  Agree(Filled(p, e, Cells(e.rect) \ area), PaintOne(q, e), area)
<1>1. DOMAIN p = Cells(Screen(size)) /\ DOMAIN q = Cells(Screen(size))
  BY PictureIsMap
<1> QED
  BY <1>1 DEF Agree, Filled, PaintOne

\* Lists of parts, one behind the other, show the entries outside area.
LEMMA PartsReplace ==
    ASSUME NEW size, NEW a, NEW ss, NEW area, Replaces(ss, a, area, size)
    PROVE  /\ FlattenSeq(ss) \in Seq(EntriesOf(size))
           /\ PayloadOf(FlattenSeq(ss)) <= PayloadOf(a)
           /\ \A p \in Pictures(size) : Agree(Paint(p, FlattenSeq(ss)), Paint(p, a), area)
<1> DEFINE E == EntriesOf(size)
           n == Len(a)
           F(k) == FlattenSeq(SubSeq(ss, 1, k))
           A(k) == SubSeq(a, 1, k)
           S == {k \in 0 .. n : /\ PayloadOf(F(k)) <= PayloadOf(A(k))
                                /\ \A p \in Pictures(size) : Agree(Paint(p, F(k)), Paint(p, A(k)), area)}
<1>1. /\ a \in Seq(E) /\ ss \in Seq(Seq(E)) /\ Len(ss) = n /\ n \in Nat
      /\ SubSeq(ss, 1, n) = ss /\ SubSeq(a, 1, n) = a
  BY DEF Replaces
<1>2. E \subseteq AnyEntries
  BY EntryRect
<1>3. 0 \in S
  <2>1. SubSeq(ss, 1, 0) = <<>> /\ SubSeq(a, 1, 0) = <<>>
    OBVIOUS
  <2>2. F(0) = <<>> /\ A(0) = <<>>
    BY <2>1, FlattenEmpty
  <2>3. PayloadOf(F(0)) <= PayloadOf(A(0))
    <3>1. PayloadOf(<<>>) <= PayloadOf(<<>>)
      BY PayloadSums
    <3> HIDE DEF F, A
    <3> QED
      BY <2>2, <3>1
  <2>4. \A p : Agree(Paint(p, F(0)), Paint(p, A(0)), area)
    <3> HIDE DEF F, A
    <3> QED
      BY <2>2 DEF Agree
  <2> HIDE DEF F, A
  <2>5. 0 \in 0 .. n
    BY <1>1
  <2> QED
    BY <2>3, <2>4, <2>5
<1>4. ASSUME NEW k \in 0 .. n, k < n, k \in S PROVE k + 1 \in S
  <2> DEFINE e == a[k + 1]
             t == ss[k + 1]
             u == SubSeq(ss, 1, k)
             f == F(k)
             b == A(k)
  <2>1. /\ b \in Seq(E) /\ e \in E /\ A(k + 1) = Append(b, e)
    <3> HIDE DEF E, n
    <3> QED
      BY <1>1, <1>4, Painted!PrefixGrows
  <2>2. /\ u \in Seq(Seq(E)) /\ t \in Seq(E) /\ SubSeq(ss, 1, k + 1) = Append(u, t)
    <3> DEFINE T == Seq(E)
    <3> HIDE DEF T, E, n
    <3>1. ss \in Seq(T) /\ k \in 0 .. Len(ss) /\ k < Len(ss)
      BY <1>1, <1>4 DEF T
    <3>2. u \in Seq(T) /\ t \in T /\ SubSeq(ss, 1, k + 1) = Append(u, t)
      BY <3>1, Painted!PrefixGrows
    <3> QED
      BY <3>2 DEF T
  <2>3. f \in Seq(E) /\ F(k + 1) = f \o t
    <3> HIDE DEF E, u, t
    <3>1. FlattenSeq(Append(u, t)) = FlattenSeq(u) \o t /\ FlattenSeq(u) \in Seq(E)
      BY <2>2, FlattenAppend, FlattenTyped
    <3> QED
      BY <2>2, <3>1 DEF u
  <2>4. k + 1 \in 1 .. n /\ k + 1 \in 0 .. n
    BY <1>1, <1>4
  <2>5. /\ PayloadOf(t) <= Area(e)
        /\ \A p \in Pictures(size) : Paint(p, t) = Filled(p, e, Cells(e.rect) \ area)
    BY <2>4 DEF Replaces
  <2>6. /\ PayloadOf(f) <= PayloadOf(b)
        /\ \A p \in Pictures(size) : Agree(Paint(p, f), Paint(p, b), area)
    BY <1>4
  <2> HIDE DEF F, A, E, e, t, u, f, b, n
  <2>7. PayloadOf(F(k + 1)) <= PayloadOf(A(k + 1))
    <3>1. /\ f \in Seq(AnyEntries) /\ t \in Seq(AnyEntries) /\ b \in Seq(AnyEntries) /\ e \in AnyEntries
      BY <1>2, <2>1, <2>2, <2>3, SeqWidens
    <3>2. /\ PayloadOf(f \o t) = PayloadOf(f) + PayloadOf(t)
          /\ PayloadOf(Append(b, e)) = PayloadOf(b) + Area(e)
          /\ PayloadOf(f) \in Nat /\ PayloadOf(t) \in Nat /\ PayloadOf(b) \in Nat
      BY <3>1, PayloadSums
    <3>3. Area(e) \in Nat
      BY <3>1, AreaTyped DEF AnyEntries
    <3>4. PayloadOf(f \o t) <= PayloadOf(Append(b, e))
      BY <2>5, <2>6, <3>2, <3>3
    <3> QED
      BY <2>1, <2>3, <3>4
  <2>8. ASSUME NEW p \in Pictures(size) PROVE Agree(Paint(p, F(k + 1)), Paint(p, A(k + 1)), area)
    <3>0. Paint(p, f \o t) = Paint(Paint(p, f), t) /\ Paint(p, Append(b, e)) = PaintOne(Paint(p, b), e)
      BY <2>1, <2>2, <2>3, PaintConcat, PaintAppend
    <3>1. Paint(p, F(k + 1)) = Paint(Paint(p, f), t)
      BY <2>3, <3>0
    <3>2. Paint(p, A(k + 1)) = PaintOne(Paint(p, b), e)
      BY <2>1, <3>0
    <3>3. Paint(p, f) \in Pictures(size) /\ Paint(p, b) \in Pictures(size)
      BY <2>1, <2>3, PaintTyped DEF E
    <3>4. Agree(Filled(Paint(p, f), e, Cells(e.rect) \ area), PaintOne(Paint(p, b), e), area)
      BY <2>6, <3>3, PaintAgrees
    <3> QED
      BY <2>5, <3>1, <3>2, <3>3, <3>4
  <2> QED
    BY <2>4, <2>7, <2>8
<1>5. n \in S
  <2>1. \A k \in 0 .. n : k < n /\ k \in S => k + 1 \in S
    BY <1>4
  <2> HIDE DEF S, n
  <2>2. \A k \in 0 .. n : k \in S
    BY <1>1, <1>3, <2>1, Painted!PositionInduction
  <2>3. n \in 0 .. n
    BY <1>1
  <2> QED
    BY <2>2, <2>3
<1>6. FlattenSeq(ss) \in Seq(E)
  BY <1>1, FlattenTyped
<1>7. F(n) = FlattenSeq(ss) /\ A(n) = a
  BY <1>1
<1> HIDE DEF F, A
<1> QED
  BY <1>5, <1>6, <1>7

\* s shows what t shows, on every picture of the desktop, with no more cells.
Redraws(s, t, size) ==
    /\ s \in Seq(EntriesOf(size)) /\ t \in Seq(EntriesOf(size))
    /\ PayloadOf(s) <= PayloadOf(t)
    /\ \A p \in Pictures(size) : Paint(p, s) = Paint(p, t)

\* The payload of a list of entries is a number.
LEMMA PayloadTyped ==
    ASSUME NEW size, NEW s \in Seq(EntriesOf(size))
    PROVE  s \in Seq(AnyEntries) /\ PayloadOf(s) \in Nat
<1>1. EntriesOf(size) \subseteq AnyEntries
  BY EntryRect
<1>2. s \in Seq(AnyEntries)
  BY <1>1, SeqWidens
<1> QED
  BY <1>2, PayloadSums

\* A list redraws itself.
LEMMA RedrawsItself ==
    ASSUME NEW size, NEW s \in Seq(EntriesOf(size))
    PROVE  Redraws(s, s, size)
  BY PayloadTyped DEF Redraws

\* What redraws a list that redraws another redraws the other.
LEMMA RedrawsAgain ==
    ASSUME NEW size, NEW s, NEW t, NEW u, Redraws(s, t, size), Redraws(t, u, size)
    PROVE  Redraws(s, u, size)
<1>1. PayloadOf(s) \in Nat /\ PayloadOf(t) \in Nat /\ PayloadOf(u) \in Nat
  BY PayloadTyped DEF Redraws
<1> QED
  BY <1>1 DEF Redraws

\* One more entry at the end of both.
LEMMA RedrawsAppend ==
    ASSUME NEW size, NEW s, NEW t, Redraws(s, t, size), NEW e \in EntriesOf(size)
    PROVE  Redraws(Append(s, e), Append(t, e), size)
<1>1. s \in Seq(EntriesOf(size)) /\ t \in Seq(EntriesOf(size))
  BY DEF Redraws
<1>2. Append(s, e) \in Seq(EntriesOf(size)) /\ Append(t, e) \in Seq(EntriesOf(size))
  BY <1>1
<1>3. PayloadOf(Append(s, e)) <= PayloadOf(Append(t, e))
  <2>1. s \in Seq(AnyEntries) /\ t \in Seq(AnyEntries) /\ e \in AnyEntries
    BY <1>1, PayloadTyped, EntryRect
  <2>2. /\ PayloadOf(Append(s, e)) = PayloadOf(s) + Area(e)
        /\ PayloadOf(Append(t, e)) = PayloadOf(t) + Area(e)
        /\ PayloadOf(s) \in Nat /\ PayloadOf(t) \in Nat
    BY <2>1, PayloadSums
  <2>3. Area(e) \in Nat
    BY <2>1, AreaTyped DEF AnyEntries
  <2>4. PayloadOf(s) <= PayloadOf(t)
    BY DEF Redraws
  <2> QED
    BY <2>2, <2>3, <2>4
<1>4. ASSUME NEW p \in Pictures(size) PROVE Paint(p, Append(s, e)) = Paint(p, Append(t, e))
  <2>1. /\ Paint(p, Append(s, e)) = PaintOne(Paint(p, s), e)
        /\ Paint(p, Append(t, e)) = PaintOne(Paint(p, t), e)
    BY <1>1, PaintAppend
  <2>2. Paint(p, s) = Paint(p, t)
    BY DEF Redraws
  <2> QED
    BY <2>1, <2>2
<1> QED
  BY <1>2, <1>3, <1>4 DEF Redraws

\* Trimming the older entries under a newer one does not change what is shown.
LEMMA TrimRedraws ==
    ASSUME NEW size, NEW a \in Seq(EntriesOf(size)), NEW x \in EntriesOf(size)
    PROVE  Redraws(TrimAndAppend(a, x), Append(a, x), size)
<1> DEFINE E == EntriesOf(size)
           ss == [i \in DOMAIN a |-> trim_covered_pixels(a[i], x.rect)]
           f == FlattenSeq(ss)
           area == Cells(x.rect)
<1>1. x.rect \in Rects
  BY EntryRect
<1>2. Append(a, x) \in Seq(E)
  OBVIOUS
<1>3. CASE Len(a) > MaxMergedRects
  <2>1. TrimAndAppend(a, x) = Append(a, x)
    BY <1>3 DEF TrimAndAppend
  <2> QED
    BY <1>2, <2>1, RedrawsItself
<1>4. CASE ~(Len(a) > MaxMergedRects)
  <2>1. TrimAndAppend(a, x) = Append(f, x)
    BY <1>4 DEF TrimAndAppend
  <2>2. /\ DOMAIN a = 1 .. Len(a) /\ Len(a) \in Nat /\ \A i \in 1 .. Len(a) : a[i] \in E
    OBVIOUS
  <2>3. ASSUME NEW i \in 1 .. Len(a)
        PROVE  /\ ss[i] = trim_covered_pixels(a[i], x.rect) /\ ss[i] \in Seq(E)
               /\ PayloadOf(ss[i]) <= Area(a[i])
               /\ \A p \in Pictures(size) :
                      Paint(p, ss[i]) = Filled(p, a[i], Cells(a[i].rect) \ area)
    <3>1. ss[i] = trim_covered_pixels(a[i], x.rect) /\ a[i] \in E
      BY <2>2
    <3>2. a[i].rect \in Rects
      BY <3>1, EntryRect
    <3> DEFINE e == a[i]
               r == x.rect
    <3> HIDE DEF e, r, ss
    <3>3. e \in E /\ r \in Rects /\ e.rect \in Rects
      BY <1>1, <3>1, <3>2 DEF e, r
    <3>4. trim_covered_pixels(e, r) \in Seq(E) /\ PayloadOf(trim_covered_pixels(e, r)) <= Area(e)
      BY <3>3, TrimTyped
    <3>5. ASSUME NEW p \in Pictures(size)
          PROVE  Paint(p, trim_covered_pixels(e, r)) = Filled(p, e, Cells(e.rect) \ Cells(r))
      <4>1. p = [c \in DOMAIN p |-> p[c]]
        BY PictureIsMap
      <4> QED
        BY <3>3, <4>1, PaintTrimmed
    <3> QED
      BY <3>1, <3>4, <3>5 DEF e, r
  <2>4. ss \in Seq(Seq(E)) /\ Len(ss) = Len(a)
    <3>1. ss = [i \in 1 .. Len(a) |-> ss[i]]
      BY <2>2
    <3> HIDE DEF ss, E
    <3>2. ss \in [1 .. Len(a) -> Seq(E)]
      BY <2>3, <3>1
    <3> QED
      BY <2>2, <3>2
  <2> HIDE DEF ss, area
  <2>5. Replaces(ss, a, area, size)
    BY <2>3, <2>4 DEF Replaces
  <2>6. /\ f \in Seq(E) /\ PayloadOf(f) <= PayloadOf(a)
        /\ \A p \in Pictures(size) : Agree(Paint(p, f), Paint(p, a), area)
    BY <2>5, PartsReplace
  <2> HIDE DEF f
  <2>7. Append(f, x) \in Seq(E)
    BY <2>6
  <2>8. PayloadOf(Append(f, x)) <= PayloadOf(Append(a, x))
    <3>1. f \in Seq(AnyEntries) /\ a \in Seq(AnyEntries) /\ x \in AnyEntries
      BY <2>6, PayloadTyped, EntryRect
    <3>2. /\ PayloadOf(Append(f, x)) = PayloadOf(f) + Area(x)
          /\ PayloadOf(Append(a, x)) = PayloadOf(a) + Area(x)
          /\ PayloadOf(f) \in Nat /\ PayloadOf(a) \in Nat
      BY <3>1, PayloadSums
    <3>3. Area(x) \in Nat
      BY <3>1, AreaTyped DEF AnyEntries
    <3> QED
      BY <2>6, <3>2, <3>3
  <2>9. ASSUME NEW p \in Pictures(size) PROVE Paint(p, Append(f, x)) = Paint(p, Append(a, x))
    <3>1. /\ Paint(p, Append(f, x)) = PaintOne(Paint(p, f), x)
          /\ Paint(p, Append(a, x)) = PaintOne(Paint(p, a), x)
      BY <2>6, PaintAppend
    <3>2. Paint(p, f) \in Pictures(size) /\ Paint(p, a) \in Pictures(size)
      BY <2>6, PaintTyped
    <3>3. DOMAIN Paint(p, f) = DOMAIN Paint(p, a)
      BY <3>2, PictureIsMap
    <3>4. PaintOne(Paint(p, f), x) = PaintOne(Paint(p, a), x)
      BY <2>6, <3>3 DEF Agree, PaintOne, area
    <3> QED
      BY <3>1, <3>4
  <2> QED
    BY <1>2, <2>1, <2>7, <2>8, <2>9 DEF Redraws
<1> QED
  BY <1>3, <1>4

Trimming == INSTANCE FoldProofs WITH Step <- TrimAndAppend

\* fold_payload is the loop over the newer entries.
LEMMA FoldPayloadIsLoop ==
    ASSUME NEW a, NEW b
    PROVE  fold_payload(a, b) = Trimming!Fold(a, b)
  BY DEF fold_payload, Trimming!Fold, FoldLeft, MapThenFoldSet,
         Trimming!MapThenFoldSet, Max, Trimming!Highest

\* However many newer entries are folded in, what is shown is that of the two lists, one
\* after the other, and there are no more cells than in both.
THEOREM FoldPayloadRedraws ==
    ASSUME NEW size, NEW a \in Seq(EntriesOf(size)), NEW b \in Seq(EntriesOf(size))
    PROVE  Redraws(fold_payload(a, b), a \o b, size)
<1> DEFINE E == EntriesOf(size)
           n == Len(b)
           F(k) == Trimming!Fold(a, SubSeq(b, 1, k))
           A(k) == a \o SubSeq(b, 1, k)
           S == {k \in 0 .. n : Redraws(F(k), A(k), size)}
<1>1. n \in Nat /\ SubSeq(b, 1, n) = b /\ SubSeq(b, 1, 0) = <<>> /\ 0 \in 0 .. n /\ n \in 0 .. n
  OBVIOUS
<1>2. 0 \in S
  <2>1. F(0) = a
    BY <1>1, Trimming!FoldEmpty
  <2>2. A(0) = a
    BY <1>1
  <2> HIDE DEF F, A
  <2>3. Redraws(F(0), A(0), size)
    BY <2>1, <2>2, RedrawsItself
  <2> QED
    BY <1>1, <2>3
<1>3. ASSUME NEW k \in 0 .. n, k < n, k \in S PROVE k + 1 \in S
  <2> DEFINE q == SubSeq(b, 1, k)
             e == b[k + 1]
  <2>1. /\ q \in Seq(E) /\ e \in E /\ SubSeq(b, 1, k + 1) = Append(q, e)
        /\ A(k) \in Seq(E) /\ A(k + 1) = Append(A(k), e)
    <3> HIDE DEF E
    <3>1. a \in Seq(E) /\ b \in Seq(E)
      BY DEF E
    <3> QED
      BY <1>3, <3>1, Trimming!PrefixGrows
  <2>2. Redraws(F(k), A(k), size)
    BY <1>3
  <2>3. F(k + 1) = TrimAndAppend(F(k), e)
    <3> HIDE DEF q, e, E
    <3>1. Trimming!Fold(a, Append(q, e)) = TrimAndAppend(Trimming!Fold(a, q), e)
      BY <2>1, Trimming!FoldAppend
    <3> QED
      BY <2>1, <3>1 DEF q
  <2> HIDE DEF F, A, e, q
  <2>4. F(k) \in Seq(E)
    BY <2>2 DEF Redraws
  <2>5. Redraws(TrimAndAppend(F(k), e), Append(F(k), e), size)
    BY <2>1, <2>4, TrimRedraws
  <2>6. Redraws(Append(F(k), e), Append(A(k), e), size)
    BY <2>1, <2>2, RedrawsAppend
  <2>7. Redraws(TrimAndAppend(F(k), e), Append(A(k), e), size)
    BY <2>5, <2>6, RedrawsAgain
  <2>8. Redraws(F(k + 1), A(k + 1), size)
    BY <2>1, <2>3, <2>7
  <2>9. k + 1 \in 0 .. n
    BY <1>1, <1>3
  <2> QED
    BY <2>8, <2>9
<1>4. n \in S
  <2>1. \A k \in 0 .. n : k < n /\ k \in S => k + 1 \in S
    BY <1>3
  <2> HIDE DEF S, n
  <2>2. \A k \in 0 .. n : k \in S
    BY <1>1, <1>2, <2>1, Trimming!PositionInduction
  <2> QED
    BY <1>1, <2>2
<1>5. F(n) = fold_payload(a, b) /\ A(n) = a \o b
  BY <1>1, FoldPayloadIsLoop
<1> HIDE DEF F, A
<1> QED
  BY <1>4, <1>5

-------------------------------------------------------------------------------
(* Splitting into bands and chunks. *)

\* One band more.
LEMMA BandAdds ==
    ASSUME NEW p \in Nat, NEW w \in Nat, NEW e \in Nat, NEW s \in Nat, NEW r \in Nat,
           p <= w * e, e <= s
    PROVE  p + w * r <= w * (s + r)
<1>1. w * (s + r) = w * s + w * r
  BY SMTT(30)
<1>2. e * w <= s * w
  BY MulMonotone
<1>3. e * w = w * e /\ s * w = w * s
  BY SMTT(30)
<1>4. w * e \in Nat /\ w * s \in Nat /\ w * r \in Nat
  BY SMTT(30)
<1> QED
  BY <1>1, <1>2, <1>3, <1>4

\* Strips one below the other have no more cells than what they lie in.
Stacked(s, w, n, r, h) ==
    /\ Len(s) = n
    /\ \A i \in 1 .. n : s[i].rect.width = w /\ s[i].rect.height = Rows(i, r, h)
LEMMA StackedPayload ==
    ASSUME NEW s \in Seq(AnyEntries), NEW w \in Nat, NEW n, NEW r \in Nat \ {0},
           NEW h \in Nat \ {0}, n = (h + r - 1) \div r, Stacked(s, w, n, r, h)
    PROVE  PayloadOf(s) <= w * h
<1> DEFINE End(k) == IF k = 0 THEN 0 ELSE Start(k, r) + Rows(k, r, h)
           P(k) == PayloadOf(SubSeq(s, 1, k))
           S == {k \in 0 .. n : P(k) <= w * End(k)}
<1>1. /\ n \in Nat
      /\ \A i \in 1 .. n : /\ Start(i, r) \in Nat /\ Rows(i, r, h) \in 1 .. r
                           /\ Start(i, r) + Rows(i, r, h) <= h
      /\ \A i, j \in 1 .. n : i < j => Start(i, r) + Rows(i, r, h) <= Start(j, r)
  BY BandsShareRows
<1> HIDE DEF P
<1>2. \A k \in 0 .. n : End(k) \in Nat /\ End(k) <= h
  BY <1>1, SMTT(30)
<1>3. \A k \in 0 .. n : k < n => End(k) <= Start(k + 1, r)
  BY <1>1, SMTT(30)
<1>4. 0 \in S
  <2>1. SubSeq(s, 1, 0) = <<>>
    OBVIOUS
  <2>2. P(0) = 0
    BY <2>1, PayloadSums DEF P
  <2>3. w * 0 = 0 /\ End(0) = 0
    OBVIOUS
  <2> HIDE DEF End
  <2>4. 0 \in 0 .. n /\ P(0) <= w * End(0)
    BY <1>1, <2>2, <2>3
  <2> QED
    BY <2>4
<1>5. ASSUME NEW k \in 0 .. n, k < n, k \in S PROVE k + 1 \in S
  <2> DEFINE q == SubSeq(s, 1, k)
             e == s[k + 1]
  <2>1. q \in Seq(AnyEntries) /\ e \in AnyEntries /\ SubSeq(s, 1, k + 1) = Append(q, e)
    <3>1. Len(s) = n
      BY DEF Stacked
    <3>2. k \in 0 .. Len(s) /\ k < Len(s)
      BY <1>5, <3>1
    <3> QED
      BY <3>2, Weighed!PrefixGrows
  <2>2. PayloadOf(q) \in Nat /\ PayloadOf(Append(q, e)) = PayloadOf(q) + Area(e)
    <3> HIDE DEF q, e
    <3> QED
      BY <2>1, PayloadSums
  <2>3. P(k + 1) = P(k) + Area(e) /\ P(k) \in Nat
    BY <2>1, <2>2 DEF P
  <2>4. k + 1 \in 1 .. n /\ k + 1 \in 0 .. n
    BY <1>1, <1>5
  <2>5. Area(e) = w * Rows(k + 1, r, h)
    BY <2>4 DEF Stacked, Area
  <2>6. Start(k + 1, r) \in Nat /\ Rows(k + 1, r, h) \in Nat
    BY <1>1, <2>4
  <2>7. End(k + 1) = Start(k + 1, r) + Rows(k + 1, r, h)
    BY <2>4
  <2>8. P(k) <= w * End(k) /\ End(k) \in Nat /\ End(k) <= Start(k + 1, r)
    BY <1>2, <1>3, <1>5
  <2> HIDE DEF End
  <2>9. P(k) + w * Rows(k + 1, r, h) <= w * (Start(k + 1, r) + Rows(k + 1, r, h))
    BY <2>3, <2>6, <2>8, BandAdds
  <2>10. P(k + 1) <= w * End(k + 1)
    BY <2>3, <2>5, <2>7, <2>9
  <2> QED
    BY <2>4, <2>10
<1>6. P(n) <= w * End(n)
  <2>1. \A k \in 0 .. n : k < n /\ k \in S => k + 1 \in S
    BY <1>5
  <2> HIDE DEF S
  <2>2. \A k \in 0 .. n : k \in S
    BY <1>1, <1>4, <2>1, Weighed!PositionInduction
  <2>3. n \in 0 .. n
    BY <1>1
  <2> QED
    BY <2>2, <2>3 DEF S
<1>7. P(n) = PayloadOf(s) /\ PayloadOf(s) \in Nat
  <2>1. SubSeq(s, 1, n) = s
    BY DEF Stacked
  <2> QED
    BY <2>1, PayloadSums DEF P
<1>8. w * End(n) <= w * h
  <2>1. End(n) \in Nat /\ End(n) <= h
    BY <1>1, <1>2
  <2> HIDE DEF End
  <2>2. End(n) * w <= h * w
    BY <2>1, MulMonotone
  <2>3. \A a, b \in Nat : a * b = b * a
    BY SMTT(30)
  <2> QED
    BY <2>1, <2>2, <2>3
<1>9. w * End(n) \in Nat /\ w * h \in Nat
  <2>1. End(n) \in Nat
    BY <1>1, <1>2
  <2>2. \A a, b \in Nat : a * b \in Nat
    BY SMTT(30)
  <2> HIDE DEF End
  <2> QED
    BY <2>1, <2>2
<1> HIDE DEF End
<1> QED
  BY <1>6, <1>7, <1>8, <1>9

\* The bands of an entry are entries, with no more cells than the entry.
LEMMA BandsTyped ==
    ASSUME NEW size, NEW entry \in EntriesOf(size)
    PROVE  /\ split_entry_into_bands(entry) \in Seq(EntriesOf(size))
           /\ PayloadOf(split_entry_into_bands(entry)) <= Area(entry)
<1> DEFINE E == EntriesOf(size)
           split == split_entry_into_bands(entry)
           rect == entry.rect
           w == rect.width
           h == rect.height
           r == Larger(Cap \div w, 1)
           n == (h + r - 1) \div r
           R(i) == HelperFrameRect(rect.x, rect.y + Start(i, r), w, Rows(i, r, h))
<1>1. /\ entry \in AnyEntries /\ rect \in Rects /\ w \in Nat \ {0} /\ h \in Nat \ {0}
      /\ rect.x \in Nat /\ rect.y \in Nat /\ Cap \in Nat \ {0}
  BY EntryRect, CapIsPositive
<1>2. CASE w = 0 \/ Area(entry) <= Cap
  <2>1. split = <<entry>>
    BY <1>2 DEF split_entry_into_bands
  <2>2. <<entry>> \in Seq(E)
    OBVIOUS
  <2>3. PayloadOf(<<entry>>) = Area(entry) /\ Area(entry) \in Nat
    BY <1>1, PayloadSums, AreaTyped
  <2> QED
    BY <2>1, <2>2, <2>3
<1>3. CASE ~(w = 0 \/ Area(entry) <= Cap)
  <2>1. split = [i \in 1 .. n |-> Part(entry, R(i))]
    BY <1>3 DEF split_entry_into_bands, Start, Rows
  <2>2. r \in Nat \ {0}
    <3>1. Cap \div w \in Nat
      BY <1>1, DivisionIsNatural
    <3> QED
      BY <3>1 DEF Larger
  <2> HIDE DEF r
  <2>3. n \in Nat /\ \A i \in 1 .. n : Rows(i, r, h) \in 1 .. r
    BY <1>1, <2>2, BandsShareRows
  <2>4. ASSUME NEW i \in 1 .. n PROVE Part(entry, R(i)).rect.width = w
                                      /\ Part(entry, R(i)).rect.height = Rows(i, r, h)
    BY DEF Part, HelperFrameRect
  <2>5. Cut(split, entry, Cells(rect))
    BY <1>1, SplitIsPartition
  <2> HIDE DEF n, split, w, h, R
  <2>6. split \in Seq(Strips(entry)) /\ DOMAIN split = 1 .. n /\ Len(split) = n
    BY <2>1, <2>3, <2>5 DEF Cut
  <2>7. ASSUME NEW i \in 1 .. n PROVE split[i] \in E
    <3>1. split[i] \in Strips(entry) /\ Cells(split[i].rect) \subseteq Cells(rect)
      BY <2>5, <2>6 DEF Cut
    <3>2. split[i] = Part(entry, R(i))
      BY <2>1
    <3>3. split[i].rect.width # 0 /\ split[i].rect.height # 0
      BY <1>1, <2>2, <2>3, <2>4, <3>2
    <3> DEFINE e == split[i]
    <3> HIDE DEF e
    <3>4. e \in Strips(entry) /\ Cells(e.rect) \subseteq Cells(entry.rect) /\ e.rect.width # 0
          /\ e.rect.height # 0
      BY <3>1, <3>3 DEF e
    <3>5. e \in EntriesOf(size)
      BY <3>4, StripTyped
    <3> QED
      BY <3>5 DEF e
  <2>8. split \in Seq(E)
    <3> HIDE DEF E
    <3>1. split = [i \in 1 .. n |-> split[i]]
      BY <2>6
    <3>2. split \in [1 .. n -> E]
      BY <2>7, <3>1
    <3> QED
      BY <2>3, <3>2
  <2>9. Stacked(split, w, n, r, h)
    BY <2>1, <2>4, <2>6 DEF Stacked
  <2>10. split \in Seq(AnyEntries)
    BY <2>8, PayloadTyped
  <2>11. PayloadOf(split) <= w * h
    BY <1>1, <2>2, <2>9, <2>10, StackedPayload DEF n
  <2> QED
    BY <2>8, <2>11 DEF Area, w, h, split
<1> QED
  BY <1>2, <1>3

\* The bands of a list of entries, one entry after the other.
BandsOf(s) == FlattenSeq([i \in DOMAIN s |-> split_entry_into_bands(s[i])])

\* They redraw the entries.
LEMMA BandsRedraw ==
    ASSUME NEW size, NEW a \in Seq(EntriesOf(size))
    PROVE  Redraws(BandsOf(a), a, size)
<1> DEFINE E == EntriesOf(size)
           ss == [i \in DOMAIN a |-> split_entry_into_bands(a[i])]
           f == FlattenSeq(ss)
<1>1. /\ DOMAIN a = 1 .. Len(a) /\ Len(a) \in Nat /\ \A i \in 1 .. Len(a) : a[i] \in E
  OBVIOUS
<1>2. ASSUME NEW i \in 1 .. Len(a)
      PROVE  /\ ss[i] = split_entry_into_bands(a[i]) /\ ss[i] \in Seq(E)
             /\ PayloadOf(ss[i]) <= Area(a[i])
             /\ \A p \in Pictures(size) : Paint(p, ss[i]) = Filled(p, a[i], Cells(a[i].rect) \ {})
  <2>1. ss[i] = split_entry_into_bands(a[i]) /\ a[i] \in E
    BY <1>1
  <2> DEFINE e == a[i]
  <2> HIDE DEF e, ss
  <2>2. e \in E /\ e.rect \in Rects
    BY <2>1, EntryRect DEF e
  <2>3. split_entry_into_bands(e) \in Seq(E) /\ PayloadOf(split_entry_into_bands(e)) <= Area(e)
    BY <2>2, BandsTyped
  <2>4. ASSUME NEW p \in Pictures(size)
        PROVE  Paint(p, split_entry_into_bands(e)) = Filled(p, e, Cells(e.rect) \ {})
    <3>1. p = [c \in DOMAIN p |-> p[c]]
      BY PictureIsMap
    <3>2. Paint(p, split_entry_into_bands(e)) = PaintOne(p, e)
      BY <2>2, <3>1, PaintBands
    <3>3. PaintOne(p, e) = Filled(p, e, Cells(e.rect) \ {})
      BY DEF PaintOne, Filled
    <3> QED
      BY <3>2, <3>3
  <2> QED
    BY <2>1, <2>3, <2>4 DEF e
<1>3. ss \in Seq(Seq(E)) /\ Len(ss) = Len(a)
  <2>1. ss = [i \in 1 .. Len(a) |-> ss[i]]
    BY <1>1
  <2> HIDE DEF ss, E
  <2>2. ss \in [1 .. Len(a) -> Seq(E)]
    BY <1>2, <2>1
  <2> QED
    BY <1>1, <2>2
<1>4. f = BandsOf(a)
  BY DEF BandsOf
<1> HIDE DEF ss
<1>5. Replaces(ss, a, {}, size)
  BY <1>2, <1>3 DEF Replaces
<1>6. /\ f \in Seq(E) /\ PayloadOf(f) <= PayloadOf(a)
      /\ \A p \in Pictures(size) : Agree(Paint(p, f), Paint(p, a), {})
  BY <1>5, PartsReplace
<1> HIDE DEF f
<1>7. ASSUME NEW p \in Pictures(size) PROVE Paint(p, f) = Paint(p, a)
  <2> DEFINE u == Paint(p, f)
             v == Paint(p, a)
  <2>1. u \in Pictures(size) /\ v \in Pictures(size)
    BY <1>6, PaintTyped
  <2>2. Agree(u, v, {})
    BY <1>6
  <2> HIDE DEF u, v
  <2>3. u = v
    BY <2>1, <2>2 DEF Agree, Pictures
  <2> QED
    BY <2>3 DEF u, v
<1> QED
  BY <1>4, <1>6, <1>7 DEF Redraws

\* A list of chunks that is not empty ends with its last one.
LEMMA LastIsLast ==
    ASSUME NEW T, NEW s \in Seq(T), s # <<>>
    PROVE  Front(s) \in Seq(T) /\ Last(s) \in T /\ s = Append(Front(s), Last(s))
  BY DEF Front, Last

\* One band more goes behind all that the chunks hold.
LEMMA IntoChunksAppends ==
    ASSUME NEW T, NEW cs \in Seq(Seq(T)), NEW e \in T
    PROVE  /\ IntoChunks(cs, e) \in Seq(Seq(T))
           /\ FlattenSeq(IntoChunks(cs, e)) = Append(FlattenSeq(cs), e)
<1>1. <<e>> \in Seq(T) /\ FlattenSeq(cs) \in Seq(T)
  BY FlattenTyped
<1>2. CASE cs = <<>> \/ PayloadOf(Last(cs)) + Area(e) > Cap
  <2>1. IntoChunks(cs, e) = Append(cs, <<e>>)
    BY <1>2 DEF IntoChunks
  <2>2. Append(cs, <<e>>) \in Seq(Seq(T))
    BY <1>1, AppendProperties
  <2>3. FlattenSeq(Append(cs, <<e>>)) = FlattenSeq(cs) \o <<e>>
    BY <1>1, FlattenAppend
  <2>4. FlattenSeq(cs) \o <<e>> = Append(FlattenSeq(cs), e)
    <3> DEFINE f == FlattenSeq(cs)
    <3> HIDE DEF f
    <3>1. f \in Seq(T)
      BY <1>1 DEF f
    <3>2. f \o <<e>> = Append(f, e)
      BY <3>1
    <3> QED
      BY <3>2 DEF f
  <2> QED
    BY <2>1, <2>2, <2>3, <2>4
<1>3. CASE ~(cs = <<>> \/ PayloadOf(Last(cs)) + Area(e) > Cap)
  <2> DEFINE f == Front(cs)
             l == Last(cs)
             m == Append(l, e)
             g == FlattenSeq(f)
             U == Seq(T)
  <2>1. IntoChunks(cs, e) = Append(f, m)
    BY <1>3 DEF IntoChunks
  <2>2. f \in Seq(U) /\ l \in U /\ cs = Append(f, l)
    <3> HIDE DEF U, f, l
    <3>1. cs \in Seq(U) /\ cs # <<>>
      BY <1>3 DEF U
    <3> QED
      BY <3>1, LastIsLast DEF f, l
  <2>3. m \in U
    BY <2>2
  <2>4. g \in Seq(T)
    BY <2>2, FlattenTyped
  <2> HIDE DEF f, l, m
  <2>5. Append(f, m) \in Seq(U)
    BY <2>2, <2>3, AppendProperties
  <2>6. FlattenSeq(Append(f, m)) = g \o m /\ FlattenSeq(Append(f, l)) = g \o l
    BY <2>2, <2>3, FlattenAppend
  <2>7. g \o m = Append(g \o l, e)
    <3> HIDE DEF g
    <3> QED
      BY <2>2, <2>4 DEF m
  <2> QED
    BY <2>1, <2>2, <2>5, <2>6, <2>7
<1> QED
  BY <1>2, <1>3

Chunking == INSTANCE FoldProofs WITH Step <- IntoChunks

\* split_delta_into_chunks is the loop over the bands.
LEMMA ChunksAreLoop ==
    ASSUME NEW s
    PROVE  split_delta_into_chunks(s) = Chunking!Fold(<<>>, BandsOf(s))
  BY DEF split_delta_into_chunks, BandsOf, Chunking!Fold, FoldLeft,
         MapThenFoldSet, Chunking!MapThenFoldSet, Max, Chunking!Highest

\* The chunks hold the bands, all of them and in their order.
LEMMA ChunksHoldBands ==
    ASSUME NEW T, NEW b \in Seq(T)
    PROVE  /\ Chunking!Fold(<<>>, b) \in Seq(Seq(T))
           /\ FlattenSeq(Chunking!Fold(<<>>, b)) = b
<1> DEFINE n == Len(b)
           F(k) == Chunking!Fold(<<>>, SubSeq(b, 1, k))
           S == {k \in 0 .. n : F(k) \in Seq(Seq(T)) /\ FlattenSeq(F(k)) = SubSeq(b, 1, k)}
<1>1. n \in Nat /\ SubSeq(b, 1, n) = b /\ SubSeq(b, 1, 0) = <<>> /\ 0 \in 0 .. n /\ n \in 0 .. n
  OBVIOUS
<1>2. 0 \in S
  <2>1. F(0) = <<>>
    BY <1>1, Chunking!FoldEmpty
  <2> HIDE DEF F
  <2>2. F(0) \in Seq(Seq(T)) /\ FlattenSeq(F(0)) = <<>>
    BY <2>1, FlattenEmpty, EmptySeq
  <2> QED
    BY <1>1, <2>2
<1>3. ASSUME NEW k \in 0 .. n, k < n, k \in S PROVE k + 1 \in S
  <2> DEFINE q == SubSeq(b, 1, k)
             e == b[k + 1]
  <2>1. /\ q \in Seq(T) /\ e \in T /\ SubSeq(b, 1, k + 1) = Append(q, e)
    BY <1>3, Chunking!PrefixGrows
  <2>2. F(k) \in Seq(Seq(T)) /\ FlattenSeq(F(k)) = q
    BY <1>3
  <2>3. F(k + 1) = IntoChunks(F(k), e)
    <3> HIDE DEF q, e
    <3>1. Chunking!Fold(<<>>, Append(q, e)) = IntoChunks(Chunking!Fold(<<>>, q), e)
      BY <2>1, Chunking!FoldAppend
    <3> QED
      BY <2>1, <3>1 DEF q
  <2> HIDE DEF F, e, q
  <2>4. IntoChunks(F(k), e) \in Seq(Seq(T)) /\ FlattenSeq(IntoChunks(F(k), e)) = Append(FlattenSeq(F(k)), e)
    BY <2>1, <2>2, IntoChunksAppends
  <2>5. k + 1 \in 0 .. n
    BY <1>1, <1>3
  <2> QED
    BY <2>1, <2>2, <2>3, <2>4, <2>5
<1>4. n \in S
  <2>1. \A k \in 0 .. n : k < n /\ k \in S => k + 1 \in S
    BY <1>3
  <2> HIDE DEF S, n
  <2>2. \A k \in 0 .. n : k \in S
    BY <1>1, <1>2, <2>1, Chunking!PositionInduction
  <2> QED
    BY <1>1, <2>2
<1>5. F(n) = Chunking!Fold(<<>>, b)
  BY <1>1
<1> HIDE DEF F
<1> QED
  BY <1>1, <1>4, <1>5

\* Splitting a delta into chunks loses nothing: the chunks, one after the other, redraw it.
THEOREM ChunksRedraw ==
    ASSUME NEW size, NEW s \in Seq(EntriesOf(size))
    PROVE  /\ split_delta_into_chunks(s) \in Seq(Seq(EntriesOf(size)))
           /\ Redraws(FlattenSeq(split_delta_into_chunks(s)), s, size)
<1>1. Redraws(BandsOf(s), s, size)
  BY BandsRedraw
<1>2. BandsOf(s) \in Seq(EntriesOf(size))
  BY <1>1 DEF Redraws
<1> DEFINE b == BandsOf(s)
           T == EntriesOf(size)
<1> HIDE DEF b, T
<1>3. b \in Seq(T)
  BY <1>2 DEF b, T
<1>4. Chunking!Fold(<<>>, b) \in Seq(Seq(T)) /\ FlattenSeq(Chunking!Fold(<<>>, b)) = b
  BY <1>3, ChunksHoldBands
<1> QED
  BY <1>1, <1>4, ChunksAreLoop DEF b, T

\* The bands of an entry, and the lists of entries that an event may carry.
SmallEntries(size) == {e \in EntriesOf(size) : Area(e) <= Cap \/ e.rect.height = 1}
SmallLists(size) == {s \in Seq(EntriesOf(size)) : WithinCap(s)}

\* A chunk takes a band only if there is room for it.
LEMMA IntoChunksStaysSmall ==
    ASSUME NEW size, NEW cs \in Seq(SmallLists(size)), NEW e \in SmallEntries(size)
    PROVE  IntoChunks(cs, e) \in Seq(SmallLists(size))
<1> DEFINE E == EntriesOf(size)
           U == SmallLists(size)
<1>1. e \in E /\ (Area(e) <= Cap \/ e.rect.height = 1) /\ e \in AnyEntries
  BY EntryRect DEF SmallEntries
<1>2. CASE cs = <<>> \/ PayloadOf(Last(cs)) + Area(e) > Cap
  <2>1. IntoChunks(cs, e) = Append(cs, <<e>>)
    BY <1>2 DEF IntoChunks
  <2>2. PayloadOf(<<e>>) = Area(e)
    BY <1>1, PayloadSums
  <2>3. <<e>> \in Seq(E) /\ Len(<<e>>) = 1 /\ <<e>>[1] = e
    <3> HIDE DEF E
    <3> QED
      BY <1>1
  <2>4. <<e>> \in U
    BY <1>1, <2>2, <2>3 DEF SmallLists, WithinCap
  <2> HIDE DEF U
  <2>5. Append(cs, <<e>>) \in Seq(U)
    BY <2>4, AppendProperties DEF U
  <2> QED
    BY <2>1, <2>5 DEF U
<1>3. CASE ~(cs = <<>> \/ PayloadOf(Last(cs)) + Area(e) > Cap)
  <2> DEFINE f == Front(cs)
             l == Last(cs)
             m == Append(l, e)
  <2>1. IntoChunks(cs, e) = Append(f, m)
    BY <1>3 DEF IntoChunks
  <2>2. f \in Seq(U) /\ l \in U
    <3> HIDE DEF U
    <3>1. cs \in Seq(U) /\ cs # <<>>
      BY <1>3 DEF U
    <3> QED
      BY <3>1, LastIsLast
  <2> HIDE DEF f
  <2>3. l \in Seq(E) /\ l \in Seq(AnyEntries) /\ PayloadOf(l) \in Nat
    BY <2>2, PayloadTyped DEF SmallLists
  <2>4. PayloadOf(l) + Area(e) <= Cap
    <3>1. Area(e) \in Nat
      BY <1>1, AreaTyped DEF AnyEntries
    <3> QED
      BY <1>3, <2>3, <3>1, CapIsPositive
  <2> HIDE DEF l
  <2>5. m \in Seq(E)
    <3> HIDE DEF E
    <3> QED
      BY <1>1, <2>3
  <2>6. PayloadOf(m) = PayloadOf(l) + Area(e)
    BY <1>1, <2>3, PayloadSums
  <2>7. m \in U
    BY <2>4, <2>5, <2>6 DEF SmallLists, WithinCap
  <2> HIDE DEF m, U
  <2>8. Append(f, m) \in Seq(U)
    BY <2>2, <2>7, AppendProperties
  <2> QED
    BY <2>1, <2>8 DEF U
<1> QED
  BY <1>2, <1>3

\* Every band is within the cap or a single row.
LEMMA BandsAreSmall ==
    ASSUME NEW size, NEW a \in Seq(EntriesOf(size))
    PROVE  BandsOf(a) \in Seq(SmallEntries(size))
<1> DEFINE T == SmallEntries(size)
           ss == [i \in DOMAIN a |-> split_entry_into_bands(a[i])]
<1>1. DOMAIN a = 1 .. Len(a) /\ Len(a) \in Nat /\ \A i \in 1 .. Len(a) : a[i] \in EntriesOf(size)
  OBVIOUS
<1>2. ASSUME NEW e \in EntriesOf(size) PROVE split_entry_into_bands(e) \in Seq(T)
  <2> DEFINE s == split_entry_into_bands(e)
  <2>1. e.rect \in Rects
    BY EntryRect
  <2>2. s \in Seq(EntriesOf(size))
    BY BandsTyped
  <2>3. \A i \in DOMAIN s : Area(s[i]) <= Cap \/ s[i].rect.height = 1
    BY <2>1, SplitIsPartition
  <2> HIDE DEF s
  <2>4. Len(s) \in Nat /\ DOMAIN s = 1 .. Len(s) /\ \A i \in 1 .. Len(s) : s[i] \in T
    BY <2>2, <2>3 DEF SmallEntries
  <2> HIDE DEF T
  <2>5. s = [i \in 1 .. Len(s) |-> s[i]]
    BY <2>2
  <2>6. s \in [1 .. Len(s) -> T]
    BY <2>4, <2>5
  <2>7. s \in Seq(T)
    BY <2>4, <2>6
  <2> QED
    BY <2>7 DEF s
<1> HIDE DEF T
<1>3. ss \in Seq(Seq(T))
  <2>1. ss \in [1 .. Len(a) -> Seq(T)]
    BY <1>1, <1>2
  <2> HIDE DEF ss
  <2> QED
    BY <1>1, <2>1
<1>4. BandsOf(a) = FlattenSeq(ss)
  BY DEF BandsOf
<1> HIDE DEF ss
<1>5. FlattenSeq(ss) \in Seq(T)
  BY <1>3, FlattenTyped
<1> QED
  BY <1>4, <1>5 DEF T

\* However large a delta is, no chunk that split_delta_into_chunks makes of it exceeds the
\* cap, unless it is a single row.
THEOREM ChunksStayWithinCap ==
    ASSUME NEW size, NEW s \in Seq(EntriesOf(size))
    PROVE  \A i \in DOMAIN split_delta_into_chunks(s) : WithinCap(split_delta_into_chunks(s)[i])
<1> DEFINE T == SmallEntries(size)
           U == SmallLists(size)
           b == BandsOf(s)
           c == Chunking!Fold(<<>>, b)
<1>1. b \in Seq(T)
  BY BandsAreSmall
<1>2. \A v \in Seq(U), e \in T : IntoChunks(v, e) \in Seq(U)
  BY IntoChunksStaysSmall
<1>3. c = split_delta_into_chunks(s)
  BY ChunksAreLoop
<1> HIDE DEF T, U, b
<1>4. <<>> \in Seq(U)
  BY EmptySeq
<1>5. c \in Seq(U)
  <2> DEFINE V == Seq(U)
  <2> HIDE DEF V
  <2>1. <<>> \in V /\ \A v \in V, e \in T : IntoChunks(v, e) \in V
    BY <1>2, <1>4 DEF V
  <2>2. Chunking!Fold(<<>>, b) \in V
    BY <1>1, <2>1, Chunking!FoldPreserves
  <2> QED
    BY <2>2 DEF V
<1> HIDE DEF c
<1>6. \A i \in DOMAIN c : c[i] \in U
  BY <1>5
<1>7. \A i \in DOMAIN c : WithinCap(c[i])
  BY <1>6 DEF U, SmallLists
<1> QED
  BY <1>3, <1>7

-------------------------------------------------------------------------------
(* The queue of deltas. *)

\* The deltas for a desktop of this size.
DeltasOf(size) == [kind : {"FrameBgraRects"}, size : {size}, rects : Seq(EntriesOf(size))]

\* What a picture of that desktop shows after a delta.
Draw(picture, event) == Paint(picture, event.rects)
Drawing == INSTANCE FoldProofs WITH Step <- Draw

AddBytes(sum, event) == sum + PayloadOf(event.rects)
Counted == INSTANCE FoldProofs WITH Step <- AddBytes

\* queued_bytes is the loop over the queue.
LEMMA BytesAreLoop ==
    ASSUME NEW q
    PROVE  queued_bytes(q) = Counted!Fold(0, q)
  BY DEF queued_bytes, Counted!Fold, FoldLeft, MapThenFoldSet,
         Counted!MapThenFoldSet, Max, Counted!Highest, AddBytes

\* A delta as it is typed.
LEMMA DeltaFields ==
    ASSUME NEW size, NEW d \in DeltasOf(size)
    PROVE  /\ d.kind = "FrameBgraRects" /\ d.size = size /\ d.rects \in Seq(EntriesOf(size))
           /\ PayloadOf(d.rects) \in Nat
<1>1. d.kind = "FrameBgraRects" /\ d.size = size /\ d.rects \in Seq(EntriesOf(size))
  BY DEF DeltasOf
<1> QED
  BY <1>1, PayloadTyped

\* The bytes of a queue, of none, of one more delta and of two queues.
LEMMA BytesSum ==
    ASSUME NEW size
    PROVE  /\ queued_bytes(<<>>) = 0
           /\ \A s \in Seq(DeltasOf(size)) : queued_bytes(s) \in Nat
           /\ \A s, t \in Seq(DeltasOf(size)) : queued_bytes(s \o t) = queued_bytes(s) + queued_bytes(t)
           /\ \A s \in Seq(DeltasOf(size)), e \in DeltasOf(size) :
                  queued_bytes(Append(s, e)) = queued_bytes(s) + PayloadOf(e.rects)
<1> DEFINE T == DeltasOf(size)
<1>1. \A e \in T : PayloadOf(e.rects) \in Nat
  BY DeltaFields
<1> HIDE DEF T
<1>2. \A n \in Nat, e \in T : AddBytes(n, e) \in Nat
  BY <1>1 DEF AddBytes
<1>3. ASSUME NEW s \in Seq(T) PROVE queued_bytes(s) \in Nat
  <2>1. 0 \in Nat
    OBVIOUS
  <2>2. Counted!Fold(0, s) \in Nat
    BY <1>2, <2>1, Counted!FoldPreserves
  <2> QED
    BY <2>2, BytesAreLoop
<1>4. ASSUME NEW s \in Seq(T), NEW n \in Nat PROVE Counted!Fold(n, s) = n + queued_bytes(s)
  <2> DEFINE R == {<<n + m, m>> : m \in Nat}
  <2>1. <<n, 0>> \in R
    <3>1. n + 0 = n
      OBVIOUS
    <3> QED
      BY <3>1
  <2>2. ASSUME NEW x, NEW y, NEW e \in T, <<x, y>> \in R
        PROVE  <<AddBytes(x, e), AddBytes(y, e)>> \in R
    <3>1. y \in Nat /\ x = n + y
      BY <2>2
    <3>2. AddBytes(y, e) \in Nat /\ AddBytes(x, e) = n + AddBytes(y, e)
      BY <1>1, <3>1 DEF AddBytes
    <3> QED
      BY <3>2
  <2>3. <<Counted!Fold(n, s), Counted!Fold(0, s)>> \in R
    <3> HIDE DEF R
    <3> QED
      BY <2>1, <2>2, Counted!FoldRelates
  <2> QED
    BY <2>3, BytesAreLoop
<1>5. ASSUME NEW s \in Seq(T), NEW t \in Seq(T)
      PROVE  queued_bytes(s \o t) = queued_bytes(s) + queued_bytes(t)
  <2>1. Counted!Fold(0, s \o t) = Counted!Fold(Counted!Fold(0, s), t)
    BY Counted!FoldConcat
  <2> QED
    BY <1>3, <1>4, <2>1, BytesAreLoop
<1>6. ASSUME NEW s \in Seq(T), NEW e \in T
      PROVE  queued_bytes(Append(s, e)) = queued_bytes(s) + PayloadOf(e.rects)
  <2>1. Counted!Fold(0, Append(s, e)) = AddBytes(Counted!Fold(0, s), e)
    BY Counted!FoldAppend
  <2> QED
    BY <2>1, BytesAreLoop DEF AddBytes
<1>7. queued_bytes(<<>>) = 0
  BY Counted!FoldEmpty, BytesAreLoop
<1> QED
  BY <1>3, <1>5, <1>6, <1>7 DEF T

\* What a queue draws on a picture.
Onto(p, q) == Drawing!Fold(p, q)

\* No delta.
LEMMA OntoNothing ==
    ASSUME NEW p
    PROVE  Onto(p, <<>>) = p
  BY Drawing!FoldEmpty DEF Onto

\* One delta.
LEMMA OntoOne ==
    ASSUME NEW p, NEW e
    PROVE  Onto(p, <<e>>) = Paint(p, e.rects)
  BY Drawing!FoldOne DEF Onto, Draw

\* One delta more.
LEMMA OntoAppend ==
    ASSUME NEW p, NEW T, NEW s \in Seq(T), NEW e \in T
    PROVE  Onto(p, Append(s, e)) = Paint(Onto(p, s), e.rects)
<1>1. Drawing!Fold(p, Append(s, e)) = Draw(Drawing!Fold(p, s), e)
  BY Drawing!FoldAppend
<1> QED
  BY <1>1 DEF Onto, Draw

\* Two queues.
LEMMA OntoConcat ==
    ASSUME NEW p, NEW T, NEW s \in Seq(T), NEW t \in Seq(T)
    PROVE  Onto(p, s \o t) = Onto(Onto(p, s), t)
<1>1. Drawing!Fold(p, s \o t) = Drawing!Fold(Drawing!Fold(p, s), t)
  BY Drawing!FoldConcat
<1> QED
  BY <1>1 DEF Onto

\* A queue of deltas for the desktop turns a picture of it into one.
LEMMA OntoTyped ==
    ASSUME NEW size, NEW q \in Seq(DeltasOf(size)), NEW p \in Pictures(size)
    PROVE  Onto(p, q) \in Pictures(size)
<1> DEFINE V == Pictures(size)
           T == DeltasOf(size)
<1>1. ASSUME NEW v \in V, NEW e \in T PROVE Draw(v, e) \in V
  BY DeltaFields, PaintTyped DEF Draw
<1> HIDE DEF V, T
<1>2. q \in Seq(T) /\ p \in V
  BY DEF V, T
<1>3. Drawing!Fold(p, q) \in V
  BY <1>1, <1>2, Drawing!FoldPreserves
<1> QED
  BY <1>3 DEF V, Onto

\* The queue q draws what r draws, with no more bytes.
Redelivers(q, r, size) ==
    /\ q \in Seq(DeltasOf(size)) /\ r \in Seq(DeltasOf(size))
    /\ queued_bytes(q) <= queued_bytes(r)
    /\ \A p \in Pictures(size) : Onto(p, q) = Onto(p, r)

\* A queue redelivers itself.
LEMMA RedeliversItself ==
    ASSUME NEW size, NEW q \in Seq(DeltasOf(size))
    PROVE  Redelivers(q, q, size)
  BY BytesSum DEF Redelivers

\* What redelivers a queue that redelivers another redelivers the other.
LEMMA RedeliversAgain ==
    ASSUME NEW size, NEW q, NEW r, NEW s, Redelivers(q, r, size), Redelivers(r, s, size)
    PROVE  Redelivers(q, s, size)
<1>1. queued_bytes(q) \in Nat /\ queued_bytes(r) \in Nat /\ queued_bytes(s) \in Nat
  BY BytesSum DEF Redelivers
<1> QED
  BY <1>1 DEF Redelivers

\* The same deltas behind both.
LEMMA RedeliversBefore ==
    ASSUME NEW size, NEW q, NEW r, Redelivers(q, r, size), NEW t \in Seq(DeltasOf(size))
    PROVE  Redelivers(q \o t, r \o t, size)
<1> DEFINE D == DeltasOf(size)
<1>1. q \in Seq(D) /\ r \in Seq(D) /\ t \in Seq(D)
  BY DEF Redelivers
<1> HIDE DEF D
<1>2. q \o t \in Seq(D) /\ r \o t \in Seq(D)
  BY <1>1, ConcatProperties
<1>3. queued_bytes(q \o t) <= queued_bytes(r \o t)
  <2>1. /\ queued_bytes(q \o t) = queued_bytes(q) + queued_bytes(t)
        /\ queued_bytes(r \o t) = queued_bytes(r) + queued_bytes(t)
        /\ queued_bytes(q) \in Nat /\ queued_bytes(r) \in Nat /\ queued_bytes(t) \in Nat
    BY <1>1, BytesSum DEF D
  <2>2. queued_bytes(q) <= queued_bytes(r)
    BY DEF Redelivers
  <2> QED
    BY <2>1, <2>2
<1>4. ASSUME NEW p \in Pictures(size) PROVE Onto(p, q \o t) = Onto(p, r \o t)
  <2>1. Onto(p, q \o t) = Onto(Onto(p, q), t) /\ Onto(p, r \o t) = Onto(Onto(p, r), t)
    BY <1>1, OntoConcat
  <2>2. Onto(p, q) = Onto(p, r)
    BY DEF Redelivers
  <2> QED
    BY <2>1, <2>2
<1> QED
  BY <1>2, <1>3, <1>4 DEF Redelivers, D

\* The same deltas in front of both.
LEMMA RedeliversAfter ==
    ASSUME NEW size, NEW q, NEW r, Redelivers(q, r, size), NEW t \in Seq(DeltasOf(size))
    PROVE  Redelivers(t \o q, t \o r, size)
<1> DEFINE D == DeltasOf(size)
<1>1. q \in Seq(D) /\ r \in Seq(D) /\ t \in Seq(D)
  BY DEF Redelivers
<1>2. ASSUME NEW p \in Pictures(size) PROVE Onto(p, t) \in Pictures(size)
  BY OntoTyped
<1> HIDE DEF D
<1>3. t \o q \in Seq(D) /\ t \o r \in Seq(D)
  BY <1>1, ConcatProperties
<1>4. queued_bytes(t \o q) <= queued_bytes(t \o r)
  <2>1. /\ queued_bytes(t \o q) = queued_bytes(t) + queued_bytes(q)
        /\ queued_bytes(t \o r) = queued_bytes(t) + queued_bytes(r)
        /\ queued_bytes(q) \in Nat /\ queued_bytes(r) \in Nat /\ queued_bytes(t) \in Nat
    BY <1>1, BytesSum DEF D
  <2>2. queued_bytes(q) <= queued_bytes(r)
    BY DEF Redelivers
  <2> QED
    BY <2>1, <2>2
<1>5. ASSUME NEW p \in Pictures(size) PROVE Onto(p, t \o q) = Onto(p, t \o r)
  <2>1. Onto(p, t \o q) = Onto(Onto(p, t), q) /\ Onto(p, t \o r) = Onto(Onto(p, t), r)
    BY <1>1, OntoConcat
  <2>2. Onto(Onto(p, t), q) = Onto(Onto(p, t), r)
    BY <1>2 DEF Redelivers
  <2> QED
    BY <2>1, <2>2
<1> QED
  BY <1>3, <1>4, <1>5 DEF Redelivers, D

\* The events of a list of chunks.
EventsOf(size, cs) == [i \in DOMAIN cs |-> Delta(size, cs[i])]

\* They draw what the chunks hold and carry as much.
LEMMA EventsDraw ==
    ASSUME NEW size, NEW cs \in Seq(Seq(EntriesOf(size)))
    PROVE  /\ EventsOf(size, cs) \in Seq(DeltasOf(size))
           /\ queued_bytes(EventsOf(size, cs)) = PayloadOf(FlattenSeq(cs))
           /\ \A p \in Pictures(size) : Onto(p, EventsOf(size, cs)) = Paint(p, FlattenSeq(cs))
<1> DEFINE E == EntriesOf(size)
           D == DeltasOf(size)
           ev == EventsOf(size, cs)
           n == Len(cs)
           F(k) == FlattenSeq(SubSeq(cs, 1, k))
           Q(k) == SubSeq(ev, 1, k)
           S == {k \in 0 .. n : /\ queued_bytes(Q(k)) = PayloadOf(F(k))
                                /\ \A p \in Pictures(size) : Onto(p, Q(k)) = Paint(p, F(k))}
<1>1. /\ n \in Nat /\ DOMAIN cs = 1 .. n /\ \A i \in 1 .. n : cs[i] \in Seq(E)
      /\ SubSeq(cs, 1, n) = cs /\ SubSeq(cs, 1, 0) = <<>> /\ 0 \in 0 .. n /\ n \in 0 .. n
  OBVIOUS
<1>2. ASSUME NEW i \in 1 .. n PROVE ev[i] = Delta(size, cs[i]) /\ ev[i] \in D
  <2>1. ev[i] = Delta(size, cs[i]) /\ cs[i] \in Seq(E)
    BY <1>1 DEF EventsOf
  <2> QED
    BY <2>1 DEF Delta, DeltasOf
<1>3. ev \in Seq(D) /\ Len(ev) = n
  <2>1. ev = [i \in 1 .. n |-> ev[i]]
    BY <1>1 DEF EventsOf
  <2> HIDE DEF ev, D
  <2>2. ev \in [1 .. n -> D]
    BY <1>2, <2>1
  <2> QED
    BY <1>1, <2>2
<1> HIDE DEF ev
<1>4. SubSeq(ev, 1, n) = ev /\ SubSeq(ev, 1, 0) = <<>>
  <2> HIDE DEF D
  <2> QED
    BY <1>1, <1>3
<1>5. 0 \in S
  <2>1. Q(0) = <<>> /\ F(0) = <<>>
    BY <1>1, <1>4, FlattenEmpty
  <2> HIDE DEF Q, F
  <2>2. queued_bytes(<<>>) = PayloadOf(<<>>)
    BY BytesSum, PayloadSums
  <2>3. \A p : Onto(p, <<>>) = Paint(p, <<>>)
    BY OntoNothing, PaintNothing
  <2>4. queued_bytes(Q(0)) = PayloadOf(F(0)) /\ \A p : Onto(p, Q(0)) = Paint(p, F(0))
    BY <2>1, <2>2, <2>3
  <2> QED
    BY <1>1, <2>4
<1>6. ASSUME NEW k \in 0 .. n, k < n, k \in S PROVE k + 1 \in S
  <2> DEFINE c == cs[k + 1]
             d == ev[k + 1]
             u == SubSeq(cs, 1, k)
             f == F(k)
             q == Q(k)
  <2>1. /\ u \in Seq(Seq(E)) /\ c \in Seq(E) /\ SubSeq(cs, 1, k + 1) = Append(u, c)
    <3> DEFINE T == Seq(E)
    <3> HIDE DEF T, E
    <3>1. cs \in Seq(T)
      BY DEF T, E
    <3>2. u \in Seq(T) /\ c \in T /\ SubSeq(cs, 1, k + 1) = Append(u, c)
      BY <1>6, <3>1, Painted!PrefixGrows
    <3> QED
      BY <3>2 DEF T
  <2>2. q \in Seq(D) /\ d \in D /\ Q(k + 1) = Append(q, d)
    <3> HIDE DEF D, n
    <3>1. k \in 0 .. Len(ev) /\ k < Len(ev)
      BY <1>3, <1>6
    <3> QED
      BY <1>3, <3>1, Painted!PrefixGrows
  <2>3. f \in Seq(E) /\ F(k + 1) = f \o c
    <3> HIDE DEF E, u, c
    <3>1. FlattenSeq(Append(u, c)) = FlattenSeq(u) \o c /\ FlattenSeq(u) \in Seq(E)
      BY <2>1, FlattenAppend, FlattenTyped
    <3> QED
      BY <2>1, <3>1 DEF u
  <2>4. k + 1 \in 1 .. n /\ k + 1 \in 0 .. n
    BY <1>1, <1>6
  <2>5. d.rects = c
    <3>1. d = Delta(size, c)
      BY <1>2, <2>4
    <3> QED
      BY <3>1 DEF Delta
  <2>6. queued_bytes(q) = PayloadOf(f) /\ \A p \in Pictures(size) : Onto(p, q) = Paint(p, f)
    BY <1>6
  <2> HIDE DEF F, Q, E, D, c, d, u, f, q, n
  <2>7. queued_bytes(Append(q, d)) = PayloadOf(f \o c)
    <3>1. f \in Seq(AnyEntries) /\ c \in Seq(AnyEntries)
      BY <2>1, <2>3, PayloadTyped DEF E
    <3>2. PayloadOf(f \o c) = PayloadOf(f) + PayloadOf(c)
      BY <3>1, PayloadSums
    <3>3. queued_bytes(Append(q, d)) = queued_bytes(q) + PayloadOf(d.rects)
      BY <2>2, BytesSum DEF D
    <3> QED
      BY <2>5, <2>6, <3>2, <3>3
  <2>8. ASSUME NEW p \in Pictures(size) PROVE Onto(p, Append(q, d)) = Paint(p, f \o c)
    <3>1. Onto(p, Append(q, d)) = Paint(Onto(p, q), d.rects)
      BY <2>2, OntoAppend
    <3>2. Paint(p, f \o c) = Paint(Paint(p, f), c)
      BY <2>1, <2>3, PaintConcat
    <3> QED
      BY <2>5, <2>6, <3>1, <3>2
  <2>9. /\ queued_bytes(Q(k + 1)) = PayloadOf(F(k + 1))
        /\ \A p \in Pictures(size) : Onto(p, Q(k + 1)) = Paint(p, F(k + 1))
    BY <2>2, <2>3, <2>7, <2>8
  <2> QED
    BY <2>4, <2>9
<1>7. n \in S
  <2>1. \A k \in 0 .. n : k < n /\ k \in S => k + 1 \in S
    BY <1>6
  <2> HIDE DEF S, n
  <2>2. \A k \in 0 .. n : k \in S
    BY <1>1, <1>5, <2>1, Painted!PositionInduction
  <2> QED
    BY <1>1, <2>2
<1>8. F(n) = FlattenSeq(cs) /\ Q(n) = ev
  BY <1>1, <1>4
<1> HIDE DEF F, Q
<1> QED
  BY <1>3, <1>7, <1>8 DEF ev

\* The events of a delta that was split redeliver any queue that draws what it draws and
\* carries no less.
LEMMA ChunksRedeliver ==
    ASSUME NEW size, NEW s, NEW t, Redraws(s, t, size), NEW q \in Seq(DeltasOf(size)),
           queued_bytes(q) = PayloadOf(t), \A p \in Pictures(size) : Onto(p, q) = Paint(p, t)
    PROVE  Redelivers(Chunks(size, s), q, size)
<1> DEFINE cs == split_delta_into_chunks(s)
           f == FlattenSeq(cs)
<1>1. Chunks(size, s) = EventsOf(size, cs)
  BY DEF Chunks, EventsOf
<1>2. s \in Seq(EntriesOf(size))
  BY DEF Redraws
<1>3. cs \in Seq(Seq(EntriesOf(size))) /\ Redraws(f, s, size)
  BY <1>2, ChunksRedraw
<1> HIDE DEF cs
<1>4. /\ EventsOf(size, cs) \in Seq(DeltasOf(size))
      /\ queued_bytes(EventsOf(size, cs)) = PayloadOf(f)
      /\ \A p \in Pictures(size) : Onto(p, EventsOf(size, cs)) = Paint(p, f)
  BY <1>3, EventsDraw
<1> HIDE DEF f
<1>5. Redraws(f, t, size)
  BY <1>3, RedrawsAgain
<1> QED
  BY <1>1, <1>4, <1>5 DEF Redraws, Redelivers

\* What the two oldest events draw, together.
LEMMA PairDraws ==
    ASSUME NEW size, NEW a \in DeltasOf(size), NEW b \in DeltasOf(size)
    PROVE  /\ <<a, b>> \in Seq(DeltasOf(size))
           /\ queued_bytes(<<a, b>>) = PayloadOf(a.rects \o b.rects)
           /\ \A p \in Pictures(size) : Onto(p, <<a, b>>) = Paint(p, a.rects \o b.rects)
<1> DEFINE D == DeltasOf(size)
           E == EntriesOf(size)
           o == <<a>>
           x == a.rects
           y == b.rects
<1>1. a \in D /\ b \in D /\ x \in Seq(E) /\ y \in Seq(E)
  BY DeltaFields
<1> HIDE DEF D, E
<1>2. o \in Seq(D) /\ <<a, b>> = Append(o, b) /\ <<a, b>> \in Seq(D) /\ o = Append(<<>>, a) /\ <<>> \in Seq(D)
  BY <1>1
<1> HIDE DEF o
<1>3. queued_bytes(<<a, b>>) = PayloadOf(x) + PayloadOf(y)
  <2>1. /\ queued_bytes(Append(o, b)) = queued_bytes(o) + PayloadOf(y)
        /\ queued_bytes(Append(<<>>, a)) = queued_bytes(<<>>) + PayloadOf(x)
        /\ queued_bytes(<<>>) = 0
    BY <1>1, <1>2, BytesSum DEF D
  <2>2. PayloadOf(x) \in Nat
    BY <1>1, PayloadTyped DEF E
  <2> HIDE DEF x, y
  <2>3. queued_bytes(o) = PayloadOf(x)
    BY <1>2, <2>1, <2>2
  <2> QED
    BY <1>2, <2>1, <2>3
<1>4. PayloadOf(x \o y) = PayloadOf(x) + PayloadOf(y)
  <2>1. x \in Seq(AnyEntries) /\ y \in Seq(AnyEntries)
    BY <1>1, PayloadTyped DEF E
  <2> HIDE DEF x, y
  <2> QED
    BY <2>1, PayloadSums
<1>5. ASSUME NEW p PROVE Onto(p, <<a, b>>) = Paint(p, x \o y)
  <2>1. Onto(p, o) = Paint(p, x)
    BY OntoOne DEF o
  <2>a. o \in Seq(D) /\ b \in D
    BY <1>1, <1>2
  <2>b. Onto(p, Append(o, b)) = Paint(Onto(p, o), b.rects)
    BY <2>a, OntoAppend
  <2>2. Onto(p, Append(o, b)) = Paint(Onto(p, o), y)
    BY <2>b
  <2> HIDE DEF x, y
  <2>3. Paint(p, x \o y) = Paint(Paint(p, x), y)
    BY <1>1, PaintConcat
  <2> QED
    BY <1>2, <2>1, <2>2, <2>3
<1> HIDE DEF x, y
<1> QED
  BY <1>2, <1>3, <1>4, <1>5 DEF x, y, D

\* Two deltas for the same desktop are merged into what they draw together.
LEMMA MergeRedraws ==
    ASSUME NEW size, NEW a \in DeltasOf(size), NEW b \in DeltasOf(size)
    PROVE  Redraws(merge_deltas(a, b), a.rects \o b.rects, size)
<1>1. a.rects \in Seq(EntriesOf(size)) /\ b.rects \in Seq(EntriesOf(size)) /\ a.size = b.size
  BY DeltaFields
<1>2. merge_deltas(a, b) = fold_payload(a.rects, b.rects)
  BY <1>1 DEF merge_deltas
<1> QED
  BY <1>1, <1>2, FoldPayloadRedraws

\* The first two of a queue and the rest.
LEMMA FirstTwo ==
    ASSUME NEW T, NEW q \in Seq(T), Len(q) >= 2
    PROVE  /\ q[1] \in T /\ q[2] \in T /\ SubSeq(q, 3, Len(q)) \in Seq(T)
           /\ q = <<q[1], q[2]>> \o SubSeq(q, 3, Len(q))
  OBVIOUS

\* A turn of the loop redelivers the queue.
LEMMA FoldOldestRedelivers ==
    ASSUME NEW size, NEW q \in Seq(DeltasOf(size)), Len(q) >= 2
    PROVE  Redelivers(FoldOldest(q), q, size)
<1> DEFINE D == DeltasOf(size)
           a == q[1]
           b == q[2]
           t == SubSeq(q, 3, Len(q))
           m == merge_deltas(a, b)
           o == <<a, b>>
<1>1. a \in D /\ b \in D /\ t \in Seq(D) /\ q = o \o t
  <2> HIDE DEF D
  <2>1. q \in Seq(D)
    BY DEF D
  <2> QED
    BY <2>1, FirstTwo
<1>2. FoldOldest(q) = Chunks(b.size, m) \o t
  BY DEF FoldOldest
<1> HIDE DEF a, b, t
<1>3. b.size = size
  BY <1>1, DeltaFields
<1>4. Redraws(m, a.rects \o b.rects, size)
  BY <1>1, MergeRedraws
<1>5. /\ o \in Seq(D) /\ queued_bytes(o) = PayloadOf(a.rects \o b.rects)
      /\ \A p \in Pictures(size) : Onto(p, o) = Paint(p, a.rects \o b.rects)
  BY <1>1, PairDraws
<1> HIDE DEF m, o
<1>6. Redelivers(Chunks(size, m), o, size)
  <2> DEFINE u == a.rects \o b.rects
  <2> HIDE DEF u
  <2>1. /\ Redraws(m, u, size) /\ queued_bytes(o) = PayloadOf(u)
        /\ \A p \in Pictures(size) : Onto(p, o) = Paint(p, u)
    BY <1>4, <1>5 DEF u
  <2> QED
    BY <1>5, <2>1, ChunksRedeliver
<1>7. Redelivers(Chunks(size, m) \o t, o \o t, size)
  BY <1>1, <1>6, RedeliversBefore
<1> QED
  BY <1>1, <1>2, <1>3, <1>7

\* The deltas that an event may carry.
SmallDeltas(size) == {d \in DeltasOf(size) : WithinCap(d.rects)}

\* If no event of r is too large, none of q is.
StaysSmall(q, r, size) == r \in Seq(SmallDeltas(size)) => q \in Seq(SmallDeltas(size))

\* The chunks of a list, as events.
LEMMA ChunkEventsAreSmall ==
    ASSUME NEW size, NEW s \in Seq(EntriesOf(size))
    PROVE  Chunks(size, s) \in Seq(SmallDeltas(size))
<1> DEFINE c == split_delta_into_chunks(s)
           D == SmallDeltas(size)
<1>1. c \in Seq(Seq(EntriesOf(size))) /\ \A i \in DOMAIN c : WithinCap(c[i])
  BY ChunksRedraw, ChunksStayWithinCap
<1>2. Chunks(size, s) = [i \in DOMAIN c |-> Delta(size, c[i])]
  BY DEF Chunks
<1> HIDE DEF c
<1>3. Len(c) \in Nat /\ DOMAIN c = 1 .. Len(c) /\ \A i \in DOMAIN c : c[i] \in Seq(EntriesOf(size))
  <2> DEFINE U == Seq(EntriesOf(size))
  <2> HIDE DEF U
  <2>1. c \in Seq(U)
    BY <1>1 DEF U
  <2>2. Len(c) \in Nat /\ DOMAIN c = 1 .. Len(c) /\ \A i \in DOMAIN c : c[i] \in U
    BY <2>1
  <2> QED
    BY <2>2 DEF U
<1>4. ASSUME NEW i \in 1 .. Len(c) PROVE Delta(size, c[i]) \in D
  <2>1. c[i] \in Seq(EntriesOf(size)) /\ WithinCap(c[i])
    BY <1>1, <1>3
  <2>2. Delta(size, c[i]) \in DeltasOf(size) /\ Delta(size, c[i]).rects = c[i]
    BY <2>1 DEF Delta, DeltasOf
  <2> QED
    BY <2>1, <2>2 DEF SmallDeltas
<1> HIDE DEF D
<1>5. Chunks(size, s) \in [1 .. Len(c) -> D]
  BY <1>2, <1>3, <1>4
<1>6. Chunks(size, s) \in Seq(D)
  <2> DEFINE k == Chunks(size, s)
             n == Len(c)
  <2> HIDE DEF k, n
  <2>1. n \in Nat /\ k \in [1 .. n -> D]
    BY <1>3, <1>5 DEF k, n
  <2>2. k \in Seq(D)
    BY <2>1
  <2> QED
    BY <2>2 DEF k
<1> QED
  BY <1>6 DEF D

\* Folding the two oldest events makes no large one: what they become is split again.
LEMMA FoldOldestStaysSmall ==
    ASSUME NEW size, NEW q \in Seq(DeltasOf(size)), Len(q) >= 2
    PROVE  StaysSmall(FoldOldest(q), q, size)
<1> SUFFICES ASSUME q \in Seq(SmallDeltas(size)) PROVE FoldOldest(q) \in Seq(SmallDeltas(size))
  BY DEF StaysSmall
<1> DEFINE D == SmallDeltas(size)
           m == merge_deltas(q[1], q[2])
           t == SubSeq(q, 3, Len(q))
<1>1. q[1] \in D /\ q[2] \in D /\ t \in Seq(D)
  <2> HIDE DEF D
  <2>1. q \in Seq(D)
    BY DEF D
  <2> QED
    BY <2>1, FirstTwo
<1>2. q[1] \in DeltasOf(size) /\ q[2] \in DeltasOf(size)
  BY <1>1 DEF SmallDeltas
<1>3. q[2].size = size
  BY <1>2, DeltaFields
<1>4. m \in Seq(EntriesOf(size))
  <2>1. Redraws(m, q[1].rects \o q[2].rects, size)
    BY <1>2, MergeRedraws
  <2> QED
    BY <2>1 DEF Redraws
<1>5. FoldOldest(q) = Chunks(size, m) \o t
  BY <1>3 DEF FoldOldest
<1> HIDE DEF m, t
<1>6. Chunks(size, m) \in Seq(D)
  BY <1>4, ChunkEventsAreSmall
<1> HIDE DEF D
<1>7. Chunks(size, m) \o t \in Seq(D)
  BY <1>1, <1>6
<1> QED
  BY <1>5, <1>7 DEF D

OldestAgain(q, turn) == FoldOldest(q)
Turns == INSTANCE FoldProofs WITH Step <- OldestAgain

\* The queue after every number of turns, as MakeRoom defines it.
AfterTurns(q) ==
    CHOOSE f : f = [turns \in Nat |-> IF turns = 0 THEN q ELSE FoldOldest(f[turns - 1])]

\* There is such a sequence of queues.
LEMMA TurnsFollow ==
    ASSUME NEW q
    PROVE  /\ AfterTurns(q)[0] = q
           /\ \A n \in Nat : AfterTurns(q)[n + 1] = FoldOldest(AfterTurns(q)[n])
<1> DEFINE g == AfterTurns(q)
<1>1. \E f : f = [turns \in Nat |-> IF turns = 0 THEN q ELSE FoldOldest(f[turns - 1])]
  BY Turns!Iterates DEF OldestAgain
<1>2. g = [turns \in Nat |-> IF turns = 0 THEN q ELSE FoldOldest(g[turns - 1])]
  BY <1>1 DEF AfterTurns
<1> HIDE DEF g
<1>3. g[0] = q
  BY <1>2
<1>4. ASSUME NEW n \in Nat PROVE g[n + 1] = FoldOldest(g[n])
  <2>1. n + 1 \in Nat /\ n + 1 # 0 /\ (n + 1) - 1 = n
    OBVIOUS
  <2> QED
    BY <1>2, <2>1
<1> QED
  BY <1>3, <1>4 DEF g

\* The loop is over after so many turns.
Ended(q, chunk, budget, n) ==
    \/ ~TooMuch(AfterTurns(q)[n], chunk, budget)
    \/ n > 0 /\ ~Shrunk(AfterTurns(q)[n], AfterTurns(q)[n - 1])

\* The most turns the loop can take.
MostTurns(q) == Len(q) + queued_bytes(q) + 1

\* MakeRoom returns the queue after the first turn with which the loop is over.
LEMMA MakeRoomIsFirst ==
    ASSUME NEW q, NEW chunk, NEW budget
    PROVE  MakeRoom(q, chunk, budget)
             = AfterTurns(q)[CHOOSE n \in 0 .. MostTurns(q) :
                                 /\ Ended(q, chunk, budget, n)
                                 /\ \A b \in 0 .. n - 1 : ~Ended(q, chunk, budget, b)]
  BY DEF MakeRoom, AfterTurns, MostTurns, Ended

\* A turn that shrinks the queue takes away an event or a byte.
LEMMA ShrinkingEnds ==
    ASSUME NEW a \in Nat, NEW b \in Nat, NEW c \in Nat, NEW d \in Nat, c <= d, NEW n \in Nat, NEW m \in Nat,
           b + d + n <= m, a < b \/ (a = b /\ c < d)
    PROVE  a + c + (n + 1) <= m
  OBVIOUS

\* The loop ends, and the queue it leaves redelivers the one it found, without a larger
\* event than the cap allows.
THEOREM MakeRoomRedelivers ==
    ASSUME NEW size, NEW q \in Seq(DeltasOf(size)), NEW chunk, NEW budget
    PROVE  /\ Redelivers(MakeRoom(q, chunk, budget), q, size)
           /\ StaysSmall(MakeRoom(q, chunk, budget), q, size)
<1> DEFINE D == DeltasOf(size)
           A(n) == AfterTurns(q)[n]
           E(n) == Ended(q, chunk, budget, n)
           m == Len(q) + queued_bytes(q)
           First(n) == E(n) /\ \A b \in 0 .. n - 1 : ~E(b)
           Left(n) == Redelivers(A(n), q, size) /\ StaysSmall(A(n), q, size)
           Going(n) == \A b \in 0 .. n : ~E(b)
           Less(n) == Len(A(n)) + queued_bytes(A(n)) + n <= m
           S == {k \in 0 .. m + 1 :
                    \/ \E n \in 0 .. k : First(n) /\ Left(n)
                    \/ Going(k) /\ Left(k) /\ Less(k)}
<1>1. A(0) = q /\ \A n \in Nat : A(n + 1) = FoldOldest(A(n))
  BY TurnsFollow
<1>2. m \in Nat /\ MostTurns(q) = m + 1
  BY BytesSum DEF MostTurns
<1> HIDE DEF A, m
<1>3. 0 \in S
  <2>1. Left(0)
    BY <1>1, RedeliversItself DEF StaysSmall
  <2>2. 0 \in 0 .. m + 1 /\ 0 \in 0 .. 0
    BY <1>2
  <2>3. Less(0)
    BY <1>1, <1>2 DEF m
  <2> HIDE DEF Left, Less, E
  <2>4. CASE E(0)
    <3>1. First(0)
      BY <2>4
    <3> HIDE DEF First
    <3> QED
      BY <2>1, <2>2, <3>1
  <2>5. CASE ~E(0)
    <3>1. Going(0)
      BY <2>5
    <3> HIDE DEF Going
    <3> QED
      BY <2>1, <2>2, <2>3, <3>1
  <2> QED
    BY <2>4, <2>5
<1>4. ASSUME NEW k \in 0 .. m + 1, k < m + 1, k \in S PROVE k + 1 \in S
  <2>1. k + 1 \in 0 .. m + 1 /\ k \in Nat /\ k + 1 \in Nat
    BY <1>2, <1>4
  <2>2. CASE \E n \in 0 .. k : First(n) /\ Left(n)
    <3> HIDE DEF First, Left
    <3>1. PICK n \in 0 .. k : First(n) /\ Left(n)
      BY <2>2
    <3>2. n \in 0 .. k + 1
      BY <2>1
    <3> QED
      BY <2>1, <3>1, <3>2
  <2>3. CASE Going(k) /\ Left(k) /\ Less(k)
    <3>1. ~E(k)
      BY <2>1, <2>3
    <3>2. A(k) \in Seq(D) /\ Len(A(k)) >= 2
      BY <2>3, <3>1 DEF Ended, TooMuch, Redelivers, A
    <3>3. A(k + 1) = FoldOldest(A(k))
      BY <1>1, <2>1
    <3>4. Redelivers(A(k + 1), A(k), size) /\ StaysSmall(A(k + 1), A(k), size)
      BY <3>2, <3>3, FoldOldestRedelivers, FoldOldestStaysSmall
    <3>5. Left(k + 1)
      BY <2>3, <3>4, RedeliversAgain DEF StaysSmall
    <3>6. CASE E(k + 1)
      <4>1. 0 .. (k + 1) - 1 = 0 .. k
        BY <2>1
      <4> HIDE DEF E
      <4>2. First(k + 1)
        BY <2>3, <3>6, <4>1
      <4>3. k + 1 \in 0 .. k + 1
        BY <2>1
      <4> HIDE DEF First, Left
      <4> QED
        BY <2>1, <3>5, <4>2, <4>3
    <3>7. CASE ~E(k + 1)
      <4>1. Shrunk(A(k + 1), A(k))
        <5>1. k + 1 > 0 /\ (k + 1) - 1 = k
          BY <2>1
        <5> QED
          BY <3>7, <5>1 DEF Ended, A
      <4>2. /\ Len(A(k + 1)) \in Nat /\ Len(A(k)) \in Nat
            /\ queued_bytes(A(k + 1)) \in Nat /\ queued_bytes(A(k)) \in Nat
            /\ queued_bytes(A(k + 1)) <= queued_bytes(A(k))
        BY <3>4, BytesSum DEF Redelivers
      <4>3. Less(k + 1)
        <5> DEFINE a1 == Len(A(k + 1))
                   b1 == Len(A(k))
                   c1 == queued_bytes(A(k + 1))
                   d1 == queued_bytes(A(k))
        <5>1. a1 < b1 \/ (a1 = b1 /\ c1 < d1)
          BY <4>1 DEF Shrunk
        <5>2. b1 + d1 + k <= m
          BY <2>3
        <5> HIDE DEF a1, b1, c1, d1
        <5>3. a1 \in Nat /\ b1 \in Nat /\ c1 \in Nat /\ d1 \in Nat /\ c1 <= d1
          BY <4>2 DEF a1, b1, c1, d1
        <5>4. a1 + c1 + (k + 1) <= m
          BY <1>2, <2>1, <5>1, <5>2, <5>3, ShrinkingEnds
        <5> QED
          BY <5>4 DEF a1, c1
      <4> HIDE DEF E
      <4>4. Going(k + 1)
        <5>1. 0 .. k + 1 = (0 .. k) \cup {k + 1}
          BY <2>1
        <5> QED
          BY <2>3, <3>7, <5>1
      <4> HIDE DEF Going, Left, Less
      <4> QED
        BY <2>1, <3>5, <4>3, <4>4
    <3> QED
      BY <3>6, <3>7
  <2> HIDE DEF First, Left, Going, Less
  <2> QED
    BY <1>4, <2>2, <2>3
<1>5. m + 1 \in S
  <2>1. \A k \in 0 .. m + 1 : k < m + 1 /\ k \in S => k + 1 \in S
    BY <1>4
  <2> HIDE DEF S
  <2> DEFINE n == m + 1
  <2>2. n \in Nat /\ n \in 0 .. n
    BY <1>2
  <2> HIDE DEF n
  <2>3. \A k \in 0 .. n : k < n /\ k \in S => k + 1 \in S
    BY <2>1 DEF n
  <2>4. \A k \in 0 .. n : k \in S
    BY <1>3, <2>2, <2>3, Painted!PositionInduction
  <2> QED
    BY <2>2, <2>4 DEF n
<1>6. \E n \in 0 .. m + 1 : First(n) /\ Left(n)
  <2>1. ASSUME Left(m + 1), Less(m + 1) PROVE FALSE
    <3>1. Len(A(m + 1)) \in Nat /\ queued_bytes(A(m + 1)) \in Nat
      BY <2>1, BytesSum DEF Redelivers
    <3> QED
      BY <1>2, <2>1, <3>1
  <2> HIDE DEF First, Left, Going, Less
  <2> QED
    BY <1>5, <2>1
<1>7. ASSUME NEW n \in 0 .. m + 1, NEW k \in 0 .. m + 1, First(n), First(k) PROVE n = k
  <2>1. n \in Nat /\ k \in Nat
    BY <1>2
  <2>2. CASE n < k
    <3>1. n \in 0 .. k - 1
      BY <2>1, <2>2
    <3> QED
      BY <1>7, <3>1
  <2>3. CASE k < n
    <3>1. k \in 0 .. n - 1
      BY <2>1, <2>3
    <3> QED
      BY <1>7, <3>1
  <2> QED
    BY <2>1, <2>2, <2>3
<1>8. MakeRoom(q, chunk, budget) = A(CHOOSE n \in 0 .. m + 1 : First(n))
  BY <1>2, MakeRoomIsFirst DEF A
<1> HIDE DEF First
<1>9. PICK n \in 0 .. m + 1 : First(n) /\ Left(n)
  BY <1>6
<1>10. (CHOOSE k \in 0 .. m + 1 : First(k)) = n
  BY <1>7, <1>9
<1> QED
  BY <1>8, <1>9, <1>10

Queueing == INSTANCE FoldProofs WITH Step <- QueueChunk

\* queue_delta is the loop over the chunks.
LEMMA QueueDeltaIsLoop ==
    ASSUME NEW q, NEW d
    PROVE  queue_delta(q, d)
             = Queueing!Fold(IF q = <<>> THEN <<>> ELSE Front(q),
                             Chunks(d.size, IF q = <<>> THEN fold_payload(<<>>, d.rects)
                                            ELSE merge_deltas(Last(q), d)))
  BY DEF queue_delta, Queueing!Fold, FoldLeft, MapThenFoldSet,
         Queueing!MapThenFoldSet, Max, Queueing!Highest

\* Putting chunks into the queue, folding it whenever there is too much, redelivers the
\* queue followed by the chunks.
LEMMA QueueChunksRedeliver ==
    ASSUME NEW size, NEW q \in Seq(DeltasOf(size)), NEW c \in Seq(DeltasOf(size))
    PROVE  Redelivers(Queueing!Fold(q, c), q \o c, size)
<1> DEFINE D == DeltasOf(size)
           n == Len(c)
           F(k) == Queueing!Fold(q, SubSeq(c, 1, k))
           A(k) == q \o SubSeq(c, 1, k)
           S == {k \in 0 .. n : Redelivers(F(k), A(k), size)}
<1>1. n \in Nat /\ SubSeq(c, 1, n) = c /\ SubSeq(c, 1, 0) = <<>> /\ 0 \in 0 .. n /\ n \in 0 .. n
  <2> HIDE DEF D
  <2>1. c \in Seq(D)
    BY DEF D
  <2> QED
    BY <2>1
<1>2. 0 \in S
  <2>1. F(0) = q
    BY <1>1, Queueing!FoldEmpty
  <2>2. A(0) = q
    <3> HIDE DEF D
    <3>1. q \in Seq(D)
      BY DEF D
    <3> QED
      BY <1>1, <3>1
  <2> HIDE DEF F, A
  <2>3. Redelivers(F(0), A(0), size)
    BY <2>1, <2>2, RedeliversItself
  <2> QED
    BY <1>1, <2>3
<1>3. ASSUME NEW k \in 0 .. n, k < n, k \in S PROVE k + 1 \in S
  <2> DEFINE u == SubSeq(c, 1, k)
             e == c[k + 1]
             o == <<e>>
             r == MakeRoom(F(k), e, Budget(e.size))
  <2>1. /\ u \in Seq(D) /\ e \in D /\ SubSeq(c, 1, k + 1) = Append(u, e)
        /\ A(k) \in Seq(D) /\ A(k + 1) = Append(A(k), e)
    <3> HIDE DEF D
    <3>1. q \in Seq(D) /\ c \in Seq(D)
      BY DEF D
    <3> QED
      BY <1>3, <3>1, Queueing!PrefixGrows
  <2>2. Redelivers(F(k), A(k), size)
    BY <1>3
  <2>3. F(k + 1) = QueueChunk(F(k), e)
    <3> HIDE DEF u, e, D
    <3>1. Queueing!Fold(q, Append(u, e)) = QueueChunk(Queueing!Fold(q, u), e)
      BY <2>1, Queueing!FoldAppend
    <3> QED
      BY <2>1, <3>1 DEF u
  <2> HIDE DEF F, A, e, u
  <2>4. F(k) \in Seq(D)
    BY <2>2 DEF Redelivers
  <2>5. Redelivers(r, F(k), size)
    BY <2>4, MakeRoomRedelivers
  <2>6. F(k + 1) = Append(r, e)
    BY <2>3 DEF QueueChunk
  <2> HIDE DEF r
  <2>7. Redelivers(r, A(k), size)
    BY <2>2, <2>5, RedeliversAgain
  <2>8. o \in Seq(D) /\ r \in Seq(D)
    <3>1. r \in Seq(D)
      BY <2>7 DEF Redelivers
    <3> HIDE DEF D
    <3> QED
      BY <2>1, <3>1
  <2>9. Redelivers(r \o o, A(k) \o o, size)
    BY <2>7, <2>8, RedeliversBefore
  <2>10. r \o o = Append(r, e) /\ A(k) \o o = Append(A(k), e)
    <3> HIDE DEF D
    <3> QED
      BY <2>1, <2>8
  <2>11. Redelivers(F(k + 1), A(k + 1), size)
    BY <2>1, <2>6, <2>9, <2>10
  <2>12. k + 1 \in 0 .. n
    BY <1>1, <1>3
  <2> QED
    BY <2>11, <2>12
<1>4. n \in S
  <2>1. \A k \in 0 .. n : k < n /\ k \in S => k + 1 \in S
    BY <1>3
  <2> HIDE DEF S, n
  <2>2. \A k \in 0 .. n : k \in S
    BY <1>1, <1>2, <2>1, Queueing!PositionInduction
  <2> QED
    BY <1>1, <2>2
<1>5. F(n) = Queueing!Fold(q, c) /\ A(n) = q \o c
  BY <1>1
<1> HIDE DEF F, A
<1> QED
  BY <1>4, <1>5

\* queue_delta loses no pixel: the new queue draws what the old one and the delta draw,
\* however the delta is merged with the youngest event, split into chunks, and the oldest
\* events folded to make room for them.
THEOREM QueueDeltaRedelivers ==
    ASSUME NEW size, NEW q \in Seq(DeltasOf(size)), NEW d \in DeltasOf(size)
    PROVE  Redelivers(queue_delta(q, d), Append(q, d), size)
<1> DEFINE D == DeltasOf(size)
<1>1. d \in D /\ d.size = size /\ d.rects \in Seq(EntriesOf(size))
  BY DeltaFields
<1>2. CASE q = <<>>
  <2> DEFINE m == fold_payload(<<>>, d.rects)
             o == <<d>>
             c == Chunks(size, m)
  <2>1. queue_delta(q, d) = Queueing!Fold(<<>>, c)
    BY <1>1, <1>2, QueueDeltaIsLoop
  <2>2. Redraws(m, d.rects, size)
    <3> DEFINE r == d.rects
               T == EntriesOf(size)
    <3> HIDE DEF r, T
    <3>1. r \in Seq(T)
      BY <1>1 DEF r, T
    <3>2. <<>> \o r = r /\ <<>> \in Seq(T)
      BY <3>1
    <3>3. Redraws(fold_payload(<<>>, r), <<>> \o r, size)
      BY <3>1, <3>2, FoldPayloadRedraws DEF T
    <3> QED
      BY <3>2, <3>3 DEF r
  <2>3. /\ o \in Seq(D) /\ queued_bytes(o) = PayloadOf(d.rects)
        /\ \A p \in Pictures(size) : Onto(p, o) = Paint(p, d.rects)
    <3> HIDE DEF D
    <3>1. o \in Seq(D) /\ o = Append(<<>>, d) /\ <<>> \in Seq(D)
      BY <1>1
    <3>2. queued_bytes(Append(<<>>, d)) = queued_bytes(<<>>) + PayloadOf(d.rects) /\ queued_bytes(<<>>) = 0
      BY <1>1, <3>1, BytesSum DEF D
    <3>3. PayloadOf(d.rects) \in Nat
      BY DeltaFields
    <3>4. queued_bytes(o) = PayloadOf(d.rects)
      BY <3>1, <3>2, <3>3
    <3>5. \A p : Onto(p, o) = Paint(p, d.rects)
      BY OntoOne
    <3> QED
      BY <3>1, <3>4, <3>5
  <2>4. o = Append(q, d)
    BY <1>2
  <2> HIDE DEF m, o
  <2>5. Redelivers(c, o, size)
    <3> DEFINE t == d.rects
    <3> HIDE DEF t
    <3>1. /\ Redraws(m, t, size) /\ queued_bytes(o) = PayloadOf(t)
          /\ \A p \in Pictures(size) : Onto(p, o) = Paint(p, t)
      BY <2>2, <2>3 DEF t
    <3> QED
      BY <2>3, <3>1, ChunksRedeliver
  <2> HIDE DEF c
  <2>6. c \in Seq(D)
    BY <2>5 DEF Redelivers
  <2>7. <<>> \in Seq(D) /\ <<>> \o c = c
    <3> HIDE DEF D
    <3> QED
      BY <2>6
  <2>8. Redelivers(Queueing!Fold(<<>>, c), <<>> \o c, size)
    BY <2>6, <2>7, QueueChunksRedeliver
  <2> QED
    BY <2>1, <2>4, <2>5, <2>7, <2>8, RedeliversAgain
<1>3. CASE q # <<>>
  <2> DEFINE f == Front(q)
             l == Last(q)
             m == merge_deltas(l, d)
             o == <<l, d>>
             c == Chunks(size, m)
  <2>1. queue_delta(q, d) = Queueing!Fold(f, c)
    BY <1>1, <1>3, QueueDeltaIsLoop
  <2>2. f \in Seq(D) /\ l \in D /\ q = Append(f, l)
    <3> HIDE DEF D
    <3>1. q \in Seq(D)
      BY DEF D
    <3> QED
      BY <1>3, <3>1, LastIsLast
  <2> HIDE DEF f, l
  <2>3. Redraws(m, l.rects \o d.rects, size)
    BY <1>1, <2>2, MergeRedraws
  <2>4. /\ o \in Seq(D) /\ queued_bytes(o) = PayloadOf(l.rects \o d.rects)
        /\ \A p \in Pictures(size) : Onto(p, o) = Paint(p, l.rects \o d.rects)
    BY <1>1, <2>2, PairDraws
  <2>5. f \o o = Append(q, d)
    <3> HIDE DEF D
    <3> QED
      BY <1>1, <2>2
  <2> HIDE DEF m, o
  <2>6. Redelivers(c, o, size)
    <3> DEFINE t == l.rects \o d.rects
    <3> HIDE DEF t
    <3>1. /\ Redraws(m, t, size) /\ queued_bytes(o) = PayloadOf(t)
          /\ \A p \in Pictures(size) : Onto(p, o) = Paint(p, t)
      BY <2>3, <2>4 DEF t
    <3> QED
      BY <2>4, <3>1, ChunksRedeliver
  <2> HIDE DEF c
  <2>7. c \in Seq(D)
    BY <2>6 DEF Redelivers
  <2>8. Redelivers(Queueing!Fold(f, c), f \o c, size)
    BY <2>2, <2>7, QueueChunksRedeliver
  <2>9. Redelivers(f \o c, f \o o, size)
    BY <2>2, <2>6, RedeliversAfter
  <2> QED
    BY <2>1, <2>5, <2>8, <2>9, RedeliversAgain
<1> QED
  BY <1>2, <1>3

\* No event of the new queue is too large, whatever the size of the delta: it is merged
\* before it is split, and what is folded is split again.
THEOREM QueueDeltaStaysWithinCap ==
    ASSUME NEW size, NEW q \in Seq(DeltasOf(size)), NEW d \in DeltasOf(size),
           \A i \in DOMAIN q : WithinCap(q[i].rects)
    PROVE  \A i \in DOMAIN queue_delta(q, d) : WithinCap(queue_delta(q, d)[i].rects)
<1> DEFINE E == DeltasOf(size)
           D == SmallDeltas(size)
           f == IF q = <<>> THEN <<>> ELSE Front(q)
           m == IF q = <<>> THEN fold_payload(<<>>, d.rects) ELSE merge_deltas(Last(q), d)
           c == Chunks(size, m)
           r == queue_delta(q, d)
<1>1. q \in Seq(D)
  <2>1. Len(q) \in Nat /\ DOMAIN q = 1 .. Len(q) /\ q = [i \in 1 .. Len(q) |-> q[i]]
        /\ \A i \in 1 .. Len(q) : q[i] \in E
    <3> HIDE DEF E
    <3>1. q \in Seq(E)
      BY DEF E
    <3> QED
      BY <3>1
  <2>2. \A i \in 1 .. Len(q) : q[i] \in D
    BY <2>1 DEF SmallDeltas
  <2> HIDE DEF D
  <2>3. q \in [1 .. Len(q) -> D]
    BY <2>1, <2>2
  <2> QED
    BY <2>1, <2>3
<1>2. d.size = size /\ d.rects \in Seq(EntriesOf(size))
  BY DeltaFields
<1>3. m \in Seq(EntriesOf(size))
  <2>1. CASE q = <<>>
    <3> DEFINE T == EntriesOf(size)
    <3>1. <<>> \in Seq(T)
      <4> HIDE DEF T
      <4> QED
        BY EmptySeq
    <3>2. Redraws(fold_payload(<<>>, d.rects), <<>> \o d.rects, size)
      BY <1>2, <3>1, FoldPayloadRedraws
    <3> QED
      BY <2>1, <3>2 DEF Redraws
  <2>2. CASE q # <<>>
    <3>1. Last(q) \in E
      <4> HIDE DEF E
      <4>1. q \in Seq(E)
        BY DEF E
      <4> QED
        BY <2>2, <4>1, LastIsLast
    <3>2. Redraws(merge_deltas(Last(q), d), Last(q).rects \o d.rects, size)
      BY <3>1, MergeRedraws
    <3> QED
      BY <2>2, <3>2 DEF Redraws
  <2> QED
    BY <2>1, <2>2
<1>4. f \in Seq(D)
  <2> HIDE DEF D
  <2>1. <<>> \in Seq(D)
    BY EmptySeq
  <2>2. q # <<>> => Front(q) \in Seq(D)
    BY <1>1, LastIsLast
  <2> QED
    BY <2>1, <2>2
<1>5. r = Queueing!Fold(f, c)
  BY <1>2, QueueDeltaIsLoop
<1> HIDE DEF f, m, r
<1>6. c \in Seq(D)
  BY <1>3, ChunkEventsAreSmall
<1> HIDE DEF c
<1>7. ASSUME NEW v \in Seq(D), NEW e \in D PROVE QueueChunk(v, e) \in Seq(D)
  <2> DEFINE w == MakeRoom(v, e, Budget(e.size))
  <2>1. v \in Seq(E)
    <3>1. D \subseteq E
      BY DEF SmallDeltas
    <3> HIDE DEF D, E
    <3> QED
      BY <3>1, SeqWidens
  <2>2. StaysSmall(w, v, size)
    BY <2>1, MakeRoomRedelivers
  <2>3. w \in Seq(D)
    BY <2>2 DEF StaysSmall
  <2>4. QueueChunk(v, e) = Append(w, e)
    BY DEF QueueChunk
  <2> HIDE DEF w, D
  <2> QED
    BY <2>3, <2>4, AppendProperties
<1> HIDE DEF D
<1>8. r \in Seq(D)
  <2> DEFINE V == Seq(D)
  <2> HIDE DEF V
  <2>1. f \in V /\ \A v \in V, e \in D : QueueChunk(v, e) \in V
    BY <1>4, <1>7 DEF V
  <2>2. Queueing!Fold(f, c) \in V
    BY <1>6, <2>1, Queueing!FoldPreserves
  <2> QED
    BY <1>5, <2>2 DEF V
<1>9. \A i \in DOMAIN r : r[i] \in D
  BY <1>8
<1>10. \A i \in DOMAIN r : WithinCap(r[i].rects)
  BY <1>9 DEF D, SmallDeltas
<1> QED
  BY <1>10 DEF r

-------------------------------------------------------------------------------
(* The picture the host will have. *)

Images == {i \in [size : Sizes, pixels : PixelMaps] : i.pixels \in Pictures(i.size)}
FrameEvents == {e \in Visuals : e.kind = "FrameBgraBytes" /\ e.pixels \in Pictures(e.size)}
DeltaEvents == {e \in Visuals : e.kind = "FrameBgraRects" /\ e \in DeltasOf(e.size)}
Messages == Controls \cup FrameEvents \cup DeltaEvents

\* An option that is None is nothing else.
LEMMA NoneApart == None \notin Images /\ None \notin Messages
<1>1. None \notin Images
  <2> SUFFICES ASSUME None \in Images PROVE FALSE
    OBVIOUS
  <2> DEFINE size == None.size
             maps == UNION {[area -> Colors] : area \in SUBSET Cells(Screen(size))}
  <2>1. None.size \in Sizes /\ None.pixels \in [Cells(Screen(size)) -> Colors]
    BY DEF Images, Pictures
  <2>2. None.pixels \in maps
    BY <2>1
  <2>3. None = [size |-> None.size, pixels |-> None.pixels]
    BY DEF Images
  <2>4. None \in [size : {size}, pixels : maps]
    BY <2>2, <2>3
  <2> QED
    BY <2>1, <2>4, NoneIsNoPicture
<1>2. None \notin FrameEvents
  <2> SUFFICES ASSUME None \in FrameEvents PROVE FALSE
    OBVIOUS
  <2> DEFINE size == None.size
             maps == UNION {[area -> Colors] : area \in SUBSET Cells(Screen(size))}
  <2>0. None \in [kind : {"FrameBgraBytes"}, size : Sizes, pixels : PixelMaps]
    BY DEF FrameEvents, Visuals
  <2>1. None.size \in Sizes /\ None.pixels \in [Cells(Screen(size)) -> Colors]
    BY <2>0 DEF FrameEvents, Pictures
  <2>2. None.pixels \in maps
    BY <2>1
  <2>3. None = [kind |-> "FrameBgraBytes", size |-> None.size, pixels |-> None.pixels]
    BY <2>0
  <2>4. None \in [kind : {"FrameBgraBytes"}, size : {size}, pixels : maps]
    BY <2>2, <2>3
  <2> QED
    BY <2>1, <2>4, NoneIsNoPicture
<1>3. None \notin DeltaEvents
  <2> SUFFICES ASSUME None \in DeltaEvents PROVE FALSE
    OBVIOUS
  <2> DEFINE size == None.size
             maps == UNION {[area -> Colors] : area \in SUBSET Cells(Screen(size))}
             entries == [rect : [x : Int, y : Int, width : Int, height : Int], pixels : maps]
  <2>0. None \in [kind : {"FrameBgraRects"}, size : {size}, rects : Seq(EntriesOf(size))]
    BY DEF DeltaEvents, DeltasOf
  <2>1. None.size \in Sizes
    BY DEF DeltaEvents, Visuals
  <2>2. ASSUME NEW e \in EntriesOf(size) PROVE e \in entries
    <3>1. /\ e \in [rect : Rects, pixels : PixelMaps] /\ e.pixels \in [Cells(e.rect) -> Colors]
          /\ Cells(e.rect) \in SUBSET Cells(Screen(size))
      BY DEF EntriesOf
    <3>2. e.pixels \in maps
      BY <3>1
    <3>3. e.rect \in [x : Int, y : Int, width : Int, height : Int]
      BY <3>1 DEF Rects
    <3> HIDE DEF maps
    <3> QED
      BY <3>1, <3>2, <3>3
  <2>3. Seq(EntriesOf(size)) \subseteq Seq(entries)
    <3> HIDE DEF entries
    <3>1. EntriesOf(size) \subseteq entries
      BY <2>2
    <3> QED
      BY <3>1, SeqWidens
  <2> HIDE DEF entries
  <2>4. None \in [kind : {"FrameBgraRects"}, size : {size}, rects : Seq(entries)]
    BY <2>0, <2>3
  <2> QED
    BY <2>1, <2>4, NoneIsNoPicture DEF entries
<1> QED
  BY <1>1, <1>2, <1>3, NoneIsNoEvent DEF Messages

\* What the events are.
LEMMA MessageKinds ==
    /\ \A e \in FrameEvents : /\ e.kind = "FrameBgraBytes" /\ e.size \in Sizes
                              /\ e.pixels \in Pictures(e.size) /\ e \notin Controls /\ e \notin DeltaEvents
                              /\ e \notin Barriers
    /\ \A e \in DeltaEvents : /\ e.kind = "FrameBgraRects" /\ e.size \in Sizes
                              /\ e \in DeltasOf(e.size) /\ e \notin Controls /\ e \notin FrameEvents
                              /\ e \notin Barriers
    /\ \A e \in Controls : /\ e.kind # "FrameBgraBytes" /\ e.kind # "FrameBgraRects"
                           /\ e \notin FrameEvents /\ e \notin DeltaEvents
<1>1. ASSUME NEW e \in FrameEvents
      PROVE  /\ e.kind = "FrameBgraBytes" /\ e.size \in Sizes /\ e.pixels \in Pictures(e.size)
             /\ e \notin DeltaEvents
  BY DEF FrameEvents, DeltaEvents, Visuals
<1>2. ASSUME NEW e \in DeltaEvents
      PROVE  /\ e.kind = "FrameBgraRects" /\ e.size \in Sizes /\ e \in DeltasOf(e.size)
             /\ e \notin FrameEvents
  BY DEF FrameEvents, DeltaEvents, Visuals
<1>3. \A e \in FrameEvents \cup DeltaEvents : e \notin Controls /\ e \notin Barriers
  BY VisualKinds DEF FrameEvents, DeltaEvents
<1>4. \A e \in Controls : e.kind # "FrameBgraBytes" /\ e.kind # "FrameBgraRects"
  BY VisualsApart
<1> QED
  BY <1>1, <1>2, <1>3, <1>4

\* A delta for a desktop, and what it is made of.
LEMMA DeltaIsEvent ==
    ASSUME NEW size \in Sizes, NEW d \in DeltasOf(size)
    PROVE  d \in DeltaEvents
<1>1. d.rects \in Seq([rect : Rects, pixels : PixelMaps])
  <2>1. d.rects \in Seq(EntriesOf(size))
    BY DEF DeltasOf
  <2> QED
    BY <2>1, PayloadTyped DEF AnyEntries
<1>2. d = [kind |-> "FrameBgraRects", size |-> size, rects |-> d.rects]
  BY DEF DeltasOf
<1>3. d \in Visuals
  BY <1>1, <1>2 DEF Visuals
<1> QED
  BY <1>2, <1>3 DEF DeltaEvents

\* A frame for a desktop.
LEMMA FrameIsEvent ==
    ASSUME NEW size \in Sizes, NEW picture \in Pictures(size)
    PROVE  /\ Frame(size, picture) \in FrameEvents
           /\ picture \in PixelMaps
           /\ [size |-> size, pixels |-> picture] \in Images
<1>1. Screen(size) \in Rects
  BY SizesAreExtents DEF Screen, HelperFrameRect, Rects
<1>2. picture \in PixelMaps
  BY <1>1 DEF Pictures, PixelMaps
<1>3. Frame(size, picture) \in Visuals
  BY <1>2, FrameTyped
<1> QED
  BY <1>2, <1>3 DEF Frame, FrameEvents, Images

\* An image as the two fields it has.
LEMMA ImageFields ==
    ASSUME NEW i \in Images
    PROVE  /\ i = [size |-> i.size, pixels |-> i.pixels] /\ i.size \in Sizes
           /\ i.pixels \in Pictures(i.size) /\ i.pixels \in PixelMaps
  BY DEF Images

\* What one event makes of the picture.
LEMMA ShownBy ==
    ASSUME NEW i \in Images \cup {None}, NEW e \in Messages
    PROVE  /\ Shown(i, e) \in Images \cup {None}
           /\ e \in Controls => Shown(i, e) = i
           /\ e \in FrameEvents => Shown(i, e) = [size |-> e.size, pixels |-> e.pixels]
           /\ e \in DeltaEvents /\ i # None /\ i.size = e.size
                => Shown(i, e) = [size |-> i.size, pixels |-> Paint(i.pixels, e.rects)]
           /\ e \in DeltaEvents /\ (i = None \/ i.size # e.size) => Shown(i, e) = i
<1>1. CASE e \in Controls
  <2>1. Shown(i, e) = i
    BY <1>1, MessageKinds DEF Shown
  <2> QED
    BY <1>1, <2>1, MessageKinds
<1>2. CASE e \in FrameEvents
  <2>1. Shown(i, e) = [size |-> e.size, pixels |-> e.pixels]
    BY <1>2, MessageKinds DEF Shown
  <2>2. [size |-> e.size, pixels |-> e.pixels] \in Images
    BY <1>2, MessageKinds, FrameIsEvent
  <2> QED
    BY <1>2, <2>1, <2>2, MessageKinds
<1>3. CASE e \in DeltaEvents
  <2>1. e.kind = "FrameBgraRects" /\ e.kind # "FrameBgraBytes" /\ e.size \in Sizes /\ e \in DeltasOf(e.size)
        /\ e \notin Controls /\ e \notin FrameEvents
    BY <1>3, MessageKinds
  <2>2. CASE i = None \/ i.size # e.size
    <3>1. Shown(i, e) = i
      BY <2>1, <2>2 DEF Shown
    <3> QED
      BY <2>1, <2>2, <3>1
  <2>3. CASE i # None /\ i.size = e.size
    <3>1. i \in Images
      BY <2>3
    <3>2. i = [size |-> i.size, pixels |-> i.pixels] /\ i.pixels \in Pictures(i.size)
      BY <3>1, ImageFields
    <3>3. Shown(i, e) = [i EXCEPT !.pixels = Paint(i.pixels, e.rects)]
      BY <2>1, <2>3 DEF Shown
    <3>4. [i EXCEPT !.pixels = Paint(i.pixels, e.rects)] = [size |-> i.size, pixels |-> Paint(i.pixels, e.rects)]
      BY <3>2
    <3>5. e.rects \in Seq(EntriesOf(i.size))
      BY <2>1, <2>3, DeltaFields
    <3>6. Paint(i.pixels, e.rects) \in Pictures(i.size)
      BY <3>2, <3>5, PaintTyped
    <3>7. [size |-> i.size, pixels |-> Paint(i.pixels, e.rects)] \in Images
      BY <2>1, <2>3, <3>6, FrameIsEvent
    <3> QED
      BY <2>1, <2>3, <3>3, <3>4, <3>7
  <2> QED
    BY <2>2, <2>3
<1> QED
  BY <1>1, <1>2, <1>3 DEF Messages

-------------------------------------------------------------------------------
(* The picture after a list of events. *)

Watch == INSTANCE FoldProofs WITH Step <- Shown

\* It is the loop of PictureIsComplete.
LEMMA WatchIsLoop ==
    ASSUME NEW i, NEW s
    PROVE  Watch!Fold(i, s) = FoldLeft(Shown, i, s)
  BY DEF Watch!Fold, FoldLeft, MapThenFoldSet, Watch!MapThenFoldSet, Max, Watch!Highest

\* Events lead from a picture to a picture.
LEMMA WatchTyped ==
    ASSUME NEW T, NEW s \in Seq(T), T \subseteq Messages, NEW i \in Images \cup {None}
    PROVE  Watch!Fold(i, s) \in Images \cup {None}
<1> DEFINE V == Images \cup {None}
<1>1. \A v \in V, e \in T : Shown(v, e) \in V
  BY ShownBy
<1> HIDE DEF V
<1>2. i \in V
  BY DEF V
<1>3. Watch!Fold(i, s) \in V
  BY <1>1, <1>2, Watch!FoldPreserves
<1> QED
  BY <1>3 DEF V

\* Controls leave the picture as it is.
LEMMA WatchControls ==
    ASSUME NEW T, NEW s \in Seq(T), T \subseteq Controls, NEW i \in Images \cup {None}
    PROVE  Watch!Fold(i, s) = i
<1>1. \A v \in {i}, e \in T : Shown(v, e) \in {i}
  BY ShownBy DEF Messages
<1>2. Watch!Fold(i, s) \in {i}
  BY <1>1, Watch!FoldPreserves
<1> QED
  BY <1>2

\* A queue of deltas on a picture of another desktop, or on none.
LEMMA WatchOther ==
    ASSUME NEW size \in Sizes, NEW q \in Seq(DeltasOf(size)), NEW i \in Images \cup {None},
           i = None \/ i.size # size
    PROVE  Watch!Fold(i, q) = i
<1> DEFINE T == DeltasOf(size)
<1>1. ASSUME NEW e \in T PROVE Shown(i, e) = i
  <2>1. e \in DeltaEvents /\ e.size = size
    BY DeltaIsEvent, DeltaFields
  <2> QED
    BY <2>1, ShownBy DEF Messages
<1>2. \A v \in {i}, e \in T : Shown(v, e) \in {i}
  BY <1>1
<1> HIDE DEF T
<1>3. q \in Seq(T)
  BY DEF T
<1>4. Watch!Fold(i, q) \in {i}
  BY <1>2, <1>3, Watch!FoldPreserves
<1> QED
  BY <1>4

\* A queue of deltas on a picture of their desktop.
LEMMA WatchQueue ==
    ASSUME NEW size \in Sizes, NEW q \in Seq(DeltasOf(size)), NEW i \in Images, i.size = size
    PROVE  Watch!Fold(i, q) = [size |-> size, pixels |-> Onto(i.pixels, q)]
<1> DEFINE D == DeltasOf(size)
           n == Len(q)
           W(k) == Watch!Fold(i, SubSeq(q, 1, k))
           P(k) == Onto(i.pixels, SubSeq(q, 1, k))
           S == {k \in 0 .. n : W(k) = [size |-> size, pixels |-> P(k)]}
<1>1. /\ n \in Nat /\ SubSeq(q, 1, n) = q /\ SubSeq(q, 1, 0) = <<>> /\ 0 \in 0 .. n /\ n \in 0 .. n
      /\ q \in Seq(D)
  <2> HIDE DEF D
  <2>1. q \in Seq(D)
    BY DEF D
  <2> QED
    BY <2>1
<1>2. 0 \in S
  <2>1. W(0) = i /\ P(0) = i.pixels
    BY <1>1, Watch!FoldEmpty, OntoNothing
  <2>2. i = [size |-> size, pixels |-> i.pixels]
    BY ImageFields
  <2> HIDE DEF W, P
  <2> QED
    BY <1>1, <2>1, <2>2
<1>3. ASSUME NEW k \in 0 .. n, k < n, k \in S PROVE k + 1 \in S
  <2> DEFINE u == SubSeq(q, 1, k)
             e == q[k + 1]
  <2>1. u \in Seq(D) /\ e \in D /\ SubSeq(q, 1, k + 1) = Append(u, e)
    <3> HIDE DEF D
    <3> QED
      BY <1>1, <1>3, Watch!PrefixGrows
  <2>2. W(k) = [size |-> size, pixels |-> P(k)]
    BY <1>3
  <2>3. W(k + 1) = Shown(W(k), e)
    <3> HIDE DEF u, e, D
    <3>1. Watch!Fold(i, Append(u, e)) = Shown(Watch!Fold(i, u), e)
      BY <2>1, Watch!FoldAppend
    <3> QED
      BY <2>1, <3>1 DEF u
  <2>4. P(k + 1) = Paint(P(k), e.rects)
    <3> HIDE DEF u, e, D
    <3>1. Onto(i.pixels, Append(u, e)) = Paint(Onto(i.pixels, u), e.rects)
      BY <2>1, OntoAppend
    <3> QED
      BY <2>1, <3>1 DEF u
  <2>5. P(k) \in Pictures(size)
    <3> HIDE DEF u, e
    <3>1. i.pixels \in Pictures(size)
      BY ImageFields
    <3> QED
      BY <2>1, <3>1, OntoTyped DEF u
  <2>6. e \in DeltaEvents /\ e.size = size
    BY <2>1, DeltaIsEvent, DeltaFields
  <2> HIDE DEF W, P, e, u
  <2>7. [size |-> size, pixels |-> P(k)] \in Images
    BY <2>5, FrameIsEvent
  <2>8. W(k) \in Images /\ W(k).size = size /\ W(k).pixels = P(k)
    BY <2>2, <2>7
  <2>9. Shown(W(k), e) = [size |-> size, pixels |-> Paint(P(k), e.rects)]
    BY <2>6, <2>8, ShownBy, NoneApart DEF Messages
  <2>10. W(k + 1) = [size |-> size, pixels |-> P(k + 1)]
    BY <2>3, <2>4, <2>9
  <2>11. k + 1 \in 0 .. n
    BY <1>1, <1>3
  <2> QED
    BY <2>10, <2>11
<1>4. n \in S
  <2>1. \A k \in 0 .. n : k < n /\ k \in S => k + 1 \in S
    BY <1>3
  <2> HIDE DEF S, n
  <2>2. \A k \in 0 .. n : k \in S
    BY <1>1, <1>2, <2>1, Watch!PositionInduction
  <2> QED
    BY <1>1, <2>2
<1>5. W(n) = Watch!Fold(i, q) /\ P(n) = Onto(i.pixels, q)
  BY <1>1
<1> HIDE DEF W, P
<1> QED
  BY <1>4, <1>5

\* The host that reads the queue after queue_delta sees what it would have seen after the
\* queue and the delta.
LEMMA QueueShows ==
    ASSUME NEW size \in Sizes, NEW q \in Seq(DeltasOf(size)), NEW d \in DeltasOf(size),
           NEW i \in Images \cup {None}
    PROVE  /\ queue_delta(q, d) \in Seq(DeltasOf(size))
           /\ Watch!Fold(i, queue_delta(q, d)) = Shown(Watch!Fold(i, q), d)
<1> DEFINE D == DeltasOf(size)
           r == queue_delta(q, d)
           a == Append(q, d)
<1>1. Redelivers(r, a, size)
  BY QueueDeltaRedelivers
<1> HIDE DEF r
<1>2. Watch!Fold(i, a) = Shown(Watch!Fold(i, q), d)
  <2> HIDE DEF D
  <2>1. q \in Seq(D) /\ d \in D
    BY DEF D
  <2> QED
    BY <2>1, Watch!FoldAppend
<1> HIDE DEF a
<1>3. r \in Seq(D) /\ a \in Seq(D)
  BY <1>1 DEF Redelivers
<1>4. Watch!Fold(i, r) = Watch!Fold(i, a)
  <2>1. CASE i = None \/ i.size # size
    BY <1>3, <2>1, WatchOther
  <2>2. CASE i # None /\ i.size = size
    <3>1. i \in Images /\ i.pixels \in Pictures(size)
      BY <2>2, ImageFields
    <3>2. Watch!Fold(i, r) = [size |-> size, pixels |-> Onto(i.pixels, r)]
          /\ Watch!Fold(i, a) = [size |-> size, pixels |-> Onto(i.pixels, a)]
      BY <1>3, <2>2, <3>1, WatchQueue
    <3>3. Onto(i.pixels, r) = Onto(i.pixels, a)
      BY <1>1, <3>1 DEF Redelivers
    <3> QED
      BY <3>2, <3>3
  <2> QED
    BY <2>1, <2>2
<1> QED
  BY <1>2, <1>3, <1>4 DEF r

-------------------------------------------------------------------------------
(* The invariant. *)

\* The host's picture once it has what the writer holds, the frame behind it, the queued
\* deltas, and all that the output task still has to send.
InHandImage == IF hand = None THEN host_image ELSE Shown(host_image, hand)
FrameImage == IF latest_frame = None THEN InHandImage ELSE Shown(InHandImage, latest_frame)
MailImage == Watch!Fold(FrameImage, pending_deltas)
SentImage == Watch!Fold(MailImage, outbox)

\* A frame is among the events.
HasFrame(out) == \E j \in 1 .. Len(out) : out[j] \in FrameEvents

\* The events out of a mapper, for a mailbox with the queue q: a delta is for the desktop of
\* the mapper and no frame comes behind it, and so is the queue unless a frame comes that
\* empties it.
Fits(mapper, out, q) ==
    /\ \A i \in 1 .. Len(out) : out[i] \in DeltaEvents =>
           /\ mapper.connected /\ out[i].size = mapper.base_size
           /\ \A j \in i + 1 .. Len(out) : out[j] \notin FrameEvents
    /\ mapper.connected /\ ~HasFrame(out) => q \in Seq(DeltasOf(mapper.base_size))

PictureTypes ==
    /\ latest_frame \in FrameEvents \cup {None}
    /\ pending_deltas \in Seq(DeltaEvents)
    /\ outbox \in Seq(Messages)
    /\ hand \in Messages \cup {None}
    /\ host_image \in Images \cup {None}
    /\ server_image \in Images \cup {None}
    /\ pending_image \in Images \cup {None}
    /\ output_mapper \in Mappers

\* The server's desktop is the image that waits, or what the host will have when all is
\* sent; it is gone before the end of the session is on its way.
ServerShown ==
    /\ pending_image # None => server_image = pending_image
    /\ receiver_alive /\ server_image # None /\ pending_image = None =>
           /\ output_mapper.connected /\ output_mapper.base_size = server_image.size
           /\ SentImage = server_image
    /\ \A i \in 1 .. Len(outbox) : outbox[i] \in Barriers => server_image = None
    /\ client = "starting" => server_image = None /\ outbox = <<>>

PictureInv ==
    /\ PictureTypes
    /\ receiver_alive => Fits(output_mapper, outbox, pending_deltas)
    /\ ServerShown

\* The pictures on the way are pictures.
LEMMA ImagesTyped ==
    ASSUME PictureTypes
    PROVE  /\ InHandImage \in Images \cup {None} /\ FrameImage \in Images \cup {None}
           /\ MailImage \in Images \cup {None} /\ SentImage \in Images \cup {None}
<1>1. InHandImage \in Images \cup {None}
  BY ShownBy DEF InHandImage, PictureTypes
<1>2. FrameImage \in Images \cup {None}
  <2>1. FrameEvents \subseteq Messages
    BY DEF Messages
  <2> QED
    BY <1>1, <2>1, ShownBy DEF FrameImage, PictureTypes
<1>3. MailImage \in Images \cup {None}
  <2>1. DeltaEvents \subseteq Messages
    BY DEF Messages
  <2> QED
    BY <1>2, <2>1, WatchTyped DEF MailImage, PictureTypes
<1>4. SentImage \in Images \cup {None}
  BY <1>3, WatchTyped DEF SentImage, PictureTypes
<1> QED
  BY <1>1, <1>2, <1>3, <1>4

\* PictureIsComplete, with its loop taken apart at the same places.
LEMMA PictureUnderway ==
    ASSUME PictureInv
    PROVE  PictureIsComplete
<1> DEFINE h == OptionSeq(hand)
           f == OptionSeq(latest_frame)
           u == IF pending_image = None THEN <<>>
                ELSE <<Frame(pending_image.size, pending_image.pixels)>>
           fp == f \o pending_deltas
           hf == h \o fp
           ho == hf \o outbox
           M == Messages
<1>1. pending_deltas \in Seq(M) /\ outbox \in Seq(M)
  <2>1. DeltaEvents \subseteq Messages
    BY DEF Messages
  <2> QED
    BY <2>1, SeqWidens DEF PictureInv, PictureTypes
<1>2. h \in Seq(M) /\ f \in Seq(M) /\ u \in Seq(M)
  <2>0. <<>> \in Seq(M)
    <3> HIDE DEF M
    <3> QED
      BY EmptySeq
  <2>1. hand = None => h \in Seq(M)
    BY <2>0 DEF OptionSeq
  <2>2. hand # None => h \in Seq(M)
    BY DEF OptionSeq, PictureInv, PictureTypes
  <2>3. f \in Seq(M)
    <3>1. latest_frame = None => f = <<>>
      BY DEF OptionSeq
    <3>2. latest_frame # None => f = <<latest_frame>> /\ latest_frame \in M
      BY DEF OptionSeq, PictureInv, PictureTypes, Messages
    <3> HIDE DEF f, M
    <3>3. latest_frame # None => <<latest_frame>> \in Seq(M)
      BY <3>2
    <3> QED
      BY <2>0, <3>1, <3>2, <3>3
  <2>4. u \in Seq(M)
    <3>1. CASE pending_image = None
      BY <3>1, EmptySeq
    <3>2. CASE pending_image # None
      <4>1. pending_image \in Images
        BY <3>2 DEF PictureInv, PictureTypes
      <4>2. Frame(pending_image.size, pending_image.pixels) \in M
        BY <4>1, ImageFields, FrameIsEvent DEF Messages
      <4> QED
        BY <3>2, <4>2
    <3> QED
      BY <3>1, <3>2
  <2> QED
    BY <2>1, <2>2, <2>3, <2>4
<1>3. Watch!Fold(host_image, h) = InHandImage
  <2>1. CASE hand = None
    BY <2>1, Watch!FoldEmpty DEF OptionSeq, InHandImage
  <2>2. CASE hand # None
    BY <2>2, Watch!FoldOne DEF OptionSeq, InHandImage
  <2> QED
    BY <2>1, <2>2
<1>4. Watch!Fold(InHandImage, f) = FrameImage
  <2>1. CASE latest_frame = None
    BY <2>1, Watch!FoldEmpty DEF OptionSeq, FrameImage
  <2>2. CASE latest_frame # None
    BY <2>2, Watch!FoldOne DEF OptionSeq, FrameImage
  <2> QED
    BY <2>1, <2>2
<1> HIDE DEF h, f, u, M
<1>5. fp \in Seq(M) /\ hf \in Seq(M) /\ ho \in Seq(M)
  BY <1>1, <1>2, ConcatProperties
<1>6. Watch!Fold(host_image, hf) = MailImage
  <2>1. Watch!Fold(InHandImage, f \o pending_deltas) = Watch!Fold(Watch!Fold(InHandImage, f), pending_deltas)
    BY <1>1, <1>2, Watch!FoldConcat
  <2>2. Watch!Fold(InHandImage, fp) = MailImage
    BY <1>4, <2>1 DEF MailImage
  <2> HIDE DEF fp
  <2>3. Watch!Fold(host_image, h \o fp) = Watch!Fold(Watch!Fold(host_image, h), fp)
    BY <1>2, <1>5, Watch!FoldConcat
  <2> QED
    BY <1>3, <2>2, <2>3
<1>7. Watch!Fold(host_image, ho) = SentImage
  <2> HIDE DEF hf
  <2>1. Watch!Fold(host_image, hf \o outbox) = Watch!Fold(Watch!Fold(host_image, hf), outbox)
    BY <1>1, <1>5, Watch!FoldConcat
  <2> QED
    BY <1>6, <2>1 DEF SentImage
<1>8. Underway(f \o pending_deltas, u) = ho \o u
  BY DEF Underway, h
<1> HIDE DEF ho
<1>9. Watch!Fold(host_image, ho \o u) = Watch!Fold(SentImage, u)
  <2>1. Watch!Fold(host_image, ho \o u) = Watch!Fold(Watch!Fold(host_image, ho), u)
    BY <1>2, <1>5, Watch!FoldConcat
  <2> QED
    BY <1>7, <2>1
<1>10. ASSUME server_image # None, receiver_alive
       PROVE  Watch!Fold(SentImage, u) = server_image
  <2>1. CASE pending_image = None
    <3>1. u = <<>>
      BY <2>1 DEF u
    <3>2. SentImage = server_image
      BY <1>10, <2>1 DEF PictureInv, ServerShown
    <3> QED
      BY <3>1, <3>2, Watch!FoldEmpty
  <2>2. CASE pending_image # None
    <3> DEFINE frame == Frame(pending_image.size, pending_image.pixels)
    <3>1. u = <<frame>>
      BY <2>2 DEF u
    <3>2. Shown(SentImage, frame) = [size |-> pending_image.size, pixels |-> pending_image.pixels]
      BY DEF Shown, Frame
    <3>3. pending_image \in Images /\ server_image = pending_image
      BY <2>2 DEF PictureInv, PictureTypes, ServerShown
    <3>4. Watch!Fold(SentImage, <<frame>>) = Shown(SentImage, frame)
      BY Watch!FoldOne
    <3>5. pending_image = [size |-> pending_image.size, pixels |-> pending_image.pixels]
      BY <3>3, ImageFields
    <3> HIDE DEF frame
    <3> QED
      BY <3>1, <3>2, <3>3, <3>4, <3>5
  <2> QED
    BY <2>1, <2>2
<1>11. FoldLeft(Shown, host_image, Underway(f \o pending_deltas, u)) = Watch!Fold(SentImage, u)
  BY <1>8, <1>9, WatchIsLoop
<1> HIDE DEF fp, hf
<1> QED
  BY <1>10, <1>11 DEF PictureIsComplete, f, u

\* Nothing is shown and nothing is on its way when the helper starts.
LEMMA PictureInit == Init => PictureInv
<1> SUFFICES ASSUME Init PROVE PictureInv
  OBVIOUS
<1>1. /\ latest_frame = None /\ pending_deltas = <<>> /\ outbox = <<>> /\ hand = None
      /\ host_image = None /\ server_image = None /\ pending_image = None
      /\ output_mapper = NewMapper
  BY DEF Init, output_mailbox
<1>2. PictureTypes
  BY <1>1, EmptySeq, NewMapperTyped DEF PictureTypes
<1>3. Fits(output_mapper, outbox, pending_deltas)
  <2>1. \A i \in 1 .. Len(outbox) : FALSE
    BY <1>1, EmptySeq
  <2>2. ~output_mapper.connected
    BY <1>1, NewMapperTyped
  <2> QED
    BY <2>1, <2>2 DEF Fits
<1>4. ServerShown
  BY <1>1 DEF ServerShown
<1> QED
  BY <1>2, <1>3, <1>4 DEF PictureInv

-------------------------------------------------------------------------------
(* What the mapper makes of the image that waits and of a region. *)

\* Events that end no session and carry no delta.
Plain == (Messages \ DeltaEvents) \ Barriers

\* Plain events fit any mapper that has the queue, or that brings a frame with them.
LEMMA PlainFits ==
    ASSUME NEW mapper, NEW q, NEW out \in Seq(Plain),
           HasFrame(out) \/ (mapper.connected => q \in Seq(DeltasOf(mapper.base_size)))
    PROVE  Fits(mapper, out, q)
<1>1. \A j \in 1 .. Len(out) : out[j] \notin DeltaEvents
  <2> HIDE DEF Plain
  <2>1. \A j \in 1 .. Len(out) : out[j] \in Plain
    BY ElementOfSeq
  <2> QED
    BY <2>1 DEF Plain
<1> QED
  BY <1>1 DEF Fits

\* Connected, the waiting cursor and the base frame: whatever the host had, it has the
\* picture afterwards.
LEMMA BaseFrameShows ==
    ASSUME NEW mapper \in Mappers, NEW size \in Sizes, NEW picture \in Pictures(size),
           NEW i \in Images \cup {None}
    PROVE  /\ MapBaseFrame(mapper, size, picture).out \in Seq(Plain)
           /\ HasFrame(MapBaseFrame(mapper, size, picture).out)
           /\ Watch!Fold(i, MapBaseFrame(mapper, size, picture).out)
                = [size |-> size, pixels |-> picture]
           /\ MapBaseFrame(mapper, size, picture).mapper \in Mappers
           /\ MapBaseFrame(mapper, size, picture).mapper.connected
           /\ MapBaseFrame(mapper, size, picture).mapper.base_size = size
<1> DEFINE next == [connected |-> TRUE, base_size |-> size, pending_cursor |-> NoCursor]
           frame == Frame(size, picture)
           conn == [kind |-> "Connected", size |-> size]
           w == mapper.pending_cursor
           a == OptionSeq(w.appearance)
           p == OptionSeq(w.position)
           start == IF mapper.connected THEN <<>> ELSE <<conn>> \o a \o p
           C == Controls \ Barriers
           out == Append(start, frame)
           S == Plain
<1>1. next \in Mappers
  BY NewMapperTyped DEF Mappers
<1>2. /\ MapBaseFrame(mapper, size, picture).mapper = next
      /\ MapBaseFrame(mapper, size, picture).out = out
  BY DEF MapBaseFrame, Mapped
<1>3. frame \in FrameEvents
  BY FrameIsEvent
<1>4. frame \in Plain /\ frame \in Messages
  BY <1>3, MessageKinds DEF Plain, Messages
<1>5. conn \in C
  <2>1. conn \in Connecteds
    BY DEF Connecteds
  <2> QED
    BY <2>1, KindsApart DEF Controls
<1>6. w \in Cursors
  BY DEF Mappers
<1>7. a \in Seq(C) /\ p \in Seq(C)
  <2>1. w.appearance \in CursorEvents \cup {None} /\ w.position \in CursorEvents \cup {None}
    BY <1>6 DEF Cursors, CursorEvents
  <2>2. CursorEvents \subseteq C
    BY KindsApart DEF Controls
  <2>3. <<>> \in Seq(C)
    <3> HIDE DEF C
    <3> QED
      BY EmptySeq
  <2> HIDE DEF C
  <2>4. ASSUME NEW e \in CursorEvents \cup {None} PROVE OptionSeq(e) \in Seq(C)
    BY <2>2, <2>3 DEF OptionSeq
  <2> QED
    BY <2>1, <2>4
<1>8. start \in Seq(C)
  <2> HIDE DEF C, a, p, conn
  <2>1. <<>> \in Seq(C) /\ <<conn>> \in Seq(C)
    BY <1>5, EmptySeq
  <2>2. <<conn>> \o a \in Seq(C)
    BY <1>7, <2>1, ConcatProperties
  <2>3. <<conn>> \o a \o p \in Seq(C)
    BY <1>7, <2>2, ConcatProperties
  <2> QED
    BY <2>1, <2>3
<1>9. C \subseteq Plain
  BY MessageKinds DEF Plain, Messages
<1> HIDE DEF start, frame, C, S, next
<1>10. start \in Seq(S)
  BY <1>8, <1>9, SeqWidens DEF S
<1>11. out \in Seq(S)
  BY <1>4, <1>10, AppendProperties DEF S
<1>12. HasFrame(out)
  <2>1. Len(out) = Len(start) + 1 /\ Len(out) \in 1 .. Len(out) /\ out[Len(out)] = frame
    BY <1>4, <1>10 DEF S
  <2> HIDE DEF out
  <2> QED
    BY <1>3, <2>1 DEF HasFrame
<1>13. Watch!Fold(i, out) = [size |-> size, pixels |-> picture]
  <2>1. Watch!Fold(i, out) = Shown(Watch!Fold(i, start), frame)
    BY <1>4, <1>10, Watch!FoldAppend DEF S
  <2>2. \A v : Shown(v, frame) = [size |-> size, pixels |-> picture]
    BY DEF Shown, frame, Frame
  <2> QED
    BY <2>1, <2>2
<1> HIDE DEF out
<1> QED
  BY <1>1, <1>2, <1>11, <1>12, <1>13 DEF S, next

\* What the flush of the waiting image adds: plain events, after which the host has the
\* server's desktop.
LEMMA FlushShows ==
    ASSUME PictureInv, outbox = <<>>
    PROVE  /\ Flushed.out \in Seq(Plain) /\ Flushed.mapper \in Mappers
           /\ receiver_alive => Fits(Flushed.mapper, Flushed.out, pending_deltas)
           /\ receiver_alive /\ server_image # None =>
                 /\ Flushed.mapper.connected /\ Flushed.mapper.base_size = server_image.size
                 /\ Watch!Fold(MailImage, Flushed.out) = server_image
           /\ server_image = None => Flushed.mapper = output_mapper /\ Flushed.out = <<>>
<1>1. CASE pending_image = None
  <2>1. Flushed.mapper = output_mapper /\ Flushed.out = outbox
    BY <1>1 DEF Flushed, Mapped
  <2>2. outbox \in Seq(Plain)
    <3> HIDE DEF Plain
    <3> QED
      BY EmptySeq
  <2>3. Watch!Fold(MailImage, Flushed.out) = SentImage
    BY <2>1 DEF SentImage
  <2> QED
    BY <1>1, <2>1, <2>2, <2>3 DEF PictureInv, PictureTypes, ServerShown
<1>2. CASE pending_image # None
  <2> DEFINE size == pending_image.size
             picture == pending_image.pixels
  <2>1. pending_image \in Images /\ server_image = pending_image /\ output_mapper \in Mappers
    BY <1>2 DEF PictureInv, PictureTypes, ServerShown
  <2>2. /\ size \in Sizes /\ picture \in Pictures(size)
        /\ pending_image = [size |-> size, pixels |-> picture]
    BY <2>1, ImageFields
  <2>3. Flushed = MapBaseFrame(output_mapper, size, picture)
    BY <1>2 DEF Flushed
  <2>4. MailImage \in Images \cup {None}
    BY ImagesTyped DEF PictureInv
  <2> HIDE DEF size, picture
  <2>b. /\ MapBaseFrame(output_mapper, size, picture).out \in Seq(Plain)
        /\ HasFrame(MapBaseFrame(output_mapper, size, picture).out)
        /\ Watch!Fold(MailImage, MapBaseFrame(output_mapper, size, picture).out)
             = [size |-> size, pixels |-> picture]
        /\ MapBaseFrame(output_mapper, size, picture).mapper \in Mappers
        /\ MapBaseFrame(output_mapper, size, picture).mapper.connected
        /\ MapBaseFrame(output_mapper, size, picture).mapper.base_size = size
    <3> HIDE DEF MailImage
    <3> QED
      BY <2>1, <2>2, <2>4, BaseFrameShows
  <2>5. /\ Flushed.out \in Seq(Plain) /\ HasFrame(Flushed.out) /\ Flushed.mapper \in Mappers
        /\ Watch!Fold(MailImage, Flushed.out) = pending_image
        /\ Flushed.mapper.connected /\ Flushed.mapper.base_size = size
    BY <2>2, <2>3, <2>b
  <2>6. Fits(Flushed.mapper, Flushed.out, pending_deltas)
    <3> HIDE DEF Flushed
    <3> QED
      BY <2>5, PlainFits
  <2>7. server_image.size = size /\ server_image # None
    BY <1>2, <2>1 DEF size
  <2> QED
    BY <2>1, <2>5, <2>6, <2>7
<1> QED
  BY <1>1, <1>2

\* What the output task may leave behind: a mapper, events to send and a desktop of the
\* server that the host has once it has read them.
Told(mapper, out, image) ==
    /\ mapper \in Mappers /\ out \in Seq(Messages) /\ image \in Images \cup {None}
    /\ \A j \in 1 .. Len(out) : out[j] \in Barriers => image = None
    /\ receiver_alive => Fits(mapper, out, pending_deltas)
    /\ receiver_alive /\ image # None =>
          /\ mapper.connected /\ mapper.base_size = image.size
          /\ Watch!Fold(MailImage, out) = image

\* Plain events are messages and no barriers.
LEMMA PlainEvents ==
    ASSUME NEW out \in Seq(Plain)
    PROVE  out \in Seq(Messages) /\ \A j \in 1 .. Len(out) : out[j] \notin Barriers
<1>1. Plain \subseteq Messages /\ \A e \in Plain : e \notin Barriers
  BY DEF Plain
<1> HIDE DEF Plain
<1>2. out \in Seq(Messages)
  BY <1>1, SeqWidens
<1>3. \A j \in 1 .. Len(out) : out[j] \in Plain
  BY ElementOfSeq
<1> QED
  BY <1>1, <1>2, <1>3

\* A flush leaves the server's desktop.
LEMMA FlushTells ==
    ASSUME PictureInv, outbox = <<>>
    PROVE  Told(Flushed.mapper, Flushed.out, server_image)
<1> HIDE DEF Flushed
<1>1. Flushed.out \in Seq(Messages) /\ \A j \in 1 .. Len(Flushed.out) : Flushed.out[j] \notin Barriers
  BY FlushShows, PlainEvents
<1>2. server_image \in Images \cup {None}
  BY DEF PictureInv, PictureTypes
<1> QED
  BY <1>1, <1>2, FlushShows DEF Told

\* A step of the output task that keeps to it.
LEMMA PictureMapped ==
    ASSUME PictureInv, Told(output_mapper', outbox', server_image'), pending_image' = None,
           UNCHANGED <<latest_frame, pending_deltas, hand, host_image, receiver_alive>>,
           client' = "starting" => server_image' = None /\ outbox' = <<>>
    PROVE  PictureInv'
<1>1. InHandImage' = InHandImage
  BY DEF InHandImage
<1>2. FrameImage' = FrameImage
  BY <1>1 DEF FrameImage
<1>3. MailImage' = MailImage
  BY <1>2 DEF MailImage
<1>4. SentImage' = Watch!Fold(MailImage, outbox')
  BY <1>3 DEF SentImage
<1>5. PictureTypes'
  BY DEF PictureInv, PictureTypes, Told
<1>6. receiver_alive' => Fits(output_mapper, outbox, pending_deltas)'
  BY DEF Told, Fits, HasFrame
<1> HIDE DEF SentImage, MailImage
<1>7. ServerShown'
  BY <1>4 DEF ServerShown, Told
<1> QED
  BY <1>5, <1>6, <1>7 DEF PictureInv

\* A flush and nothing else.
LEMMA PictureFlushOnly ==
    ASSUME PictureInv, outbox = <<>>, FlushAndPublish(Mapped(Flushed.mapper, <<>>)),
           UNCHANGED <<latest_frame, pending_deltas, hand, host_image, receiver_alive>>,
           UNCHANGED <<server_image, client>>
    PROVE  PictureInv'
<1>1. output_mapper' = Flushed.mapper /\ outbox' = Flushed.out \o <<>> /\ pending_image' = None
  BY DEF FlushAndPublish, Mapped, ClearSchedule
<1> HIDE DEF Flushed
<1>2. Flushed.out \in Seq(Messages)
  BY FlushTells DEF Told
<1>3. outbox' = Flushed.out
  BY <1>1, <1>2
<1>4. Told(output_mapper', outbox', server_image')
  BY <1>1, <1>3, FlushTells
<1>5. client' = "starting" => server_image' = None /\ outbox' = <<>>
  BY <1>3, FlushShows DEF PictureInv, ServerShown
<1> QED
  BY <1>1, <1>4, <1>5, PictureMapped

\* An entry behind plain events.
LEMMA DeltaBehindFits ==
    ASSUME NEW mapper, NEW q, NEW out \in Seq(Plain), Fits(mapper, out, q), mapper.connected,
           NEW d \in DeltaEvents, d.size = mapper.base_size
    PROVE  Fits(mapper, out \o <<d>>, q)
<1> DEFINE all == out \o <<d>>
<1>1. /\ Len(out) \in Nat /\ Len(all) = Len(out) + 1 /\ all[Len(out) + 1] = d
      /\ \A j \in 1 .. Len(out) : all[j] = out[j] /\ j \in 1 .. Len(all)
  <2> HIDE DEF Plain
  <2> QED
    OBVIOUS
<1>2. \A j \in 1 .. Len(out) : out[j] \notin DeltaEvents
  <2> HIDE DEF Plain
  <2>1. \A j \in 1 .. Len(out) : out[j] \in Plain
    BY ElementOfSeq
  <2> QED
    BY <2>1 DEF Plain
<1> HIDE DEF all
<1>3. ASSUME NEW i \in 1 .. Len(all), all[i] \in DeltaEvents
      PROVE  /\ mapper.connected /\ all[i].size = mapper.base_size
             /\ \A j \in i + 1 .. Len(all) : all[j] \notin FrameEvents
  <2>1. i = Len(out) + 1
    BY <1>1, <1>2, <1>3
  <2>2. \A j \in i + 1 .. Len(all) : FALSE
    BY <1>1, <2>1
  <2> QED
    BY <1>1, <2>1, <2>2
<1>4. HasFrame(out) => HasFrame(all)
  BY <1>1 DEF HasFrame
<1> QED
  BY <1>3, <1>4 DEF Fits, all

-------------------------------------------------------------------------------
(* The steps that change the picture on its way. *)

\* A dirty region is an entry of its desktop.
LEMMA RegionIsEntry ==
    ASSUME NEW size \in Sizes, NEW color \in Colors, NEW region \in RegionEvents(size)
    PROVE  [rect |-> region, pixels |-> [c \in Cells(region) |-> color]] \in EntriesOf(size)
<1>1. size[1] \in Nat /\ size[2] \in Nat
  BY SizesAreExtents
<1>2. /\ region \in Rects /\ region.x \in Nat /\ region.y \in Nat
      /\ region.width \in Nat /\ region.height \in Nat /\ region.width # 0 /\ region.height # 0
      /\ region.x + region.width <= size[1] /\ region.y + region.height <= size[2]
  BY <1>1 DEF RegionEvents, Rects
<1>3. Cells(region) \subseteq Cells(Screen(size))
  BY <1>1, <1>2 DEF Cells, Screen, HelperFrameRect
<1>4. [c \in Cells(region) |-> color] \in PixelMaps
  BY <1>2, PlainPicture
<1> QED
  BY <1>2, <1>3, <1>4 DEF EntriesOf

\* What a region makes of the server's desktop.
LEMMA DrawnTyped ==
    ASSUME server_image \in Images \cup {None}, NEW size \in Sizes, NEW entry \in EntriesOf(size)
    PROVE  /\ Drawn(size, entry) \in Images \cup {None}
           /\ entry.rect = Screen(size) =>
                 /\ entry.pixels \in Pictures(size)
                 /\ Drawn(size, entry) = [size |-> size, pixels |-> entry.pixels]
           /\ entry.rect # Screen(size) /\ server_image # None /\ server_image.size = size
                => Drawn(size, entry) = [size |-> size, pixels |-> Paint(server_image.pixels, <<entry>>)]
           /\ entry.rect # Screen(size) /\ (server_image = None \/ server_image.size # size)
                => Drawn(size, entry) = server_image
<1>1. CASE entry.rect = Screen(size)
  <2>1. entry.pixels \in Pictures(size)
    BY <1>1 DEF EntriesOf, Pictures
  <2>2. Drawn(size, entry) = [size |-> size, pixels |-> entry.pixels]
    BY <1>1 DEF Drawn
  <2> QED
    BY <1>1, <2>1, <2>2, FrameIsEvent
<1>2. CASE entry.rect # Screen(size) /\ (server_image = None \/ server_image.size # size)
  <2>1. Drawn(size, entry) = server_image
    BY <1>2 DEF Drawn
  <2> QED
    BY <1>2, <2>1
<1>3. CASE entry.rect # Screen(size) /\ server_image # None /\ server_image.size = size
  <2>1. Drawn(size, entry) = [size |-> size, pixels |-> Paint(server_image.pixels, <<entry>>)]
    BY <1>3, PaintSingle DEF Drawn
  <2>2. server_image \in Images /\ server_image.pixels \in Pictures(size)
    BY <1>3, ImageFields
  <2>3. <<entry>> \in Seq(EntriesOf(size))
    OBVIOUS
  <2>4. Paint(server_image.pixels, <<entry>>) \in Pictures(size)
    BY <2>2, <2>3, PaintTyped
  <2> QED
    BY <1>3, <2>1, <2>4, FrameIsEvent
<1> QED
  BY <1>1, <1>2, <1>3

\* A region of the whole desktop: a base frame behind the flush.
LEMMA FullRegionTells ==
    ASSUME PictureInv, outbox = <<>>, NEW size \in Sizes, NEW entry \in EntriesOf(size),
           entry.rect = Screen(size)
    PROVE  Told(MapRegion(Flushed.mapper, size, entry).mapper,
                Flushed.out \o MapRegion(Flushed.mapper, size, entry).out,
                Drawn(size, entry))
<1> DEFINE m == MapRegion(Flushed.mapper, size, entry)
           F == Flushed
           before == Watch!Fold(MailImage, F.out)
           P == Plain
<1>1. F.out \in Seq(P) /\ F.mapper \in Mappers
  BY FlushShows
<1>2. server_image \in Images \cup {None} /\ MailImage \in Images \cup {None}
  BY ImagesTyped DEF PictureInv, PictureTypes
<1>3. /\ entry.pixels \in Pictures(size)
      /\ Drawn(size, entry) = [size |-> size, pixels |-> entry.pixels]
      /\ Drawn(size, entry) \in Images \cup {None}
  BY <1>2, DrawnTyped
<1>4. m = MapBaseFrame(F.mapper, size, entry.pixels)
  BY DEF MapRegion
<1> HIDE DEF F, m, P, MailImage
<1>5. before \in Images \cup {None}
  <2>1. P \subseteq Messages
    BY DEF P, Plain
  <2> QED
    BY <1>1, <1>2, <2>1, WatchTyped
<1> HIDE DEF before
<1>6. /\ m.out \in Seq(P) /\ HasFrame(m.out) /\ m.mapper \in Mappers
      /\ Watch!Fold(before, m.out) = [size |-> size, pixels |-> entry.pixels]
      /\ m.mapper.connected /\ m.mapper.base_size = size
  BY <1>1, <1>3, <1>4, <1>5, BaseFrameShows DEF P
<1> DEFINE o == m.out
           f == F.out
           all == f \o o
<1>7. o \in Seq(P) /\ f \in Seq(P) /\ HasFrame(o)
  BY <1>1, <1>6
<1> HIDE DEF o, f
<1>8. Watch!Fold(MailImage, all) = Watch!Fold(Watch!Fold(MailImage, f), o)
  BY <1>7, Watch!FoldConcat
<1>9. all \in Seq(P)
  BY <1>7, ConcatProperties
<1>10. HasFrame(all)
  <2>1. PICK j \in 1 .. Len(o) : o[j] \in FrameEvents
    BY <1>7 DEF HasFrame
  <2>2. Len(f) + j \in 1 .. Len(all) /\ all[Len(f) + j] = o[j]
    BY <1>7
  <2> HIDE DEF all
  <2> QED
    BY <2>1, <2>2 DEF HasFrame
<1> HIDE DEF all
<1>11. Fits(m.mapper, all, pending_deltas)
  BY <1>9, <1>10, PlainFits DEF P
<1>12. all \in Seq(Messages) /\ \A j \in 1 .. Len(all) : all[j] \notin Barriers
  BY <1>9, PlainEvents DEF P
<1>13. Watch!Fold(MailImage, all) = Drawn(size, entry)
  BY <1>3, <1>6, <1>8 DEF o, f, before
<1>14. Drawn(size, entry).size = size
  BY <1>3
<1> HIDE DEF Drawn
<1>15. Told(m.mapper, all, Drawn(size, entry))
  BY <1>3, <1>6, <1>11, <1>12, <1>13, <1>14 DEF Told
<1> QED
  BY <1>15 DEF all, o, f, m, F

\* A region that the mapper drops, or that it passes on as a delta.
LEMMA PartRegionTells ==
    ASSUME PictureInv, outbox = <<>>, NEW size \in Sizes, NEW entry \in EntriesOf(size),
           entry.rect # Screen(size)
    PROVE  Told(MapRegion(Flushed.mapper, size, entry).mapper,
                Flushed.out \o MapRegion(Flushed.mapper, size, entry).out,
                Drawn(size, entry))
<1> DEFINE m == MapRegion(Flushed.mapper, size, entry)
           F == Flushed
           f == F.out
           d == Delta(size, <<entry>>)
           P == Plain
<1>1. f \in Seq(P) /\ F.mapper \in Mappers
  BY FlushShows
<1>2. server_image \in Images \cup {None} /\ MailImage \in Images \cup {None}
  BY ImagesTyped DEF PictureInv, PictureTypes
<1>3. Told(F.mapper, f, server_image)
  BY FlushTells
<1>4. Drawn(size, entry) \in Images \cup {None}
  BY <1>2, DrawnTyped
<1>5. f \in Seq(Messages) /\ \A j \in 1 .. Len(f) : f[j] \notin Barriers
  BY <1>1, PlainEvents
<1>6. CASE ~F.mapper.connected \/ F.mapper.base_size # size
  <2>1. m.mapper = F.mapper /\ m.out = <<>>
    BY <1>6 DEF MapRegion, Mapped
  <2> HIDE DEF F, m, f, P, Drawn, MailImage
  <2>2. f \o m.out = f
    BY <1>5, <2>1
  <2>3. receiver_alive => Drawn(size, entry) = server_image
    <3> SUFFICES ASSUME receiver_alive PROVE Drawn(size, entry) = server_image
      OBVIOUS
    <3>1. server_image = None \/ server_image.size # size
      BY <1>3, <1>6 DEF Told
    <3> QED
      BY <1>2, <3>1, DrawnTyped
  <2>4. Told(F.mapper, f, Drawn(size, entry))
    BY <1>3, <1>4, <1>5, <2>3 DEF Told
  <2> QED
    BY <2>1, <2>2, <2>4 DEF F, m, f
<1>7. CASE F.mapper.connected /\ F.mapper.base_size = size
  <2>1. m.mapper = F.mapper /\ m.out = <<d>>
    BY <1>7 DEF MapRegion, Mapped
  <2>2. d \in DeltaEvents /\ d.size = size /\ d.rects = <<entry>>
    <3>1. <<entry>> \in Seq(EntriesOf(size))
      OBVIOUS
    <3>2. d \in DeltasOf(size)
      BY <3>1 DEF DeltasOf, Delta
    <3> QED
      BY <3>2, DeltaIsEvent DEF Delta
  <2> HIDE DEF F, m, f, P, d, Drawn, MailImage
  <2> DEFINE all == f \o <<d>>
             M == Messages
             s == <<d>>
  <2>3. d \in M /\ d \notin Barriers
    BY <2>2, MessageKinds DEF Messages
  <2>4. s \in Seq(M) /\ f \in Seq(M)
    BY <1>5, <2>3
  <2> HIDE DEF M
  <2>5. /\ all \in Seq(M) /\ Len(all) = Len(f) + 1 /\ Len(f) \in Nat
        /\ \A j \in 1 .. Len(f) : all[j] = f[j]
        /\ all[Len(f) + 1] = d
    BY <2>3, <2>4
  <2>6. \A j \in 1 .. Len(all) : all[j] \notin Barriers
    BY <1>5, <2>3, <2>5
  <2>7. receiver_alive => Fits(F.mapper, all, pending_deltas)
    BY <1>1, <1>3, <1>7, <2>2, DeltaBehindFits DEF Told, P
  <2>8. Watch!Fold(MailImage, all) = Shown(Watch!Fold(MailImage, f), d)
    <3> HIDE DEF s
    <3>1. Watch!Fold(MailImage, f \o s) = Watch!Fold(Watch!Fold(MailImage, f), s)
      BY <2>4, Watch!FoldConcat
    <3>2. \A v : Watch!Fold(v, <<d>>) = Shown(v, d)
      BY Watch!FoldOne
    <3> QED
      BY <3>1, <3>2 DEF s
  <2> HIDE DEF all
  <2>9. ASSUME receiver_alive, Drawn(size, entry) # None
        PROVE  Drawn(size, entry).size = size /\ Watch!Fold(MailImage, all) = Drawn(size, entry)
    <3>1. server_image # None
      BY <1>2, <2>9, DrawnTyped
    <3>2. server_image \in Images /\ server_image.size = size /\ Watch!Fold(MailImage, f) = server_image
      BY <1>2, <1>3, <1>7, <2>9, <3>1 DEF Told
    <3>3. Drawn(size, entry) = [size |-> size, pixels |-> Paint(server_image.pixels, <<entry>>)]
      BY <1>2, <3>1, <3>2, DrawnTyped
    <3>4. Shown(server_image, d) = [size |-> server_image.size, pixels |-> Paint(server_image.pixels, d.rects)]
      BY <2>2, <3>1, <3>2, ShownBy DEF Messages
    <3>5. Shown(server_image, d) = Drawn(size, entry)
      BY <2>2, <3>2, <3>3, <3>4
    <3> QED
      BY <2>8, <3>2, <3>3, <3>5
  <2>10. Told(F.mapper, all, Drawn(size, entry))
    BY <1>1, <1>4, <1>7, <2>5, <2>6, <2>7, <2>9 DEF Told, M
  <2> QED
    BY <2>1, <2>10 DEF F, m, f, all
<1> QED
  BY <1>6, <1>7

\* A dirty region.
LEMMA PictureUpdate ==
    ASSUME PictureInv, NEW size \in Sizes, NEW color \in Colors,
           NEW region \in RegionEvents(size), DesktopUpdate(size, region, color)
    PROVE  PictureInv'
<1> DEFINE entry == [rect |-> region, pixels |-> [c \in Cells(region) |-> color]]
           m == MapRegion(Flushed.mapper, size, entry)
<1>1. entry \in EntriesOf(size)
  BY RegionIsEntry
<1>2. /\ outbox = <<>> /\ client' = "running" /\ output_mapper' = m.mapper
      /\ outbox' = Flushed.out \o m.out
      /\ server_image' = Drawn(size, entry) /\ pending_image' = None
      /\ UNCHANGED <<latest_frame, pending_deltas, hand, host_image, receiver_alive>>
  BY DEF DesktopUpdate, Receives, FlushAndPublish, ClearSchedule, mailboxVars, threads, hostVars
<1> HIDE DEF entry
<1>3. Told(m.mapper, Flushed.out \o m.out, Drawn(size, entry))
  BY <1>1, <1>2, FullRegionTells, PartRegionTells
<1> HIDE DEF m, Flushed, Drawn
<1>4. Told(output_mapper', outbox', server_image')
  BY <1>2, <1>3
<1> QED
  BY <1>2, <1>4, PictureMapped

\* The end of a session: the server's desktop is forgotten.
LEMMA PictureSessionEnd ==
    ASSUME PictureInv, NEW event \in Barriers, SessionEnd(event)
    PROVE  PictureInv'
<1> DEFINE M == Messages \ DeltaEvents
           f == Flushed.out
           all == f \o <<event>>
<1>1. /\ outbox = <<>> /\ client' = "running" /\ output_mapper' = NewMapper
      /\ outbox' = all /\ server_image' = None /\ pending_image' = None
      /\ UNCHANGED <<latest_frame, pending_deltas, hand, host_image, receiver_alive>>
  BY DEF SessionEnd, Receives, FlushAndPublish, MapSessionEnd, Mapped, ClearSchedule,
         mailboxVars, threads, hostVars
<1>2. event \in M
  BY MessageKinds DEF Messages, Controls, Barriers
<1>3. f \in Seq(M)
  <2>1. Plain \subseteq M
    BY DEF Plain
  <2> HIDE DEF M, f, Plain
  <2> QED
    BY <1>1, <2>1, FlushShows, SeqWidens DEF f
<1>4. NewMapper \in Mappers /\ ~NewMapper.connected
  BY NewMapperTyped
<1>5. M \subseteq Messages /\ \A e \in M : e \notin DeltaEvents
  OBVIOUS
<1> HIDE DEF M, f
<1>6. all \in Seq(M)
  BY <1>2, <1>3, ConcatProperties
<1> HIDE DEF all
<1>7. all \in Seq(Messages) /\ \A j \in 1 .. Len(all) : all[j] \notin DeltaEvents
  <2>1. all \in Seq(Messages)
    BY <1>5, <1>6, SeqWidens
  <2>2. \A j \in 1 .. Len(all) : all[j] \in M
    BY <1>6, ElementOfSeq
  <2> QED
    BY <1>5, <2>1, <2>2
<1>8. Told(NewMapper, all, None)
  BY <1>4, <1>7 DEF Told, Fits
<1>9. Told(output_mapper', outbox', server_image')
  BY <1>1, <1>8
<1> QED
  BY <1>1, <1>9, PictureMapped

\* A list is its first event and the rest.
LEMMA WatchFirst ==
    ASSUME NEW T, NEW q \in Seq(T), q # <<>>, NEW i
    PROVE  Watch!Fold(i, q) = Watch!Fold(Shown(i, Head(q)), Tail(q))
<1> DEFINE h == <<Head(q)>>
           t == Tail(q)
<1>1. h \in Seq(T) /\ t \in Seq(T) /\ q = h \o t
  OBVIOUS
<1>2. Watch!Fold(i, h) = Shown(i, Head(q))
  BY Watch!FoldOne
<1> HIDE DEF h, t
<1>3. Watch!Fold(i, h \o t) = Watch!Fold(Watch!Fold(i, h), t)
  BY <1>1, Watch!FoldConcat
<1> QED
  BY <1>1, <1>2, <1>3 DEF t

\* A step that leaves the picture on its way as it was, or that finds none at the server.
LEMMA PictureSame ==
    ASSUME PictureInv, PictureTypes',
           receiver_alive' => receiver_alive /\ Fits(output_mapper', outbox', pending_deltas'),
           receiver_alive' /\ server_image # None => SentImage' = SentImage,
           UNCHANGED <<server_image, pending_image>>,
           output_mapper'.connected = output_mapper.connected,
           output_mapper'.base_size = output_mapper.base_size,
           \A i \in 1 .. Len(outbox') : outbox'[i] \in Barriers => server_image = None,
           client' = "starting" => client = "starting" /\ outbox' = <<>>
    PROVE  PictureInv'
<1>1. (receiver_alive => Fits(output_mapper, outbox, pending_deltas))'
  BY DEF Fits, HasFrame
<1> HIDE DEF SentImage
<1>2. ServerShown'
  BY DEF PictureInv, ServerShown
<1> QED
  BY <1>1, <1>2 DEF PictureInv

\* What a send does to the frame and the deltas, by the kind of event.
LEMMA SendCases ==
    ASSUME NEW event \in Messages, send(event)
    PROVE  /\ receiver_alive /\ receiver_alive'
           /\ event \in FrameEvents => latest_frame' = event /\ pending_deltas' = <<>>
           /\ event \in DeltaEvents => /\ latest_frame' = latest_frame
                                       /\ pending_deltas' = queue_delta(pending_deltas, event)
           /\ event \in Terminals => latest_frame' = None /\ pending_deltas' = <<>>
           /\ event \in Controls \ Terminals =>
                 latest_frame' = latest_frame /\ pending_deltas' = pending_deltas
<1>1. receiver_alive /\ receiver_alive'
  BY DEF send
<1>2. CASE event \in FrameEvents
  <2>1. event.kind = "FrameBgraBytes" /\ event \notin Controls /\ event \notin DeltaEvents
    BY <1>2, MessageKinds
  <2>2. SendFrame(event)
    BY <2>1 DEF send, SendDelta, SendTerminal, SendReconnecting, SendControl, Controls
  <2> QED
    BY <1>1, <2>1, <2>2 DEF SendFrame, Controls
<1>3. CASE event \in DeltaEvents
  <2>1. event.kind = "FrameBgraRects" /\ event \notin Controls /\ event \notin FrameEvents
    BY <1>3, MessageKinds
  <2>2. SendDelta(event)
    BY <2>1 DEF send, SendFrame, SendTerminal, SendReconnecting, SendControl, Controls
  <2> QED
    BY <1>1, <2>1, <2>2 DEF SendDelta, Controls
<1>4. CASE event \in Controls
  <2>1. /\ event.kind # "FrameBgraBytes" /\ event.kind # "FrameBgraRects"
        /\ event \notin FrameEvents /\ event \notin DeltaEvents
    BY <1>4, MessageKinds
  <2>2. SendTerminal(event) \/ SendReconnecting(event) \/ SendControl(event)
    BY <2>1 DEF send, SendFrame, SendDelta
  <2>3. event \in Terminals => event \notin Reconnectings \cup CursorEvents \cup Connecteds \cup ClipboardEvents
    BY KindsApart DEF Barriers, Terminals, Reconnectings
  <2> QED
    BY <1>1, <2>1, <2>2, <2>3 DEF SendTerminal, SendReconnecting, SendControl, visuals
<1> QED
  BY <1>2, <1>3, <1>4 DEF Messages

\* The rest of the events still fits, with the queue that the first one left.
LEMMA FitsTail ==
    ASSUME NEW mapper, NEW q, NEW r, NEW out \in Seq(Messages), out # <<>>, Fits(mapper, out, q),
           mapper.connected /\ ~HasFrame(Tail(out)) => r \in Seq(DeltasOf(mapper.base_size))
    PROVE  Fits(mapper, Tail(out), r)
<1> DEFINE t == Tail(out)
<1>1. /\ Len(t) \in Nat /\ Len(out) = Len(t) + 1 /\ \A j \in 1 .. Len(t) : t[j] = out[j + 1]
  OBVIOUS
<1> HIDE DEF t
<1>2. ASSUME NEW i \in 1 .. Len(t), t[i] \in DeltaEvents
      PROVE  /\ mapper.connected /\ t[i].size = mapper.base_size
             /\ \A j \in i + 1 .. Len(t) : t[j] \notin FrameEvents
  <2>1. i + 1 \in 1 .. Len(out) /\ out[i + 1] = t[i]
    BY <1>1
  <2>2. /\ mapper.connected /\ t[i].size = mapper.base_size
        /\ \A j \in (i + 1) + 1 .. Len(out) : out[j] \notin FrameEvents
    BY <1>2, <2>1 DEF Fits
  <2>3. ASSUME NEW j \in i + 1 .. Len(t) PROVE t[j] \notin FrameEvents
    <3>1. j + 1 \in (i + 1) + 1 .. Len(out) /\ j \in 1 .. Len(t)
      BY <1>1
    <3> QED
      BY <1>1, <2>2, <3>1
  <2> QED
    BY <2>2, <2>3
<1> QED
  BY <1>2 DEF Fits, t

\* A frame is the first event or among the rest.
LEMMA FrameInTail ==
    ASSUME NEW out \in Seq(Messages), out # <<>>, Head(out) \notin FrameEvents, HasFrame(out)
    PROVE  HasFrame(Tail(out))
<1>1. PICK j \in 1 .. Len(out) : out[j] \in FrameEvents
  BY DEF HasFrame
<1>2. j # 1
  BY <1>1
<1>3. j - 1 \in 1 .. Len(Tail(out)) /\ Tail(out)[j - 1] = out[j]
  BY <1>2
<1> QED
  BY <1>1, <1>3 DEF HasFrame

\* A cursor event: a control, or nothing at all.
LEMMA PicturePointer ==
    ASSUME PictureInv, NEW event \in CursorEvents, Pointer(event)
    PROVE  PictureInv'
<1> DEFINE S == Controls \ Barriers
<1>1. /\ outbox = <<>> /\ client' = "running"
      /\ output_mapper' = map_cursor(output_mapper, event).mapper
      /\ outbox' = map_cursor(output_mapper, event).out
      /\ UNCHANGED <<latest_frame, pending_deltas, hand, host_image, receiver_alive>>
      /\ UNCHANGED <<server_image, pending_image>>
  BY DEF Pointer, Receives, mailboxVars, threads, hostVars, pacing
<1>2. output_mapper \in Mappers
  BY DEF PictureInv, PictureTypes
<1>3. event \in S
  BY KindsApart DEF Controls
<1>4. /\ output_mapper' \in Mappers
      /\ output_mapper'.connected = output_mapper.connected
      /\ output_mapper'.base_size = output_mapper.base_size
      /\ outbox' \in Seq(S)
  <2> HIDE DEF S
  <2>1. <<>> \in Seq(S) /\ <<event>> \in Seq(S)
    BY <1>3, EmptySeq
  <2>2. CASE output_mapper.connected
    BY <1>1, <1>2, <2>1, <2>2 DEF map_cursor, Mapped
  <2>3. CASE ~output_mapper.connected
    <3>1. output_mapper' = [output_mapper EXCEPT !.pending_cursor = RecordCursor(@, event)]
          /\ outbox' = <<>>
      BY <1>1, <2>3 DEF map_cursor, Mapped
    <3>2. output_mapper.pending_cursor \in Cursors
      BY <1>2 DEF Mappers
    <3>3. RecordCursor(output_mapper.pending_cursor, event) \in Cursors
      BY <3>2, MovedBy DEF Moved
    <3> QED
      BY <1>2, <2>1, <3>1, <3>3 DEF Mappers
  <2> QED
    BY <2>2, <2>3
<1>5. S \subseteq Plain /\ S \subseteq Controls
  BY MessageKinds DEF Plain, Messages
<1> HIDE DEF S
<1>6. outbox' \in Seq(Plain)
  BY <1>4, <1>5, SeqWidens
<1>7. outbox' \in Seq(Messages) /\ \A j \in 1 .. Len(outbox') : outbox'[j] \notin Barriers
  BY <1>6, PlainEvents
<1>8. PictureTypes'
  BY <1>1, <1>4, <1>7 DEF PictureInv, PictureTypes
<1>9. receiver_alive' => receiver_alive /\ Fits(output_mapper', outbox', pending_deltas')
  <2> SUFFICES ASSUME receiver_alive' PROVE receiver_alive /\ Fits(output_mapper', outbox', pending_deltas')
    OBVIOUS
  <2>1. receiver_alive /\ Fits(output_mapper, outbox, pending_deltas)
    BY <1>1 DEF PictureInv
  <2>2. ~HasFrame(outbox)
    BY <1>1, EmptySeq DEF HasFrame
  <2>3. output_mapper'.connected => pending_deltas' \in Seq(DeltasOf(output_mapper'.base_size))
    BY <1>1, <1>4, <2>1, <2>2 DEF Fits
  <2> QED
    BY <1>6, <2>1, <2>3, PlainFits
<1>10. SentImage' = SentImage
  <2>1. MailImage' = MailImage
    <3>1. InHandImage' = InHandImage
      BY <1>1 DEF InHandImage
    <3>2. FrameImage' = FrameImage
      BY <1>1, <3>1 DEF FrameImage
    <3> QED
      BY <1>1, <3>2 DEF MailImage
  <2>2. SentImage = MailImage
    BY <1>1, Watch!FoldEmpty DEF SentImage
  <2>3. MailImage \in Images \cup {None}
    BY ImagesTyped DEF PictureInv
  <2> HIDE DEF MailImage
  <2>4. Watch!Fold(MailImage, outbox') = MailImage
    BY <1>4, <1>5, <2>3, WatchControls
  <2> QED
    BY <2>1, <2>2, <2>4 DEF SentImage
<1> HIDE DEF SentImage
<1> QED
  BY <1>1, <1>4, <1>7, <1>8, <1>9, <1>10, PictureSame

\* What the mailbox holds after a send shows what it held and the event behind it.
LEMMA SendShows ==
    ASSUME PictureTypes, NEW event \in Messages, send(event), event \notin Terminals,
           UNCHANGED <<hand, host_image>>,
           event \in DeltaEvents => pending_deltas \in Seq(DeltasOf(event.size))
    PROVE  /\ MailImage' = Shown(MailImage, event)
           /\ event \in DeltaEvents => pending_deltas' \in Seq(DeltasOf(event.size))
<1>1. InHandImage' = InHandImage
  BY DEF InHandImage
<1>2. /\ InHandImage \in Images \cup {None} /\ FrameImage \in Images \cup {None}
      /\ MailImage \in Images \cup {None}
  BY ImagesTyped
<1>3. CASE event \in FrameEvents
  <2>1. latest_frame' = event /\ pending_deltas' = <<>> /\ event # None /\ event \notin DeltaEvents
    BY <1>3, SendCases, NoneApart, MessageKinds
  <2>2. FrameImage' = Shown(InHandImage, event)
    BY <1>1, <2>1 DEF FrameImage
  <2>3. MailImage' = FrameImage'
    BY <2>1, Watch!FoldEmpty DEF MailImage
  <2>4. Shown(InHandImage, event) = Shown(MailImage, event)
    <3> HIDE DEF InHandImage, MailImage
    <3> QED
      BY <1>2, <1>3, ShownBy
  <2> QED
    BY <2>1, <2>2, <2>3, <2>4
<1>4. CASE event \in DeltaEvents
  <2> DEFINE size == event.size
  <2>1. latest_frame' = latest_frame /\ pending_deltas' = queue_delta(pending_deltas, event)
    BY <1>4, SendCases
  <2>2. size \in Sizes /\ event \in DeltasOf(size) /\ pending_deltas \in Seq(DeltasOf(size))
    BY <1>4, MessageKinds
  <2>3. FrameImage' = FrameImage
    BY <1>1, <2>1 DEF FrameImage
  <2> HIDE DEF size, FrameImage
  <2>4. /\ queue_delta(pending_deltas, event) \in Seq(DeltasOf(size))
        /\ Watch!Fold(FrameImage, queue_delta(pending_deltas, event))
             = Shown(Watch!Fold(FrameImage, pending_deltas), event)
    BY <1>2, <2>2, QueueShows
  <2> QED
    BY <2>1, <2>3, <2>4 DEF MailImage, size
<1>5. CASE event \in Controls
  <2>1. latest_frame' = latest_frame /\ pending_deltas' = pending_deltas /\ event \notin DeltaEvents
    BY <1>5, SendCases, MessageKinds
  <2>2. FrameImage' = FrameImage
    BY <1>1, <2>1 DEF FrameImage
  <2>3. MailImage' = MailImage
    BY <2>1, <2>2 DEF MailImage
  <2> HIDE DEF MailImage
  <2>4. Shown(MailImage, event) = MailImage
    BY <1>2, <1>5, ShownBy
  <2> QED
    BY <2>1, <2>3, <2>4
<1> QED
  BY <1>3, <1>4, <1>5 DEF Messages

\* A queue of a desktop's deltas is a queue of deltas.
LEMMA QueueTyped ==
    ASSUME NEW size \in Sizes, NEW q \in Seq(DeltasOf(size))
    PROVE  q \in Seq(DeltaEvents)
<1>1. DeltasOf(size) \subseteq DeltaEvents
  BY DeltaIsEvent
<1> QED
  BY <1>1, SeqWidens

\* A delta that is sent next is for the desktop that the queue is for.
LEMMA FirstDeltaFits ==
    ASSUME NEW mapper, NEW q, NEW out \in Seq(Messages), out # <<>>, Fits(mapper, out, q),
           Head(out) \in DeltaEvents
    PROVE  /\ mapper.connected /\ Head(out).size = mapper.base_size /\ Head(out).size \in Sizes
           /\ q \in Seq(DeltasOf(Head(out).size))
<1> DEFINE event == Head(out)
<1>1. event = out[1] /\ 1 \in 1 .. Len(out) /\ Len(out) \in Nat
  OBVIOUS
<1>2. /\ mapper.connected /\ event.size = mapper.base_size
      /\ \A j \in 1 + 1 .. Len(out) : out[j] \notin FrameEvents
  BY <1>1 DEF Fits
<1>3. event \notin FrameEvents /\ event.size \in Sizes
  BY MessageKinds
<1>4. ASSUME NEW j \in 1 .. Len(out) PROVE out[j] \notin FrameEvents
  <2>1. j = 1 \/ j \in 1 + 1 .. Len(out)
    BY <1>1
  <2> QED
    BY <1>1, <1>2, <1>3, <2>1
<1>5. ~HasFrame(out)
  BY <1>4 DEF HasFrame
<1> QED
  BY <1>2, <1>3, <1>5 DEF Fits

\* Sending the first event of the outbox.
LEMMA PicturePublish ==
    ASSUME PictureInv, Publish
    PROVE  PictureInv'
<1> DEFINE event == Head(outbox)
           mapper == output_mapper
<1>1. /\ outbox # <<>> /\ send(event) /\ outbox' = Tail(outbox)
      /\ UNCHANGED <<hand, host_image, output_mapper, client>>
      /\ UNCHANGED <<server_image, pending_image>>
  BY DEF Publish, pacing, threads, hostVars, serverVars
<1>2. PictureTypes /\ outbox \in Seq(Messages) /\ receiver_alive /\ receiver_alive'
  BY <1>1 DEF PictureInv, PictureTypes, send
<1>3. /\ event \in Messages /\ event = outbox[1] /\ 1 \in 1 .. Len(outbox) /\ outbox' \in Seq(Messages)
      /\ \A i \in 1 .. Len(outbox') : i + 1 \in 1 .. Len(outbox) /\ outbox'[i] = outbox[i + 1]
  BY <1>1, <1>2
<1>4. \A i \in 1 .. Len(outbox') : outbox'[i] \in Barriers => server_image = None
  BY <1>3 DEF PictureInv, ServerShown
<1>5. Fits(mapper, outbox, pending_deltas)
  BY <1>2 DEF PictureInv
<1>6. event \in DeltaEvents =>
        /\ mapper.connected /\ event.size = mapper.base_size /\ event.size \in Sizes
        /\ pending_deltas \in Seq(DeltasOf(event.size))
  BY <1>1, <1>2, <1>5, FirstDeltaFits
<1>7. event \in Terminals => server_image = None
  BY <1>3 DEF PictureInv, ServerShown, Barriers
<1> HIDE DEF event
<1>8. event \notin Terminals =>
        /\ MailImage' = Shown(MailImage, event)
        /\ event \in DeltaEvents => pending_deltas' \in Seq(DeltasOf(event.size))
  BY <1>1, <1>2, <1>3, <1>6, SendShows
<1>9. latest_frame' \in FrameEvents \cup {None} /\ pending_deltas' \in Seq(DeltaEvents)
  <2>1. <<>> \in Seq(DeltaEvents)
    BY EmptySeq
  <2>2. latest_frame \in FrameEvents \cup {None} /\ pending_deltas \in Seq(DeltaEvents)
    BY <1>2 DEF PictureTypes
  <2>3. CASE event \in DeltaEvents
    <3>1. event \notin Terminals
      BY <2>3, MessageKinds DEF Controls
    <3>2. pending_deltas' \in Seq(DeltasOf(event.size)) /\ event.size \in Sizes
      BY <1>6, <1>8, <2>3, <3>1
    <3> QED
      BY <1>1, <1>3, <2>2, <2>3, <3>2, SendCases, QueueTyped
  <2>4. CASE event \in FrameEvents
    BY <1>1, <1>3, <2>1, <2>4, SendCases
  <2>5. CASE event \in Controls
    BY <1>1, <1>3, <2>1, <2>2, <2>5, SendCases
  <2> QED
    BY <1>3, <2>3, <2>4, <2>5 DEF Messages
<1>10. PictureTypes'
  BY <1>1, <1>2, <1>3, <1>9 DEF PictureTypes
<1>11. mapper.connected /\ ~HasFrame(Tail(outbox)) => pending_deltas' \in Seq(DeltasOf(mapper.base_size))
  <2> SUFFICES ASSUME mapper.connected, ~HasFrame(Tail(outbox))
               PROVE  pending_deltas' \in Seq(DeltasOf(mapper.base_size))
    OBVIOUS
  <2> DEFINE D == DeltasOf(mapper.base_size)
  <2>1. <<>> \in Seq(D)
    <3> HIDE DEF D
    <3> QED
      BY EmptySeq
  <2>2. CASE event \in DeltaEvents
    <3>1. event \notin Terminals
      BY <2>2, MessageKinds DEF Controls
    <3> QED
      BY <1>6, <1>8, <2>2, <3>1
  <2>3. CASE event \in FrameEvents \cup Terminals
    BY <1>1, <1>3, <2>1, <2>3, SendCases
  <2>4. CASE event \in Controls \ Terminals
    <3>1. event \notin FrameEvents /\ pending_deltas' = pending_deltas
      BY <1>1, <1>3, <2>4, SendCases, MessageKinds
    <3>2. ~HasFrame(outbox)
      BY <1>1, <1>2, <3>1, FrameInTail DEF event
    <3> QED
      BY <1>5, <3>1, <3>2 DEF Fits
  <2> QED
    BY <1>3, <2>2, <2>3, <2>4 DEF Messages
<1>12. Fits(output_mapper', outbox', pending_deltas')
  BY <1>1, <1>2, <1>5, <1>11, FitsTail
<1>13. server_image # None => SentImage' = SentImage
  <2> SUFFICES ASSUME server_image # None PROVE SentImage' = SentImage
    OBVIOUS
  <2>1. MailImage' = Shown(MailImage, event)
    BY <1>7, <1>8
  <2>2. Watch!Fold(MailImage, outbox) = Watch!Fold(Shown(MailImage, event), Tail(outbox))
    BY <1>1, <1>2, WatchFirst DEF event
  <2> HIDE DEF MailImage
  <2> QED
    BY <1>1, <2>1, <2>2 DEF SentImage
<1>14. client' = "starting" => client = "starting" /\ outbox' = <<>>
  BY <1>1 DEF PictureInv, ServerShown
<1> HIDE DEF SentImage
<1> QED
  BY <1>1, <1>2, <1>4, <1>10, <1>12, <1>13, <1>14, PictureSame

\* The clipboard sends beside the output task.
LEMMA PictureClipboard ==
    ASSUME PictureInv, NEW event \in ClipboardEvents, ClipboardEvent(event)
    PROVE  PictureInv'
<1>1. /\ UNCHANGED <<hand, host_image, output_mapper, outbox, client>>
      /\ UNCHANGED <<server_image, pending_image>>
      /\ IF receiver_alive THEN send(event) ELSE UNCHANGED mailboxVars
  BY DEF ClipboardEvent, pacing, threads, hostVars, serverVars
<1>2. event \in Controls \ Terminals /\ event \in Messages
  BY KindsApart DEF Controls, Messages, Barriers
<1>3. /\ receiver_alive' = receiver_alive
      /\ latest_frame' = latest_frame /\ pending_deltas' = pending_deltas
  <2>1. CASE receiver_alive
    BY <1>1, <1>2, <2>1, SendCases DEF send
  <2>2. CASE ~receiver_alive
    BY <1>1, <2>2 DEF mailboxVars
  <2> QED
    BY <2>1, <2>2
<1>4. UNCHANGED <<InHandImage, FrameImage, MailImage, SentImage>>
  BY <1>1, <1>3 DEF InHandImage, FrameImage, MailImage, SentImage
<1>5. PictureTypes' /\ (receiver_alive' => receiver_alive /\ Fits(output_mapper', outbox', pending_deltas'))
  BY <1>1, <1>3 DEF PictureInv, PictureTypes
<1>6. /\ \A i \in 1 .. Len(outbox') : outbox'[i] \in Barriers => server_image = None
      /\ client' = "starting" => client = "starting" /\ outbox' = <<>>
  BY <1>1 DEF PictureInv, ServerShown
<1> HIDE DEF SentImage
<1> QED
  BY <1>1, <1>4, <1>5, <1>6, PictureSame

\* The writer takes an event.
LEMMA PictureRecv ==
    ASSUME InsideInv, PictureInv, Recv
    PROVE  PictureInv'
<1>1. /\ hand = None /\ hand' = NextEvent /\ recv_event
      /\ UNCHANGED <<host_image, output_mapper, outbox, client, receiver_alive>>
      /\ UNCHANGED <<server_image, pending_image>>
  BY DEF Recv, recv_event, pacing, threads, hostVars, serverVars
<1>2. PictureTypes /\ control \in Seq(Controls) /\ host_image \in Images \cup {None}
  BY DEF PictureInv, PictureTypes, InsideInv
<1>3. InHandImage = host_image
  BY <1>1 DEF InHandImage
<1>4. /\ hand' \in Messages /\ MailImage' = MailImage
      /\ latest_frame' \in FrameEvents \cup {None} /\ pending_deltas' \in Seq(DeltaEvents)
      /\ pending_deltas' = pending_deltas
           \/ (pending_deltas # <<>> /\ pending_deltas' = Tail(pending_deltas))
  <2>1. CASE control # <<>>
    <3>1. /\ hand' = Head(control) /\ latest_frame' = latest_frame /\ pending_deltas' = pending_deltas
          /\ Head(control) \in Controls
      BY <1>1, <1>2, <2>1 DEF recv_event, NextEvent
    <3>2. hand' \in Messages /\ hand' # None
      BY <3>1, NoneIsNoEvent DEF Messages
    <3>3. InHandImage' = InHandImage
      BY <1>1, <1>2, <1>3, <3>1, <3>2, ShownBy DEF InHandImage
    <3>4. FrameImage' = FrameImage
      BY <3>1, <3>3 DEF FrameImage
    <3>5. MailImage' = MailImage
      BY <3>1, <3>4 DEF MailImage
    <3> HIDE DEF MailImage
    <3> QED
      BY <1>2, <3>1, <3>2, <3>5 DEF PictureTypes
  <2>2. CASE control = <<>> /\ latest_frame # None
    <3>1. hand' = latest_frame /\ latest_frame' = None /\ pending_deltas' = pending_deltas
      BY <1>1, <2>2 DEF recv_event, NextEvent
    <3>2. latest_frame \in FrameEvents /\ hand' \in Messages
      BY <1>2, <2>2, <3>1 DEF PictureTypes, Messages
    <3>3. InHandImage' = Shown(host_image, latest_frame)
      BY <1>1, <2>2, <3>1 DEF InHandImage
    <3>4. FrameImage' = FrameImage
      BY <1>3, <2>2, <3>1, <3>3 DEF FrameImage
    <3>5. MailImage' = MailImage
      BY <3>1, <3>4 DEF MailImage
    <3> HIDE DEF MailImage
    <3> QED
      BY <1>2, <3>1, <3>2, <3>5 DEF PictureTypes
  <2>3. CASE control = <<>> /\ latest_frame = None
    <3> DEFINE d == Head(pending_deltas)
    <3>1. /\ pending_deltas # <<>> /\ hand' = Delta(d.size, d.rects) /\ latest_frame' = None
          /\ pending_deltas' = Tail(pending_deltas)
      BY <1>1, <2>3 DEF recv_event, NextEvent, Deliverable
    <3>2. /\ pending_deltas \in Seq(DeltaEvents) /\ d \in DeltaEvents
          /\ pending_deltas' \in Seq(DeltaEvents)
      BY <1>2, <3>1 DEF PictureTypes
    <3> HIDE DEF d
    <3>3. hand' = d
      <4>1. d \in DeltasOf(d.size)
        BY <3>2, MessageKinds
      <4> QED
        BY <3>1, <4>1 DEF DeltasOf, Delta
    <3>4. hand' \in Messages /\ d # None
      BY <3>2, <3>3, NoneApart DEF Messages
    <3>5. InHandImage' = Shown(host_image, d)
      BY <1>1, <3>3, <3>4 DEF InHandImage
    <3>6. FrameImage' = Shown(host_image, d) /\ FrameImage = host_image
      BY <1>3, <2>3, <3>1, <3>5 DEF FrameImage
    <3>7. Watch!Fold(host_image, pending_deltas) = Watch!Fold(Shown(host_image, d), Tail(pending_deltas))
      BY <3>1, <3>2, WatchFirst DEF d
    <3>8. MailImage' = MailImage
      BY <3>1, <3>6, <3>7 DEF MailImage
    <3> HIDE DEF MailImage
    <3> QED
      BY <3>1, <3>2, <3>4, <3>8
  <2> QED
    BY <2>1, <2>2, <2>3
<1>5. SentImage' = SentImage
  BY <1>1, <1>4 DEF SentImage
<1>6. PictureTypes'
  BY <1>1, <1>2, <1>4 DEF PictureTypes
<1>7. receiver_alive' => receiver_alive /\ Fits(output_mapper', outbox', pending_deltas')
  <2> SUFFICES ASSUME receiver_alive' PROVE receiver_alive /\ Fits(output_mapper', outbox', pending_deltas')
    OBVIOUS
  <2> DEFINE D == DeltasOf(output_mapper.base_size)
  <2>1. receiver_alive /\ Fits(output_mapper, outbox, pending_deltas)
    BY <1>1 DEF PictureInv
  <2>2. pending_deltas \in Seq(D) => pending_deltas' \in Seq(D)
    <3> HIDE DEF D
    <3> QED
      BY <1>4
  <2> HIDE DEF HasFrame
  <2> QED
    BY <1>1, <2>1, <2>2 DEF Fits
<1>8. /\ \A i \in 1 .. Len(outbox') : outbox'[i] \in Barriers => server_image = None
      /\ client' = "starting" => client = "starting" /\ outbox' = <<>>
  BY <1>1 DEF PictureInv, ServerShown
<1> HIDE DEF SentImage
<1> QED
  BY <1>1, <1>5, <1>6, <1>7, <1>8, PictureSame

\* The host reads what the writer held.
LEMMA PictureWrite ==
    ASSUME PictureInv, Write
    PROVE  PictureInv'
<1>1. /\ hand # None /\ hand' = None /\ host_image' = Shown(host_image, hand)
      /\ UNCHANGED <<latest_frame, pending_deltas, output_mapper, outbox, client, receiver_alive>>
      /\ UNCHANGED <<server_image, pending_image>>
  BY DEF Write, HostReads, mailboxVars, pacing, threads, serverVars
<1>2. hand \in Messages /\ host_image \in Images \cup {None}
  BY <1>1 DEF PictureInv, PictureTypes
<1>3. host_image' \in Images \cup {None} /\ InHandImage' = InHandImage
  BY <1>1, <1>2, ShownBy DEF InHandImage
<1>4. FrameImage' = FrameImage
  BY <1>1, <1>3 DEF FrameImage
<1>5. MailImage' = MailImage
  BY <1>1, <1>4 DEF MailImage
<1>6. SentImage' = SentImage
  BY <1>1, <1>5 DEF SentImage
<1>7. PictureTypes' /\ (receiver_alive' => receiver_alive /\ Fits(output_mapper', outbox', pending_deltas'))
  BY <1>1, <1>3 DEF PictureInv, PictureTypes
<1>8. /\ \A i \in 1 .. Len(outbox') : outbox'[i] \in Barriers => server_image = None
      /\ client' = "starting" => client = "starting" /\ outbox' = <<>>
  BY <1>1 DEF PictureInv, ServerShown
<1> HIDE DEF SentImage
<1> QED
  BY <1>1, <1>6, <1>7, <1>8, PictureSame

\* An image from the client only waits.
LEMMA PictureImage ==
    ASSUME PictureInv, NEW size \in Sizes, NEW color \in Colors, Image(size, color)
    PROVE  PictureInv'
<1>1. /\ pending_image' = [size |-> size, pixels |-> [c \in Cells(Screen(size)) |-> color]]
      /\ server_image' = pending_image' /\ client' = "running" /\ outbox = <<>>
      /\ UNCHANGED <<latest_frame, pending_deltas, hand, host_image, receiver_alive>>
      /\ UNCHANGED <<output_mapper, outbox>>
  BY DEF Image, Receives, mailboxVars, threads, hostVars
<1>2. [c \in Cells(Screen(size)) |-> color] \in Pictures(size)
  BY DEF Pictures
<1>3. pending_image' \in Images
  BY <1>1, <1>2, FrameIsEvent
<1>4. pending_image' # None
  BY <1>3, NoneApart
<1>5. PictureTypes' /\ (receiver_alive => Fits(output_mapper, outbox, pending_deltas))'
  BY <1>1, <1>3 DEF PictureInv, PictureTypes
<1>6. \A i \in 1 .. Len(outbox') : FALSE
  BY <1>1, EmptySeq
<1> HIDE DEF SentImage
<1>7. ServerShown'
  BY <1>1, <1>4, <1>6 DEF ServerShown
<1> QED
  BY <1>5, <1>7 DEF PictureInv

\* Every step of the helper keeps the picture on its way the server's.
LEMMA PictureNext == InsideInv /\ PictureInv /\ [Next]_vars => PictureInv'
<1> SUFFICES ASSUME InsideInv, PictureInv, [Next]_vars PROVE PictureInv'
  OBVIOUS
<1>1. CASE ClientEvent
  <2>1. ASSUME NEW size \in Sizes, NEW color \in Colors, Image(size, color) PROVE PictureInv'
    BY <2>1, PictureImage
  <2>2. ASSUME NEW size \in Sizes, NEW color \in Colors, NEW region \in RegionEvents(size),
               DesktopUpdate(size, region, color)
        PROVE  PictureInv'
    BY <2>2, PictureUpdate
  <2>3. ASSUME NEW event \in CursorEvents, Pointer(event) PROVE PictureInv'
    BY <2>3, PicturePointer
  <2>4. ASSUME NEW event \in Terminals \cup Reconnectings, SessionEnd(event) PROVE PictureInv'
    BY <2>4, PictureSessionEnd DEF Barriers
  <2>5. CASE EventWithoutOutput
    <3>1. /\ outbox = <<>> /\ FlushAndPublish(Mapped(Flushed.mapper, <<>>))
          /\ UNCHANGED <<latest_frame, pending_deltas, hand, host_image, receiver_alive>>
          /\ UNCHANGED <<server_image, client>>
      BY <2>5 DEF EventWithoutOutput, Receives, mailboxVars, threads, hostVars, serverVars
    <3> QED
      BY <3>1, PictureFlushOnly
  <2> QED
    BY <1>1, <2>1, <2>2, <2>3, <2>4, <2>5 DEF ClientEvent
<1>2. CASE FlushDue \/ ChannelCloses
  <2>1. /\ outbox = <<>> /\ FlushAndPublish(Mapped(Flushed.mapper, <<>>))
        /\ UNCHANGED <<latest_frame, pending_deltas, hand, host_image, receiver_alive>>
        /\ UNCHANGED <<server_image, client>>
    BY <1>2 DEF FlushDue, ChannelCloses, mailboxVars, threads, hostVars, serverVars
  <2> QED
    BY <2>1, PictureFlushOnly
<1>3. CASE Publish
  BY <1>3, PicturePublish
<1>4. CASE PublishFails
  <2>1. /\ ~receiver_alive' /\ outbox' = <<>> /\ pending_image' = None
        /\ UNCHANGED <<latest_frame, pending_deltas, hand, host_image>>
        /\ UNCHANGED <<server_image, output_mapper, client>>
    BY <1>4 DEF PublishFails, ClearSchedule, drop_sender, hostVars, serverVars
  <2>2. (\A i \in 1 .. Len(outbox') : FALSE) /\ outbox' \in Seq(Messages)
    BY <2>1, EmptySeq
  <2>3. PictureTypes'
    BY <2>1, <2>2 DEF PictureInv, PictureTypes
  <2> HIDE DEF SentImage
  <2>4. ServerShown'
    BY <2>1, <2>2 DEF PictureInv, ServerShown
  <2> QED
    BY <2>1, <2>3, <2>4 DEF PictureInv
<1>5. CASE RuntimeFails
  <2> DEFINE event == [kind |-> "ConnectionFailure"]
  <2>1. /\ client = "starting" /\ client' = "ended" /\ outbox' = <<event>>
        /\ UNCHANGED <<latest_frame, pending_deltas, hand, host_image, receiver_alive>>
        /\ UNCHANGED <<server_image, pending_image, output_mapper>>
    BY <1>5 DEF RuntimeFails, drop_sender, pacing, hostVars, serverVars
  <2>2. server_image = None /\ outbox = <<>>
    BY <2>1 DEF PictureInv, ServerShown
  <2>3. event \in Messages /\ event \notin DeltaEvents
    <3>1. event \in Controls
      BY DEF Controls, Terminals
    <3> QED
      BY <3>1, MessageKinds DEF Messages
  <2> HIDE DEF event
  <2>4. outbox' \in Seq(Messages) /\ \A i \in 1 .. Len(outbox') : outbox'[i] \notin DeltaEvents
    BY <2>1, <2>3
  <2>5. PictureTypes'
    BY <2>1, <2>4 DEF PictureInv, PictureTypes
  <2>6. receiver_alive' => receiver_alive /\ Fits(output_mapper', outbox', pending_deltas')
    <3>1. ~HasFrame(outbox)
      BY <2>2, EmptySeq DEF HasFrame
    <3> QED
      BY <2>1, <2>4, <3>1 DEF PictureInv, Fits
  <2> HIDE DEF SentImage
  <2> QED
    BY <2>1, <2>2, <2>5, <2>6, PictureSame
<1>6. ASSUME NEW event \in ClipboardEvents, ClipboardEvent(event) PROVE PictureInv'
  BY <1>6, PictureClipboard
<1>7. CASE Recv
  BY <1>7, PictureRecv
<1>8. CASE Write
  BY <1>8, PictureWrite
<1>9. CASE WriteFails \/ WriterStops
  <2>1. /\ ~receiver_alive' /\ latest_frame' = None /\ pending_deltas' = <<>>
        /\ hand' \in {hand, None}
        /\ UNCHANGED <<host_image, server_image, pending_image, output_mapper, outbox, client>>
    BY <1>9 DEF WriteFails, WriterStops, drop_receiver, pacing, hostVars, serverVars
  <2>2. pending_deltas' \in Seq(DeltaEvents)
    BY <2>1, EmptySeq
  <2>3. PictureTypes'
    BY <2>1, <2>2 DEF PictureInv, PictureTypes
  <2> HIDE DEF SentImage
  <2>4. ServerShown'
    BY <2>1 DEF PictureInv, ServerShown
  <2> QED
    BY <2>1, <2>3, <2>4 DEF PictureInv
<1>10. CASE \/ OutputTaskEnds \/ MainThread \/ Tick \/ RuntimeStarts \/ ClientEnds \/ Shutdown
            \/ UNCHANGED vars
  <2>1. /\ UNCHANGED <<latest_frame, pending_deltas, hand, host_image, receiver_alive>>
        /\ UNCHANGED <<server_image, pending_image, output_mapper, outbox>>
        /\ client' = "starting" => client = "starting"
    BY <1>10 DEF OutputTaskEnds, MainThread, JoinClient, JoinWriter, Tick, RuntimeStarts,
                 ClientEnds, Shutdown, drop_sender, vars, mailboxVars, pacing, threads, hostVars,
                 serverVars
  <2>2. UNCHANGED <<InHandImage, FrameImage, MailImage, SentImage>>
    BY <2>1 DEF InHandImage, FrameImage, MailImage, SentImage
  <2>3. PictureTypes' /\ (receiver_alive' => receiver_alive /\ Fits(output_mapper', outbox', pending_deltas'))
    BY <2>1 DEF PictureInv, PictureTypes
  <2>4. /\ \A i \in 1 .. Len(outbox') : outbox'[i] \in Barriers => server_image = None
        /\ client' = "starting" => client = "starting" /\ outbox' = <<>>
    BY <2>1 DEF PictureInv, ServerShown
  <2> HIDE DEF SentImage
  <2> QED
    BY <2>1, <2>2, <2>3, <2>4, PictureSame
<1> QED
  BY <1>1, <1>2, <1>3, <1>4, <1>5, <1>6, <1>7, <1>8, <1>9, <1>10
  DEF Next, OutputTask, WriterThread

-------------------------------------------------------------------------------
(* The size of the events. *)

\* Nothing waits when the helper starts.
LEMMA CapInit == Init => DeltasStayWithinCap
<1> SUFFICES ASSUME Init PROVE DeltasStayWithinCap
  OBVIOUS
<1>1. pending_deltas = <<>> /\ hand = None
  BY DEF Init, output_mailbox
<1> QED
  BY <1>1, EmptySeq DEF DeltasStayWithinCap

\* The output task sends an event.
LEMMA CapPublish ==
    ASSUME PictureInv, DeltasStayWithinCap, Publish
    PROVE  DeltasStayWithinCap'
<1> DEFINE event == Head(outbox)
<1>1. outbox # <<>> /\ send(event) /\ hand' = hand
  BY DEF Publish
<1>2. /\ outbox \in Seq(Messages) /\ receiver_alive /\ event \in Messages
      /\ Fits(output_mapper, outbox, pending_deltas)
  BY <1>1 DEF PictureInv, PictureTypes, send
<1>3. \A i \in DOMAIN pending_deltas : WithinCap(pending_deltas[i].rects)
  BY DEF DeltasStayWithinCap
<1>4. event \in DeltaEvents => pending_deltas \in Seq(DeltasOf(event.size)) /\ event \in DeltasOf(event.size)
  BY <1>1, <1>2, FirstDeltaFits, MessageKinds
<1> HIDE DEF event
<1>5. \A i \in DOMAIN pending_deltas' : WithinCap(pending_deltas'[i].rects)
  <2>1. CASE event \in DeltaEvents
    <3>1. pending_deltas' = queue_delta(pending_deltas, event)
      BY <1>1, <1>2, <2>1, SendCases
    <3>2. \A i \in DOMAIN queue_delta(pending_deltas, event) :
              WithinCap(queue_delta(pending_deltas, event)[i].rects)
      BY <1>3, <1>4, <2>1, QueueDeltaStaysWithinCap
    <3> QED
      BY <3>1, <3>2
  <2>2. CASE event \in FrameEvents \cup Terminals
    <3>1. pending_deltas' = <<>>
      BY <1>1, <1>2, <2>2, SendCases
    <3> QED
      BY <3>1, EmptySeq
  <2>3. CASE event \in Controls \ Terminals
    BY <1>1, <1>2, <1>3, <2>3, SendCases
  <2> QED
    BY <1>2, <2>1, <2>2, <2>3 DEF Messages
<1> QED
  BY <1>1, <1>5 DEF DeltasStayWithinCap

\* The writer takes an event.
LEMMA CapRecv ==
    ASSUME InsideInv, PictureInv, DeltasStayWithinCap, Recv
    PROVE  DeltasStayWithinCap'
<1>1. hand' = NextEvent /\ recv_event
  BY DEF Recv
<1>2. /\ control \in Seq(Controls) /\ latest_frame \in FrameEvents \cup {None}
      /\ pending_deltas \in Seq(DeltaEvents)
  BY DEF PictureInv, PictureTypes, InsideInv
<1>3. \A i \in DOMAIN pending_deltas : WithinCap(pending_deltas[i].rects)
  BY DEF DeltasStayWithinCap
<1>4. CASE control # <<>>
  <2>1. hand' \in Controls /\ pending_deltas' = pending_deltas
    BY <1>1, <1>2, <1>4 DEF recv_event, NextEvent
  <2> QED
    BY <1>3, <2>1, MessageKinds DEF DeltasStayWithinCap
<1>5. CASE control = <<>> /\ latest_frame # None
  <2>1. hand' \in FrameEvents /\ pending_deltas' = pending_deltas
    BY <1>1, <1>2, <1>5 DEF recv_event, NextEvent
  <2> QED
    BY <1>3, <2>1, MessageKinds DEF DeltasStayWithinCap
<1>6. CASE control = <<>> /\ latest_frame = None
  <2> DEFINE d == Head(pending_deltas)
  <2>1. /\ pending_deltas # <<>> /\ hand' = Delta(d.size, d.rects)
        /\ pending_deltas' = Tail(pending_deltas)
    BY <1>1, <1>6 DEF recv_event, NextEvent, Deliverable
  <2>2. /\ d = pending_deltas[1] /\ 1 \in DOMAIN pending_deltas
        /\ \A i \in DOMAIN pending_deltas' :
               i + 1 \in DOMAIN pending_deltas /\ pending_deltas'[i] = pending_deltas[i + 1]
    BY <1>2, <2>1
  <2>3. hand'.rects = d.rects
    BY <2>1 DEF Delta
  <2>4. WithinCap(hand'.rects)
    BY <1>3, <2>2, <2>3
  <2>5. \A i \in DOMAIN pending_deltas' : WithinCap(pending_deltas'[i].rects)
    BY <1>3, <2>2
  <2> QED
    BY <2>4, <2>5 DEF DeltasStayWithinCap
<1> QED
  BY <1>4, <1>5, <1>6

\* No step makes an event too large.
LEMMA CapNext == InsideInv /\ PictureInv /\ DeltasStayWithinCap /\ [Next]_vars => DeltasStayWithinCap'
<1> SUFFICES ASSUME InsideInv, PictureInv, DeltasStayWithinCap, [Next]_vars PROVE DeltasStayWithinCap'
  OBVIOUS
<1>1. CASE Publish
  BY <1>1, CapPublish
<1>2. CASE Recv
  BY <1>2, CapRecv
<1>3. CASE WriteFails \/ WriterStops
  <2>1. pending_deltas' = <<>> /\ hand' \in {hand, None}
    BY <1>3 DEF WriteFails, WriterStops, drop_receiver
  <2> QED
    BY <2>1, EmptySeq DEF DeltasStayWithinCap
<1>4. CASE Write
  <2>1. pending_deltas' = pending_deltas /\ hand' = None
    BY <1>4 DEF Write, mailboxVars
  <2> QED
    BY <2>1 DEF DeltasStayWithinCap
<1>5. ASSUME NEW event \in ClipboardEvents, ClipboardEvent(event) PROVE DeltasStayWithinCap'
  <2>1. hand' = hand /\ (IF receiver_alive THEN send(event) ELSE UNCHANGED mailboxVars)
    BY <1>5 DEF ClipboardEvent
  <2>2. event \in Controls \ Terminals /\ event \in Messages
    BY KindsApart DEF Controls, Messages, Barriers
  <2>3. pending_deltas' = pending_deltas
    BY <2>1, <2>2, SendCases DEF mailboxVars
  <2> QED
    BY <2>1, <2>3 DEF DeltasStayWithinCap
<1>6. CASE ClientEvent
  <2>1. UNCHANGED <<pending_deltas, hand>>
    BY <1>6 DEF ClientEvent, Image, DesktopUpdate, Pointer, SessionEnd, EventWithoutOutput, mailboxVars
  <2> QED
    BY <2>1 DEF DeltasStayWithinCap
<1>7. CASE \/ FlushDue \/ ChannelCloses \/ PublishFails \/ RuntimeFails \/ OutputTaskEnds
           \/ MainThread \/ Tick \/ RuntimeStarts \/ ClientEnds \/ Shutdown \/ UNCHANGED vars
  <2>1. UNCHANGED <<pending_deltas, hand>>
    BY <1>7 DEF FlushDue, ChannelCloses, PublishFails, RuntimeFails, OutputTaskEnds, MainThread,
                JoinClient, JoinWriter, Tick, RuntimeStarts, ClientEnds, Shutdown, drop_sender,
                vars, mailboxVars
  <2> QED
    BY <2>1 DEF DeltasStayWithinCap
<1> QED
  BY <1>1, <1>2, <1>3, <1>4, <1>5, <1>6, <1>7 DEF Next, OutputTask, WriterThread

-------------------------------------------------------------------------------
(* The types of what is left. *)

ThreadTypes ==
    /\ sender_count \in Nat /\ receiver_alive \in BOOLEAN
    /\ settle_deadline \in (0 .. Settle) \cup {None}
    /\ output_task \in {"running", "closing", "ended", "failed"}
    /\ client \in {"starting", "running", "ended"}
    /\ main \in {"reading", "joining_client", "joining_writer", "exited"}
    /\ writer \in {"running", "stopped", "failed"}

\* They hold when the helper starts ...
LEMMA ThreadsInit == Init => ThreadTypes
  BY DEF Init, output_mailbox, ThreadTypes

\* ... and after every step.
LEMMA ThreadsNext == ScheduleInv /\ ThreadTypes /\ [Next]_vars => ThreadTypes'
<1> SUFFICES ASSUME ScheduleInv, ThreadTypes, [Next]_vars PROVE ThreadTypes'
  OBVIOUS
<1>1. settle_deadline' \in (0 .. Settle) \cup {None}
  <2>1. CASE Tick
    <3>1. /\ settle_deadline' = settle_deadline - 1 /\ settle_deadline # 0
          /\ pending_image # None
      BY <2>1 DEF Tick, is_due
    <3>2. settle_deadline \in Nat /\ Settle \in Nat
      BY <3>1, Intervals DEF ScheduleInv
    <3>3. settle_deadline \in 0 .. Settle
      BY <3>2, NoneIsNoTime DEF ThreadTypes
    <3> QED
      BY <3>1, <3>2, <3>3
  <2>2. ASSUME NEW size, NEW color, Image(size, color)
        PROVE  settle_deadline' \in (0 .. Settle) \cup {None}
    <3>1. settle_deadline' = Settle
      BY <2>2 DEF Image, record_image
    <3> QED
      BY <3>1, Intervals
  <2>3. CASE ClearSchedule
    BY <2>3 DEF ClearSchedule
  <2>4. CASE UNCHANGED settle_deadline
    BY <2>4 DEF ThreadTypes
  <2>5. CASE ClientEvent
    <3>1. ASSUME NEW event, Pointer(event) PROVE UNCHANGED settle_deadline
      BY <3>1 DEF Pointer, pacing
    <3>2. ASSUME NEW size, NEW region, NEW color, DesktopUpdate(size, region, color) PROVE ClearSchedule
      BY <3>2 DEF DesktopUpdate, FlushAndPublish
    <3>3. ASSUME NEW event, SessionEnd(event) PROVE ClearSchedule
      BY <3>3 DEF SessionEnd, FlushAndPublish
    <3>4. EventWithoutOutput => ClearSchedule
      BY DEF EventWithoutOutput, FlushAndPublish
    <3> HIDE DEF ClearSchedule
    <3> QED
      BY <2>2, <2>3, <2>4, <2>5, <3>1, <3>2, <3>3, <3>4 DEF ClientEvent
  <2>6. CASE FlushDue \/ ChannelCloses \/ PublishFails
    BY <2>3, <2>6 DEF FlushDue, ChannelCloses, PublishFails, FlushAndPublish
  <2>7. CASE \/ Publish \/ OutputTaskEnds \/ WriterThread \/ MainThread
             \/ RuntimeStarts \/ RuntimeFails \/ ClientEnds \/ Shutdown
             \/ \E event \in ClipboardEvents : ClipboardEvent(event)
             \/ UNCHANGED vars
    <3>1. UNCHANGED settle_deadline
      BY <2>7 DEF Publish, OutputTaskEnds, WriterThread, Recv, Write, WriteFails, WriterStops,
                  MainThread, JoinClient, JoinWriter, RuntimeStarts, RuntimeFails, ClientEnds,
                  Shutdown, ClipboardEvent, pacing, vars
    <3> QED
      BY <2>4, <3>1
  <2> QED
    BY <2>1, <2>5, <2>6, <2>7 DEF Next, OutputTask
<1>2. sender_count' \in Nat /\ receiver_alive' \in BOOLEAN
  <2>1. CASE UNCHANGED mailboxVars
    BY <2>1 DEF mailboxVars, ThreadTypes
  <2>2. CASE drop_sender
    BY <2>2 DEF drop_sender, ThreadTypes
  <2>3. CASE drop_receiver
    BY <2>3 DEF drop_receiver, ThreadTypes
  <2>4. ASSUME NEW event, send(event) PROVE sender_count' \in Nat /\ receiver_alive' \in BOOLEAN
    BY <2>4 DEF send, ThreadTypes
  <2>5. CASE recv_event
    BY <2>5 DEF recv_event, ThreadTypes
  <2>6. CASE ClientEvent \/ Tick \/ FlushDue \/ ChannelCloses \/ MainThread \/ RuntimeStarts \/ Write
    <3>1. UNCHANGED mailboxVars
      BY <2>6, Zenon DEF ClientEvent, Image, DesktopUpdate, Pointer, SessionEnd, EventWithoutOutput, Tick,
                  FlushDue, ChannelCloses, MainThread, JoinClient, JoinWriter, RuntimeStarts, Write
    <3> QED
      BY <2>1, <3>1
  <2>7. CASE PublishFails \/ OutputTaskEnds \/ RuntimeFails \/ ClientEnds \/ Shutdown
    BY <2>2, <2>7 DEF PublishFails, OutputTaskEnds, RuntimeFails, ClientEnds, Shutdown
  <2>8. CASE WriteFails \/ WriterStops
    BY <2>3, <2>8 DEF WriteFails, WriterStops
  <2>9. CASE Publish \/ \E event \in ClipboardEvents : ClipboardEvent(event)
    BY <2>1, <2>4, <2>9 DEF Publish, ClipboardEvent
  <2>10. CASE Recv
    BY <2>5, <2>10 DEF Recv
  <2>11. CASE UNCHANGED vars
    BY <2>1, <2>11 DEF vars
  <2> QED
    BY <2>6, <2>7, <2>8, <2>9, <2>10, <2>11 DEF Next, OutputTask, WriterThread
<1>3. /\ output_task' \in {"running", "closing", "ended", "failed"}
      /\ client' \in {"starting", "running", "ended"}
      /\ main' \in {"reading", "joining_client", "joining_writer", "exited"}
      /\ writer' \in {"running", "stopped", "failed"}
  <2>1. CASE UNCHANGED threads
    BY <2>1 DEF threads, ThreadTypes
  <2>2. CASE \/ ClientEvent \/ Tick \/ FlushDue \/ Publish \/ Recv \/ Write
             \/ \E event \in ClipboardEvents : ClipboardEvent(event)
             \/ UNCHANGED vars
    <3>1. UNCHANGED threads
      BY <2>2 DEF ClientEvent, Image, DesktopUpdate, Pointer, SessionEnd, EventWithoutOutput, Tick,
                  FlushDue, Publish, Recv, Write, ClipboardEvent, vars
    <3> QED
      BY <2>1, <3>1
  <2>3. CASE \/ PublishFails \/ ChannelCloses \/ OutputTaskEnds \/ RuntimeStarts \/ RuntimeFails
             \/ ClientEnds
    BY <2>3 DEF PublishFails, ChannelCloses, OutputTaskEnds, RuntimeStarts, RuntimeFails,
                ClientEnds, ThreadTypes
  <2>4. CASE Shutdown \/ MainThread \/ WriteFails \/ WriterStops
    BY <2>4 DEF Shutdown, MainThread, JoinClient, JoinWriter, WriteFails, WriterStops, ThreadTypes
  <2> QED
    BY <2>2, <2>3, <2>4 DEF Next, OutputTask, WriterThread
<1> QED
  BY <1>1, <1>2, <1>3 DEF ThreadTypes

\* The images, frames and deltas of the proof are those of the type invariant.
LEMMA EventTypes ==
    /\ \A i \in Images : IsPicture(i)
    /\ \A e \in FrameEvents : IsFrame(e)
    /\ \A e \in DeltaEvents : IsDelta(e)
<1>1. \A i \in Images : IsPicture(i)
  BY ImageFields DEF IsPicture
<1>2. \A e \in FrameEvents : IsFrame(e)
  BY MessageKinds DEF IsFrame
<1>3. ASSUME NEW e \in DeltaEvents PROVE IsDelta(e)
  <2>1. e.kind = "FrameBgraRects" /\ e.size \in Sizes /\ e \in DeltasOf(e.size)
    BY MessageKinds
  <2>2. e.rects \in Seq(EntriesOf(e.size))
    BY <2>1, DeltaFields
  <2>3. ASSUME NEW x \in EntriesOf(e.size)
        PROVE  IsEntry(x) /\ Cells(x.rect) \subseteq Cells(Screen(e.size))
    BY DEF EntriesOf, IsEntry, Rects
  <2>4. \A j \in DOMAIN e.rects : e.rects[j] \in EntriesOf(e.size)
    BY <2>2
  <2> QED
    BY <2>1, <2>3, <2>4 DEF IsDelta
<1> QED
  BY <1>1, <1>2, <1>3

\* The invariants give every variable its type.
LEMMA TypesHold ==
    ASSUME ScheduleInv, InsideInv, CursorInv, PictureInv, ThreadTypes
    PROVE  TypeOK
<1>1. MailboxTypeOK
  <2>1. control \in Seq(Controls)
    BY DEF InsideInv
  <2>2. latest_frame = None \/ IsFrame(latest_frame)
    BY EventTypes DEF PictureInv, PictureTypes
  <2>3. \A i \in DOMAIN pending_deltas : IsDelta(pending_deltas[i])
    <3>1. pending_deltas \in Seq(DeltaEvents)
      BY DEF PictureInv, PictureTypes
    <3>2. \A i \in DOMAIN pending_deltas : pending_deltas[i] \in DeltaEvents
      BY <3>1
    <3> QED
      BY <3>2, EventTypes
  <2> QED
    BY <2>1, <2>2, <2>3 DEF MailboxTypeOK, ThreadTypes
<1>2. /\ output_mapper.connected \in BOOLEAN /\ output_mapper.base_size \in Sizes \cup {None}
      /\ output_mapper.pending_cursor \in Cursors
  BY DEF PictureInv, PictureTypes, Mappers
<1>3. /\ pending_image = None \/ IsPicture(pending_image)
      /\ server_image = None \/ IsPicture(server_image)
      /\ host_image = None \/ IsPicture(host_image)
  BY EventTypes DEF PictureInv, PictureTypes
<1>4. max_latency_deadline \in (0 .. MaxLatency) \cup {None}
  <2>1. CASE max_latency_deadline = None
    BY <2>1
  <2>2. CASE max_latency_deadline # None
    <3>1. max_latency_deadline \in Nat /\ age \in Nat /\ age + max_latency_deadline =< MaxLatency
      BY <2>2 DEF ScheduleInv
    <3> QED
      BY <3>1, Intervals
  <2> QED
    BY <2>1, <2>2
<1>5. \A i \in DOMAIN outbox : outbox[i] \in Controls \/ IsFrame(outbox[i]) \/ IsDelta(outbox[i])
  <2>1. outbox \in Seq(Messages)
    BY DEF PictureInv, PictureTypes
  <2>2. \A i \in DOMAIN outbox : outbox[i] \in Messages
    BY <2>1
  <2> QED
    BY <2>2, EventTypes DEF Messages
<1>6. {server_cursor, host_cursor} \subseteq Cursors
  BY DEF CursorInv
<1> QED
  BY <1>1, <1>2, <1>3, <1>4, <1>5, <1>6 DEF TypeOK, ThreadTypes

\* No pixel is lost: however images wait for a quiet moment, are replaced by frames and
\* split, merged and folded in the mailbox while the writer is slow, the host's picture with
\* all that is on its way is the server's desktop; no delta outgrows the cap; and every
\* variable has its type.  For all sizes, colours, caps, limits and bounds.
THEOREM PictureIsSafe == Spec => []PictureSafe
<1>1. Spec => []ScheduleInv
  BY ScheduleInit, ScheduleNext, PTL DEF Spec
<1>2. Spec => []InsideInv
  BY InsideInit, InsideNext, PTL DEF Spec
<1>3. Spec => []CursorInv
  BY <1>2, CursorInit, CursorNext, PTL DEF Spec
<1>4. Spec => []PictureInv
  BY <1>2, PictureInit, PictureNext, PTL DEF Spec
<1>5. Spec => []DeltasStayWithinCap
  BY <1>2, <1>4, CapInit, CapNext, PTL DEF Spec
<1>6. Spec => []ThreadTypes
  BY <1>1, ThreadsInit, ThreadsNext, PTL DEF Spec
<1>7. /\ ScheduleInv /\ InsideInv /\ CursorInv /\ PictureInv /\ DeltasStayWithinCap /\ ThreadTypes
      => PictureSafe
  BY TypesHold, PictureUnderway DEF PictureSafe
<1> QED
  BY <1>1, <1>2, <1>3, <1>4, <1>5, <1>6, <1>7, PTL
===============================================================================
