--------------------------- MODULE RdpDisplayProofs ---------------------------
(***************************************************************************)
(* What is proved of the RDP helper, for every size of the desktop, every  *)
(* number of outputs and every choice of deadlines.                        *)
(*                                                                         *)
(* - Trimming and banding are exact: what is cut out of an older dirty     *)
(*   rectangle is the covered part and nothing else, and the strips that   *)
(*   remain do not overlap.                                                *)
(* - An image is presented within its deadline, and a cursor event reaches *)
(*   the host only inside a session (OutputIsSafe).                        *)
(* - The controls that are not coalesced pass through the mailbox as       *)
(*   through a FIFO channel (ControlsAreDeliveredInOrder).                 *)
(* - The cursor of the host, with all that is on its way, is the server's  *)
(*   (CursorStaysCurrent).                                                 *)
(*                                                                         *)
(* That no pixel is lost is proved in RdpPictureProofs.                    *)
(***************************************************************************)
EXTENDS RdpDisplay, RetainProofs

-------------------------------------------------------------------------------
(* Trimming and banding dirty rectangles. *)

Rects == [x : Int, y : Int, width : Nat, height : Nat]

\* The entry itself, and the parts that can be cut out of it.
Strips(entry) == {entry} \cup {Part(entry, r) : r \in Rects}

\* The list s shows the cells of area, each once, in the colours of entry.
Cut(s, entry, area) ==
    /\ s \in Seq(Strips(entry))
    /\ \A i \in DOMAIN s : Cells(s[i].rect) \subseteq area
    /\ \A c \in area : \E i \in DOMAIN s : c \in Cells(s[i].rect)
    /\ \A i, j \in DOMAIN s : i # j => Cells(s[i].rect) \cap Cells(s[j].rect) = {}
    /\ \A i \in DOMAIN s : \A c \in Cells(s[i].rect) : s[i].pixels[c] = entry.pixels[c]

\* The cells of rows row_start .. row_end - 1 and columns column_start ..
\* column_end - 1.
Band(row_start, row_end, column_start, column_end) ==
    (column_start .. column_end - 1) \X (row_start .. row_end - 1)

\* The strips of two disjoint areas, one list after the other.
LEMMA CutsConcatenate ==
    ASSUME NEW entry, NEW s, NEW t, NEW A, NEW B,
           Cut(s, entry, A), Cut(t, entry, B), A \cap B = {}
    PROVE  Cut(s \o t, entry, A \cup B)
<1> DEFINE S == Strips(entry)
           u == s \o t
<1> HIDE DEF S
<1>1. s \in Seq(S) /\ t \in Seq(S)
  BY DEF Cut, S
<1>2. /\ u \in Seq(S)
      /\ Len(u) = Len(s) + Len(t) /\ Len(s) \in Nat /\ Len(t) \in Nat
      /\ DOMAIN s = 1 .. Len(s) /\ DOMAIN t = 1 .. Len(t) /\ DOMAIN u = 1 .. Len(u)
  BY <1>1
<1>3. \A i \in DOMAIN s : i \in DOMAIN u /\ u[i] = s[i]
  BY <1>1, <1>2
<1>4. \A i \in DOMAIN t : Len(s) + i \in DOMAIN u /\ u[Len(s) + i] = t[i]
  BY <1>1, <1>2
<1>5. \A k \in DOMAIN u : \/ k \in DOMAIN s
                          \/ \E i \in DOMAIN t : k = Len(s) + i
  <2> TAKE k \in DOMAIN u
  <2>1. CASE k <= Len(s)
    BY <1>2, <2>1
  <2>2. CASE k > Len(s)
    <3>1. k - Len(s) \in DOMAIN t /\ k = Len(s) + (k - Len(s))
      BY <1>2, <2>2
    <3>2. QED
      BY <3>1
  <2>3. QED
    BY <1>2, <2>1, <2>2
<1> HIDE DEF u
<1>6. \A i \in DOMAIN u : Cells(u[i].rect) \subseteq A \cup B
  BY <1>3, <1>4, <1>5 DEF Cut
<1>7. \A c \in A \cup B : \E i \in DOMAIN u : c \in Cells(u[i].rect)
  BY <1>3, <1>4 DEF Cut
<1>8. \A i \in DOMAIN u : \A c \in Cells(u[i].rect) : u[i].pixels[c] = entry.pixels[c]
  BY <1>3, <1>4, <1>5 DEF Cut
<1>9. \A i, j \in DOMAIN u : i # j => Cells(u[i].rect) \cap Cells(u[j].rect) = {}
  <2> SUFFICES ASSUME NEW i \in DOMAIN u, NEW j \in DOMAIN u, i # j
               PROVE  Cells(u[i].rect) \cap Cells(u[j].rect) = {}
    OBVIOUS
  <2>1. CASE i \in DOMAIN s /\ j \in DOMAIN s
    BY <1>3, <2>1 DEF Cut
  <2>2. CASE i \in DOMAIN s /\ j \notin DOMAIN s
    <3>1. PICK l \in DOMAIN t : j = Len(s) + l
      BY <1>5, <2>2
    <3>2. Cells(u[i].rect) \subseteq A /\ Cells(u[j].rect) \subseteq B
      BY <1>3, <1>4, <2>2, <3>1 DEF Cut
    <3>3. QED
      BY <3>2
  <2>3. CASE i \notin DOMAIN s /\ j \in DOMAIN s
    <3>1. PICK l \in DOMAIN t : i = Len(s) + l
      BY <1>5, <2>3
    <3>2. Cells(u[i].rect) \subseteq B /\ Cells(u[j].rect) \subseteq A
      BY <1>3, <1>4, <2>3, <3>1 DEF Cut
    <3>3. QED
      BY <3>2
  <2>4. CASE i \notin DOMAIN s /\ j \notin DOMAIN s
    <3>1. PICK k \in DOMAIN t : i = Len(s) + k
      BY <1>5, <2>4
    <3>2. PICK l \in DOMAIN t : j = Len(s) + l
      BY <1>5, <2>4
    <3>3. k # l /\ u[i] = t[k] /\ u[j] = t[l]
      BY <1>4, <3>1, <3>2
    <3>4. Cells(t[k].rect) \cap Cells(t[l].rect) = {}
      BY <3>3 DEF Cut
    <3>5. QED
      BY <3>3, <3>4
  <2>5. QED
    BY <2>1, <2>2, <2>3, <2>4
<1>10. Cut(u, entry, A \cup B)
  BY <1>2, <1>6, <1>7, <1>8, <1>9 DEF Cut, S
<1>11. QED
  BY <1>10 DEF u

\* push_band keeps the band, or nothing if the band is empty.
LEMMA PushBandCuts ==
    ASSUME NEW entry, NEW r0 \in Int, NEW r1 \in Int, NEW c0 \in Int, NEW c1 \in Int
    PROVE  Cut(push_band(entry, r0, r1, c0, c1), entry, Band(r0, r1, c0, c1))
<1> DEFINE S == Strips(entry)
           r == HelperFrameRect(c0, r0, c1 - c0, r1 - r0)
           p == Part(entry, r)
<1>1. CASE r0 >= r1 \/ c0 >= c1
  <2>1. push_band(entry, r0, r1, c0, c1) = <<>>
    BY <1>1 DEF push_band
  <2>2. r0 .. r1 - 1 = {} \/ c0 .. c1 - 1 = {}
    BY <1>1
  <2>3. Band(r0, r1, c0, c1) = {}
    BY <2>2 DEF Band
  <2>4. QED
    BY <2>1, <2>3 DEF Cut
<1>2. CASE ~(r0 >= r1 \/ c0 >= c1)
  <2>1. push_band(entry, r0, r1, c0, c1) = <<p>>
    BY <1>2 DEF push_band
  <2>2. r \in Rects
    BY <1>2 DEF HelperFrameRect, Rects
  <2>3. p \in S /\ p.rect = r
    BY <2>2 DEF Strips, Part
  <2>4. Cells(r) = Band(r0, r1, c0, c1)
    <3>1. /\ r.x = c0 /\ r.y = r0 /\ r.width = c1 - c0 /\ r.height = r1 - r0
      BY DEF HelperFrameRect
    <3>2. r.x + r.width - 1 = c1 - 1 /\ r.y + r.height - 1 = r1 - 1
      BY <3>1
    <3>3. QED
      BY <3>1, <3>2 DEF Cells, Band
  <2>5. \A c \in Cells(r) : p.pixels[c] = entry.pixels[c]
    BY DEF Part
  <2>6. /\ <<p>> \in Seq(S) /\ DOMAIN <<p>> = {1} /\ <<p>>[1] = p
    BY <2>3
  <2> HIDE DEF p, r, S
  <2>7. Cut(<<p>>, entry, Band(r0, r1, c0, c1))
    BY <2>3, <2>4, <2>5, <2>6 DEF Cut, S
  <2>8. QED
    BY <2>1, <2>7
<1>3. QED
  BY <1>1, <1>2

\* trim_covered_pixels returns the entry minus the covered rectangle, for every
\* entry and every cover: no cell is lost, none is left that is covered, none
\* is sent twice, and all keep their colour.
THEOREM TrimIsDifference ==
    ASSUME NEW entry, entry.rect \in Rects, NEW cover \in Rects
    PROVE  Cut(trim_covered_pixels(entry, cover), entry, Cells(entry.rect) \ Cells(cover))
<1> DEFINE rect == entry.rect
           left == Larger(cover.x, rect.x)
           top == Larger(cover.y, rect.y)
           right == Smaller(cover.x + cover.width, rect.x + rect.width)
           bottom == Smaller(cover.y + cover.height, rect.y + rect.height)
           rows_end == rect.y + rect.height
           columns_end == rect.x + rect.width
           trimmed == trim_covered_pixels(entry, cover)
           above == Band(rect.y, top, rect.x, columns_end)
           below == Band(bottom, rows_end, rect.x, columns_end)
           before == Band(top, bottom, rect.x, left)
           behind == Band(top, bottom, right, columns_end)
<1>1. /\ {rect.x, rect.y, cover.x, cover.y} \subseteq Int
      /\ {rect.width, rect.height, cover.width, cover.height} \subseteq Nat
  BY DEF Rects
<1>2. {left, top, right, bottom, rows_end, columns_end} \subseteq Int
  BY <1>1 DEF Larger, Smaller
<1>3. /\ Cells(rect) = Band(rect.y, rows_end, rect.x, columns_end)
      /\ Cells(cover) = Band(cover.y, cover.y + cover.height, cover.x, cover.x + cover.width)
  BY <1>1, SMT DEF Cells, Band
<1>4. CASE left >= right \/ top >= bottom
  <2>1. trimmed = <<entry>>
    BY <1>4 DEF trim_covered_pixels
  <2>2. Cells(rect) \ Cells(cover) = Cells(rect)
    <3> SUFFICES ASSUME NEW c \in Cells(rect), c \in Cells(cover) PROVE FALSE
      OBVIOUS
    <3>1. /\ c[1] \in Int /\ c[2] \in Int
          /\ rect.x <= c[1] /\ c[1] < columns_end /\ rect.y <= c[2] /\ c[2] < rows_end
          /\ cover.x <= c[1] /\ c[1] < cover.x + cover.width
          /\ cover.y <= c[2] /\ c[2] < cover.y + cover.height
      BY <1>1, <1>2, <1>3 DEF Band
    <3>2. left <= c[1] /\ c[1] < right /\ top <= c[2] /\ c[2] < bottom
      BY <1>1, <3>1 DEF Larger, Smaller
    <3>3. QED
      BY <1>2, <1>4, <3>1, <3>2
  <2>3. <<entry>> \in Seq(Strips(entry)) /\ DOMAIN <<entry>> = {1} /\ <<entry>>[1] = entry
    BY DEF Strips
  <2>4. Cut(<<entry>>, entry, Cells(rect))
    BY <2>3 DEF Cut
  <2>5. QED
    BY <2>1, <2>2, <2>4
<1>5. CASE ~(left >= right \/ top >= bottom)
  <2> DEFINE s1 == push_band(entry, rect.y, top, rect.x, columns_end)
             s2 == push_band(entry, bottom, rows_end, rect.x, columns_end)
             s3 == push_band(entry, top, bottom, rect.x, left)
             s4 == push_band(entry, top, bottom, right, columns_end)
  <2>1. trimmed = s1 \o s2 \o s3 \o s4
    BY <1>5 DEF trim_covered_pixels
  <2>2. Cut(s1, entry, above) /\ Cut(s2, entry, below)
    BY <1>1, <1>2, PushBandCuts
  <2>3. Cut(s3, entry, before) /\ Cut(s4, entry, behind)
    BY <1>1, <1>2, PushBandCuts
  <2>4. /\ left < right /\ top < bottom
        /\ rect.x <= left /\ right <= columns_end /\ rect.y <= top /\ bottom <= rows_end
        /\ cover.x <= left /\ right <= cover.x + cover.width
        /\ cover.y <= top /\ bottom <= cover.y + cover.height
    BY <1>1, <1>2, <1>5 DEF Larger, Smaller
  <2>5. /\ left \in {rect.x, cover.x} /\ top \in {rect.y, cover.y}
        /\ right \in {columns_end, cover.x + cover.width}
        /\ bottom \in {rows_end, cover.y + cover.height}
    BY DEF Larger, Smaller
  <2> HIDE DEF left, top, right, bottom, rows_end, columns_end, s1, s2, s3, s4, trimmed
  <2>6. above \cap below = {}
    BY <1>1, <1>2, <2>4 DEF Band
  <2>7. (above \cup below) \cap before = {}
    BY <1>1, <1>2, <2>4 DEF Band
  <2>8. (above \cup below \cup before) \cap behind = {}
    BY <1>1, <1>2, <2>4 DEF Band
  <2>9. above \cup below \cup before \cup behind = Cells(rect) \ Cells(cover)
    <3>1. ASSUME NEW c \in above \cup below \cup before \cup behind
          PROVE  c \in Cells(rect) \ Cells(cover)
      BY <1>1, <1>2, <1>3, <2>4, <2>5, <3>1 DEF Band
    <3>2. ASSUME NEW c \in Cells(rect), c \notin Cells(cover)
          PROVE  c \in above \cup below \cup before \cup behind
      BY <1>1, <1>2, <1>3, <2>4, <2>5, <3>2 DEF Band
    <3>3. QED
      BY <3>1, <3>2
  <2> HIDE DEF above, below, before, behind
  <2>10. Cut(s1 \o s2, entry, above \cup below)
    BY <2>2, <2>6, CutsConcatenate
  <2>11. Cut(s1 \o s2 \o s3, entry, above \cup below \cup before)
    BY <2>3, <2>7, <2>10, CutsConcatenate
  <2>12. Cut(s1 \o s2 \o s3 \o s4, entry, above \cup below \cup before \cup behind)
    BY <2>3, <2>8, <2>11, CutsConcatenate
  <2>13. QED
    BY <2>1, <2>9, <2>12 DEF trimmed
<1>6. QED
  BY <1>4, <1>5
-------------------------------------------------------------------------------
(* Arithmetic for the bands. *)

LEMMA MulMonotone ==
    ASSUME NEW a \in Int, NEW b \in Int, NEW r \in Nat, a <= b
    PROVE  a * r <= b * r
  BY SMTT(30)

LEMMA MulReflects ==
    ASSUME NEW a \in Int, NEW b \in Int, NEW r \in Nat, a * r < b * r
    PROVE  a < b
  BY MulMonotone, SMTT(30)

LEMMA DivisionLower ==
    ASSUME NEW k \in Nat, NEW r \in Nat \ {0}
    PROVE  (k \div r) * r <= k
  BY SMTT(30)

LEMMA DivisionUpper ==
    ASSUME NEW k \in Nat, NEW r \in Nat \ {0}
    PROVE  k < (k \div r) * r + r
  BY SMTT(30)

LEMMA DivisionIsNatural ==
    ASSUME NEW k \in Nat, NEW r \in Nat \ {0}
    PROVE  k \div r \in Nat
  BY SMTT(30)

\* Where band i of n bands of r rows starts and how many of h rows it has.
Start(i, r) == (i - 1) * r
Rows(i, r, h) == Smaller(r, h - (i - 1) * r)

\* ceil(h / r) bands of r rows, the last one shorter, share h rows out: every band has
\* a row, every row has a band, and a band ends where the next one starts.
LEMMA BandsShareRows ==
    ASSUME NEW h \in Nat \ {0}, NEW r \in Nat \ {0}, NEW n, n = (h + r - 1) \div r
    PROVE  /\ n \in Nat
           /\ \A i \in 1 .. n : /\ Start(i, r) \in Nat /\ Rows(i, r, h) \in 1 .. r
                                /\ Start(i, r) + Rows(i, r, h) <= h
           /\ \A k \in 0 .. h - 1 : \E i \in 1 .. n :
                  Start(i, r) <= k /\ k < Start(i, r) + Rows(i, r, h)
           /\ \A i, j \in 1 .. n : i < j => Start(i, r) + Rows(i, r, h) <= Start(j, r)
<1>1. h + r - 1 \in Nat
  OBVIOUS
<1>2. n \in Nat /\ n * r <= h + r - 1 /\ h + r - 1 < n * r + r
  BY <1>1, DivisionLower, DivisionUpper, DivisionIsNatural
<1>3. \A i \in Int : (i - 1) * r \in Int /\ i * r \in Int /\ (i - 1) * r = i * r - r
  BY SMTT(30)
<1>4. h <= n * r
  BY <1>2, <1>3
<1>5. ASSUME NEW i \in 1 .. n
      PROVE  /\ Start(i, r) \in Nat /\ Rows(i, r, h) \in 1 .. r
             /\ Start(i, r) + Rows(i, r, h) <= h
  <2>1. 0 * r <= (i - 1) * r
    BY <1>2, MulMonotone
  <2>2. i * r <= n * r
    BY <1>2, MulMonotone
  <2>3. (i - 1) * r < h /\ (i - 1) * r \in Nat
    BY <1>2, <1>3, <2>1, <2>2
  <2>4. QED
    BY <2>3 DEF Start, Rows, Smaller
<1>6. ASSUME NEW k \in 0 .. h - 1
      PROVE  \E i \in 1 .. n : Start(i, r) <= k /\ k < Start(i, r) + Rows(i, r, h)
  <2> DEFINE q == k \div r
  <2>1. q \in Nat /\ q * r <= k /\ k < q * r + r
    BY DivisionLower, DivisionUpper, DivisionIsNatural
  <2> HIDE DEF q
  <2>2. q * r < n * r
    BY <1>2, <1>3, <1>4, <2>1
  <2>3. q < n
    BY <1>2, <2>1, <2>2, MulReflects
  <2>4. q + 1 \in 1 .. n /\ (q + 1) - 1 = q
    BY <1>2, <2>1, <2>3
  <2>5. Start(q + 1, r) = q * r /\ Rows(q + 1, r, h) = Smaller(r, h - q * r)
    BY <2>4 DEF Start, Rows
  <2>6. q * r \in Int
    BY <1>3, <2>1
  <2>7. q * r <= k /\ k < q * r + Smaller(r, h - q * r)
    BY <2>1, <2>6 DEF Smaller
  <2>8. QED
    BY <2>4, <2>5, <2>7
<1>7. ASSUME NEW i \in 1 .. n, NEW j \in 1 .. n, i < j
      PROVE  Start(i, r) + Rows(i, r, h) <= Start(j, r)
  <2>1. i * r <= (j - 1) * r
    BY <1>2, <1>7, MulMonotone
  <2>2. (i - 1) * r \in Int /\ (j - 1) * r \in Int /\ (i - 1) * r + r = i * r
    BY <1>2, <1>3
  <2>3. Smaller(r, h - (i - 1) * r) <= r /\ Smaller(r, h - (i - 1) * r) \in Int
    BY <2>2 DEF Smaller
  <2>4. QED
    BY <2>1, <2>2, <2>3 DEF Start, Rows
<1>8. QED
  BY <1>2, <1>5, <1>6, <1>7

\* split_entry_into_bands cuts an entry that is larger than the cap into bands that
\* show every cell of it once, and each band is within the cap or a single row,
\* for every cap and every rectangle.
THEOREM SplitIsPartition ==
    ASSUME NEW entry, entry.rect \in Rects
    PROVE  /\ Cut(split_entry_into_bands(entry), entry, Cells(entry.rect))
           /\ \A i \in DOMAIN split_entry_into_bands(entry) :
                  LET band == split_entry_into_bands(entry)[i]
                  IN  Area(band) <= Cap \/ band.rect.height = 1
<1> DEFINE rect == entry.rect
           split == split_entry_into_bands(entry)
           x == rect.x
           y == rect.y
           w == rect.width
           h == rect.height
           r == Larger(Cap \div w, 1)
           n == (h + r - 1) \div r
<1>1. x \in Int /\ y \in Int /\ w \in Nat /\ h \in Nat /\ Cap \in Nat \ {0}
  BY CapIsPositive DEF Rects
<1>2. CASE w = 0 \/ Area(entry) <= Cap
  <2>1. split = <<entry>>
    BY <1>2 DEF split_entry_into_bands
  <2>2. <<entry>> \in Seq(Strips(entry)) /\ DOMAIN <<entry>> = {1} /\ <<entry>>[1] = entry
    BY DEF Strips
  <2>3. Cut(<<entry>>, entry, Cells(rect))
    BY <2>2 DEF Cut
  <2>4. Area(entry) <= Cap
    BY <1>1, <1>2 DEF Area
  <2>5. QED
    BY <2>1, <2>2, <2>3, <2>4
<1>3. CASE ~(w = 0 \/ Area(entry) <= Cap)
  <2> DEFINE R(i) == HelperFrameRect(x, y + Start(i, r), w, Rows(i, r, h))
             P(i) == Part(entry, R(i))
  <2>1. w \in Nat \ {0} /\ h \in Nat \ {0}
    <3>1. h = 0 => w * h = 0
      BY <1>1
    <3>2. QED
      BY <1>1, <1>3, <3>1 DEF Area
  <2>2. r \in Nat \ {0} /\ (r = 1 \/ w * r <= Cap)
    <3>1. Cap \div w \in Nat /\ (Cap \div w) * w <= Cap
      BY <1>1, <2>1, DivisionIsNatural, DivisionLower
    <3>2. (Cap \div w) * w = w * (Cap \div w)
      BY <2>1, <3>1
    <3>3. QED
      BY <3>1, <3>2 DEF Larger
  <2>3. split = [i \in 1 .. n |-> P(i)]
    BY <1>3 DEF split_entry_into_bands, Start, Rows
  <2> HIDE DEF r
  <2>4. /\ n \in Nat
        /\ \A i \in 1 .. n : /\ Start(i, r) \in Nat /\ Rows(i, r, h) \in 1 .. r
                             /\ Start(i, r) + Rows(i, r, h) <= h
    BY <2>1, <2>2, BandsShareRows
  <2>5. /\ \A k \in 0 .. h - 1 : \E i \in 1 .. n :
               Start(i, r) <= k /\ k < Start(i, r) + Rows(i, r, h)
        /\ \A i, j \in 1 .. n : i < j => Start(i, r) + Rows(i, r, h) <= Start(j, r)
    BY <2>1, <2>2, BandsShareRows
  <2> HIDE DEF n, split
  <2>6. ASSUME NEW i \in 1 .. n
        PROVE  /\ P(i).rect = R(i) /\ R(i) \in Rects /\ P(i) \in Strips(entry)
               /\ R(i).height = Rows(i, r, h) /\ R(i).width = w
               /\ Cells(R(i)) = (x .. x + w - 1)
                                  \X (y + Start(i, r) .. y + Start(i, r) + Rows(i, r, h) - 1)
    <3>1. R(i) \in Rects
      BY <1>1, <2>2, <2>4, <2>6 DEF HelperFrameRect, Rects
    <3>2. P(i).rect = R(i) /\ P(i) \in Strips(entry)
      BY <3>1 DEF Part, Strips
    <3>3. /\ R(i).x = x /\ R(i).y = y + Start(i, r)
          /\ R(i).width = w /\ R(i).height = Rows(i, r, h)
      BY DEF HelperFrameRect
    <3>4. QED
      BY <3>1, <3>2, <3>3 DEF Cells
  <2>7. \A i \in 1 .. n : \A c \in Cells(R(i)) : P(i).pixels[c] = entry.pixels[c]
    BY DEF Part
  <2> HIDE DEF R, P
  <2>8. /\ split \in Seq(Strips(entry)) /\ DOMAIN split = 1 .. n
        /\ \A i \in 1 .. n : split[i] = P(i) /\ split[i].rect = R(i)
    <3>1. \A i \in 1 .. n : P(i) \in Strips(entry) /\ P(i).rect = R(i)
      BY <2>6
    <3>2. n \in Nat
      BY <2>4
    <3>3. DOMAIN split = 1 .. n /\ \A i \in 1 .. n : split[i] = P(i)
      BY <2>3
    <3>4. split \in [1 .. n -> Strips(entry)]
      BY <2>3, <3>1
    <3>5. split \in Seq(Strips(entry))
      BY <3>2, <3>4
    <3> QED
      BY <3>1, <3>3, <3>5
  <2>9. Cells(rect) = (x .. x + w - 1) \X (y .. y + h - 1)
    BY DEF Cells
  <2>10. \A i \in 1 .. n : Cells(R(i)) \subseteq Cells(rect)
    BY <1>1, <2>2, <2>4, <2>6, <2>9
  <2>11. ASSUME NEW c \in Cells(rect) PROVE \E i \in 1 .. n : c \in Cells(R(i))
    <3>1. c[1] \in x .. x + w - 1 /\ c[2] \in y .. y + h - 1 /\ c = <<c[1], c[2]>>
      BY <2>9
    <3>2. c[2] - y \in 0 .. h - 1
      BY <1>1, <3>1
    <3>3. PICK i \in 1 .. n : Start(i, r) <= c[2] - y /\ c[2] - y < Start(i, r) + Rows(i, r, h)
      BY <2>5, <3>2
    <3>4. Start(i, r) \in Int /\ Rows(i, r, h) \in Int
      BY <2>2, <2>4
    <3>5. c[2] \in y + Start(i, r) .. y + Start(i, r) + Rows(i, r, h) - 1
      BY <1>1, <3>1, <3>3, <3>4
    <3>6. QED
      BY <2>6, <3>1, <3>5
  <2>12. ASSUME NEW i \in 1 .. n, NEW j \in 1 .. n, i < j
         PROVE  Cells(R(i)) \cap Cells(R(j)) = {}
    <3>1. Start(i, r) + Rows(i, r, h) <= Start(j, r)
      BY <2>5, <2>12
    <3>2. {Start(i, r), Rows(i, r, h), Start(j, r), Rows(j, r, h)} \subseteq Int
      BY <2>2, <2>4
    <3>3. QED
      BY <1>1, <2>6, <3>1, <3>2
  <2>13. \A i, j \in 1 .. n : i # j => Cells(R(i)) \cap Cells(R(j)) = {}
    <3>1. \A i, j \in 1 .. n : i # j => i < j \/ j < i
      BY <2>4
    <3>2. QED
      BY <2>12, <3>1
  <2>14. Cut(split, entry, Cells(rect))
    BY <2>7, <2>8, <2>10, <2>11, <2>13 DEF Cut
  <2>15. ASSUME NEW i \in 1 .. n
         PROVE  Area(split[i]) <= Cap \/ split[i].rect.height = 1
    <3>1. Area(split[i]) = w * Rows(i, r, h) /\ split[i].rect.height = Rows(i, r, h)
      BY <2>6, <2>8 DEF Area
    <3>2. Rows(i, r, h) \in Nat /\ 1 <= Rows(i, r, h) /\ Rows(i, r, h) <= r
      BY <2>2, <2>4
    <3>3. CASE r = 1
      BY <3>1, <3>2, <3>3
    <3>4. CASE w * r <= Cap
      <4>1. Rows(i, r, h) * w <= r * w
        BY <1>1, <2>2, <3>2, MulMonotone
      <4>2. Rows(i, r, h) * w = w * Rows(i, r, h) /\ r * w = w * r
        BY <1>1, <2>2, <3>2
      <4>3. w * Rows(i, r, h) \in Int /\ w * r \in Int
        BY <1>1, <2>2, <3>2
      <4>4. QED
        BY <1>1, <3>1, <3>4, <4>1, <4>2, <4>3
    <3>5. QED
      BY <2>2, <3>3, <3>4
  <2>16. QED
    BY <2>8, <2>14, <2>15 DEF split
<1>4. QED
  BY <1>2, <1>3

-------------------------------------------------------------------------------
(* The presentation schedule. *)

\* The deadlines are set together; while they are, the image is not older than what the
\* second one leaves of MaxLatency.
ScheduleInv ==
    \/ /\ pending_image = None
       /\ settle_deadline = None /\ max_latency_deadline = None
    \/ /\ settle_deadline \in Nat /\ max_latency_deadline \in Nat /\ age \in Nat
       /\ age + max_latency_deadline =< MaxLatency

\* Nothing is scheduled when the task starts.
LEMMA ScheduleInit == Init => ScheduleInv
  BY DEF Init, ScheduleInv

\* Every way of emptying the schedule.
LEMMA ScheduleCleared == ClearSchedule => ScheduleInv'
  BY DEF ClearSchedule, ScheduleInv

\* The arithmetic of a deadline that is kept while the age restarts.
LEMMA SumShrinks ==
    ASSUME NEW a \in Nat, NEW b \in Nat, NEW m \in Nat, NEW l \in Nat, a + m =< l, b =< a
    PROVE  b + m =< l
  OBVIOUS

\* record_image sets both deadlines, or moves the first and keeps the second.
LEMMA ScheduleImage ==
    ASSUME ScheduleInv, NEW size, NEW color, Image(size, color)
    PROVE  ScheduleInv'
<1>1. /\ settle_deadline' = Settle
      /\ max_latency_deadline' = IF max_latency_deadline = None THEN MaxLatency
                                 ELSE max_latency_deadline
      /\ age' = IF pending_image = None THEN 0 ELSE age
  BY DEF Image, record_image
<1>2. Settle \in Nat /\ MaxLatency \in Nat
  BY Intervals
<1>3. CASE settle_deadline = None /\ max_latency_deadline = None /\ pending_image = None
  BY <1>1, <1>2, <1>3 DEF ScheduleInv
<1>4. CASE /\ settle_deadline \in Nat /\ max_latency_deadline \in Nat /\ age \in Nat
           /\ age + max_latency_deadline =< MaxLatency
  <2>1. max_latency_deadline' = max_latency_deadline
    BY <1>1, <1>4, NoneIsNoTime
  <2>2. age' \in Nat /\ age' =< age
    BY <1>1, <1>4
  <2>3. age' + max_latency_deadline =< MaxLatency
    BY <1>2, <1>4, <2>2, SumShrinks
  <2> QED
    BY <1>1, <1>2, <1>4, <2>1, <2>2, <2>3 DEF ScheduleInv
<1> QED
  BY <1>3, <1>4 DEF ScheduleInv

\* A millisecond ages the image and takes as much from the second deadline.
LEMMA ScheduleTick ==
    ASSUME ScheduleInv, Tick
    PROVE  ScheduleInv'
<1>1. /\ settle_deadline' = settle_deadline - 1
      /\ max_latency_deadline' = max_latency_deadline - 1
      /\ age' = age + 1
      /\ settle_deadline # 0 /\ max_latency_deadline # 0
      /\ pending_image # None
  BY DEF Tick, is_due
<1>2. /\ settle_deadline \in Nat /\ max_latency_deadline \in Nat /\ age \in Nat
      /\ age + max_latency_deadline =< MaxLatency
  BY <1>1 DEF ScheduleInv
<1>3. MaxLatency \in Nat
  BY Intervals
<1> QED
  BY <1>1, <1>2, <1>3 DEF ScheduleInv

\* Every step of the helper keeps the schedule.
LEMMA ScheduleNext == ScheduleInv /\ [Next]_vars => ScheduleInv'
<1> SUFFICES ASSUME ScheduleInv, [Next]_vars PROVE ScheduleInv'
  OBVIOUS
<1>s. UNCHANGED pacing => ScheduleInv'
  BY DEF pacing, ScheduleInv
<1>1. CASE ClientEvent
  <2>1. ASSUME NEW size, NEW color, Image(size, color) PROVE ScheduleInv'
    BY <2>1, ScheduleImage
  <2>2. ASSUME NEW size, NEW region, NEW color, DesktopUpdate(size, region, color)
        PROVE  ScheduleInv'
    BY <2>2, ScheduleCleared DEF DesktopUpdate, FlushAndPublish
  <2>3. ASSUME NEW event, Pointer(event) PROVE ScheduleInv'
    BY <2>3, <1>s DEF Pointer
  <2>4. ASSUME NEW event, SessionEnd(event) PROVE ScheduleInv'
    BY <2>4, ScheduleCleared DEF SessionEnd, FlushAndPublish
  <2>5. CASE EventWithoutOutput
    BY <2>5, ScheduleCleared DEF EventWithoutOutput, FlushAndPublish
  <2> QED
    BY <1>1, <2>1, <2>2, <2>3, <2>4, <2>5 DEF ClientEvent
<1>2. CASE FlushDue \/ ChannelCloses
  BY <1>2, ScheduleCleared DEF FlushDue, ChannelCloses, FlushAndPublish
<1>3. CASE PublishFails
  BY <1>3, ScheduleCleared DEF PublishFails
<1>4. CASE Tick
  BY <1>4, ScheduleTick
<1>5. CASE \/ Publish \/ OutputTaskEnds \/ WriterThread \/ MainThread
           \/ RuntimeStarts \/ RuntimeFails \/ ClientEnds \/ Shutdown
           \/ \E event \in ClipboardEvents : ClipboardEvent(event)
  <2>1. UNCHANGED pacing
    BY <1>5 DEF Publish, OutputTaskEnds, WriterThread, Recv, Write, WriteFails, WriterStops,
                MainThread, JoinClient, JoinWriter, RuntimeStarts, RuntimeFails, ClientEnds,
                Shutdown, ClipboardEvent
  <2> QED
    BY <1>s, <2>1
<1>6. CASE UNCHANGED vars
  BY <1>s, <1>6 DEF vars
<1> QED
  BY <1>1, <1>2, <1>3, <1>4, <1>5, <1>6 DEF Next, OutputTask

\* The schedule bounds the age of the image that waits.
LEMMA ScheduleIsInTime == ScheduleInv => PresentedInTime
<1> SUFFICES ASSUME ScheduleInv, pending_image # None
             PROVE  /\ age =< MaxLatency
                    /\ settle_deadline # None /\ max_latency_deadline # None
  BY DEF PresentedInTime
<1>1. /\ settle_deadline \in Nat /\ max_latency_deadline \in Nat /\ age \in Nat
      /\ age + max_latency_deadline =< MaxLatency
  BY DEF ScheduleInv
<1>2. MaxLatency \in Nat
  BY Intervals
<1> QED
  BY <1>1, <1>2, NoneIsNoTime
-------------------------------------------------------------------------------
(* Cursor events stay inside their session. *)

Barriers == Terminals \cup Reconnectings

\* An event at position i of the list q reaches a host with an open session, if the
\* host that reads q has one when up: a Connected follows every barrier before i, and
\* there is one if not up.
Inside(q, up, i) ==
    /\ \A b \in 1..(i - 1) : q[b] \in Barriers => \E k \in (b + 1)..(i - 1) : q[k] \in Connecteds
    /\ up \/ \E k \in 1..(i - 1) : q[k] \in Connecteds

\* The kinds of control the mailbox tells apart are disjoint and make up all controls.
LEMMA KindsApart ==
    /\ \A c \in CursorEvents : c \notin Barriers /\ c \notin Connecteds
    /\ \A c \in ClipboardEvents : c \notin Barriers /\ c \notin Connecteds /\ c \notin CursorEvents
    /\ \A c \in Connecteds : c \notin Barriers /\ c \notin CursorEvents
    /\ \A c \in Barriers : c \notin CursorEvents
    /\ Barriers \cup Connecteds \cup CursorEvents \cup ClipboardEvents = Controls
    /\ None \notin Barriers \cup Connecteds \cup CursorEvents
<1> USE DEF CursorEvents, Appearances, Positions, Barriers, Terminals, Reconnectings, Connecteds,
            ClipboardEvents
<1>1. \A c \in CursorEvents : c \notin Barriers /\ c \notin Connecteds
  OBVIOUS
<1>2. \A c \in ClipboardEvents : c \notin Barriers /\ c \notin Connecteds /\ c \notin CursorEvents
  OBVIOUS
<1>3. \A c \in Connecteds : c \notin Barriers /\ c \notin CursorEvents
  OBVIOUS
<1>4. Barriers \cup Connecteds \cup CursorEvents \cup ClipboardEvents = Controls
  BY DEF Controls
<1> HIDE DEF CursorEvents, Appearances, Positions, Barriers, Terminals, Reconnectings, Connecteds,
             ClipboardEvents
<1> QED
  BY <1>1, <1>2, <1>3, <1>4, NoneIsNoEvent

\* A frame or a delta is no control.
LEMMA VisualsApart ==
    ASSUME NEW e, e.kind \in {"FrameBgraBytes", "FrameBgraRects"}
    PROVE  e \notin Controls
  BY DEF Controls, CursorEvents, Appearances, Positions, Terminals, Reconnectings, Connecteds,
         ClipboardEvents

\* A host with a session serves where one without does.
LEMMA InsideWeaker ==
    ASSUME NEW q, NEW i, NEW up, NEW now, up => now, Inside(q, up, i)
    PROVE  Inside(q, now, i)
  BY DEF Inside

\* Before the first event only the host itself can be inside a session.
LEMMA InsideFirst ==
    ASSUME NEW q, NEW up, Inside(q, up, 1)
    PROVE  up
  BY DEF Inside

\* A host inside a session stays inside before the first event.
LEMMA InsideStart ==
    ASSUME NEW q, NEW up, up
    PROVE  Inside(q, up, 1)
  BY DEF Inside

\* One list after the other: what holds in the first list, and what holds in the
\* second for a host that has read the first.
LEMMA InsideConcat ==
    ASSUME NEW S, NEW s \in Seq(S), NEW t \in Seq(S), NEW up, NEW mid,
           mid => Inside(s, up, Len(s) + 1)
    PROVE  /\ \A i \in 1..(Len(s) + 1) : Inside(s, up, i) => Inside(s \o t, up, i)
           /\ \A j \in 1..(Len(t) + 1) : Inside(t, mid, j) => Inside(s \o t, up, Len(s) + j)
<1> DEFINE r == s \o t
           n == Len(s)
<1>1. /\ n \in Nat /\ Len(t) \in Nat /\ Len(r) = n + Len(t)
      /\ \A i \in 1..n : r[i] = s[i]
      /\ \A j \in 1..Len(t) : r[n + j] = t[j]
  BY ConcatProperties, LenProperties
<1> HIDE DEF r, n
<1>2. ASSUME NEW i \in 1..(n + 1), Inside(s, up, i)
      PROVE  Inside(r, up, i)
  <2>1. \A k \in 1..(i - 1) : k \in 1..n /\ r[k] = s[k]
    BY <1>1
  <2>2. \A b \in 1..(i - 1) : \A k \in (b + 1)..(i - 1) : k \in 1..(i - 1)
    BY <1>1
  <2> QED
    BY <1>2, <2>1, <2>2 DEF Inside
<1>3. ASSUME NEW j \in 1..(Len(t) + 1), Inside(t, mid, j)
      PROVE  Inside(r, up, n + j)
  <2> DEFINE e == (n + j) - 1
  <2>1. e = n + (j - 1) /\ e \in Nat /\ j - 1 \in Nat /\ n =< e
    BY <1>1
  <2> HIDE DEF e
  <2>2. ASSUME NEW k \in 1..(j - 1), t[k] \in Connecteds
        PROVE  n + k \in (n + 1)..e /\ n + k \in 1..e /\ r[n + k] \in Connecteds
    <3>1. k \in 1..Len(t) /\ n + k \in (n + 1)..e /\ n + k \in 1..e
      BY <1>1, <2>1
    <3> QED
      BY <1>1, <2>2, <3>1
  <2>3. ASSUME ~mid
        PROVE  \E k \in (n + 1)..e : r[k] \in Connecteds
    <3>1. PICK k \in 1..(j - 1) : t[k] \in Connecteds
      BY <1>3, <2>3 DEF Inside
    <3> QED
      BY <2>2, <3>1
  <2>4. ASSUME NEW b \in 1..n, r[b] \in Barriers
        PROVE  \E k \in (b + 1)..e : r[k] \in Connecteds
    <3>1. CASE mid
      <4>1. (n + 1) - 1 = n
        BY <1>1
      <4>2. s[b] \in Barriers
        BY <1>1, <2>4
      <4>3. PICK k \in (b + 1)..n : s[k] \in Connecteds
        BY <3>1, <4>1, <4>2 DEF Inside, n
      <4>4. k \in 1..n /\ k \in (b + 1)..e
        BY <1>1, <2>1, <4>3
      <4> QED
        BY <1>1, <4>3, <4>4
    <3>2. CASE ~mid
      <4>1. PICK k \in (n + 1)..e : r[k] \in Connecteds
        BY <2>3, <3>2
      <4>2. k \in (b + 1)..e
        BY <1>1, <2>1, <4>1
      <4> QED
        BY <4>1, <4>2
    <3> QED
      BY <3>1, <3>2
  <2>5. ASSUME NEW b \in (n + 1)..e, r[b] \in Barriers
        PROVE  \E k \in (b + 1)..e : r[k] \in Connecteds
    <3> DEFINE c == b - n
    <3>1. c \in 1..(j - 1) /\ c \in 1..Len(t) /\ n + c = b
      BY <1>1, <2>1
    <3> HIDE DEF c
    <3>2. t[c] \in Barriers
      BY <1>1, <2>5, <3>1
    <3>3. PICK k \in (c + 1)..(j - 1) : t[k] \in Connecteds
      BY <1>3, <3>1, <3>2 DEF Inside
    <3>4. k \in 1..(j - 1) /\ n + k \in (b + 1)..e
      BY <1>1, <2>1, <3>1, <3>3
    <3>5. r[n + k] \in Connecteds
      BY <2>2, <3>3, <3>4
    <3> QED
      BY <3>4, <3>5
  <2>6. up \/ \E k \in 1..e : r[k] \in Connecteds
    <3>1. CASE mid
      <4>1. (n + 1) - 1 = n
        BY <1>1
      <4>2. CASE \E k \in 1..n : s[k] \in Connecteds
        <5>1. PICK k \in 1..n : s[k] \in Connecteds
          BY <4>2
        <5>2. k \in 1..e
          BY <1>1, <2>1
        <5> QED
          BY <1>1, <5>1, <5>2
      <4> QED
        BY <3>1, <4>1, <4>2 DEF Inside, n
    <3>2. CASE ~mid
      <4>1. PICK k \in (n + 1)..e : r[k] \in Connecteds
        BY <2>3, <3>2
      <4>2. k \in 1..e
        BY <1>1, <2>1, <4>1
      <4> QED
        BY <4>1, <4>2
    <3> QED
      BY <3>1, <3>2
  <2>7. \A b \in 1..e : b \in 1..n \/ b \in (n + 1)..e
    BY <1>1, <2>1
  <2> QED
    BY <2>4, <2>5, <2>6, <2>7 DEF Inside, e
<1> QED
  BY <1>2, <1>3 DEF r, n

\* The host once it has read one event.
Reading(e, up) == e \in Connecteds \/ (e \notin Connecteds \cup Barriers /\ up)

\* What is inside stays inside when the first event is taken.
LEMMA InsideTail ==
    ASSUME NEW S, NEW q \in Seq(S), q # <<>>, NEW up,
           NEW i \in 1..(Len(Tail(q)) + 1), Inside(q, up, i + 1)
    PROVE  Inside(Tail(q), Reading(Head(q), up), i)
<1> DEFINE r == Tail(q)
           n == Len(q)
           now == Reading(Head(q), up)
<1>1. /\ n \in Nat /\ n # 0 /\ Len(r) = n - 1 /\ Head(q) = q[1]
      /\ \A k \in 1..Len(r) : r[k] = q[k + 1]
  BY HeadTailProperties, LenProperties, EmptySeq
<1> HIDE DEF r, n, now
<1>2. i \in 1..n
  BY <1>1 DEF r
<1>3. (i + 1) - 1 = i
  BY <1>2
<1>4. \A k \in 2..i : k - 1 \in 1..(i - 1) /\ r[k - 1] = q[k]
  <2> SUFFICES ASSUME NEW k \in 2..i PROVE k - 1 \in 1..(i - 1) /\ r[k - 1] = q[k]
    OBVIOUS
  <2>1. k - 1 \in 1..(i - 1) /\ k - 1 \in 1..Len(r) /\ (k - 1) + 1 = k
    BY <1>1, <1>2
  <2> QED
    BY <1>1, <2>1
<1>5. ASSUME NEW b \in 1..(i - 1), r[b] \in Barriers
      PROVE  \E k \in (b + 1)..(i - 1) : r[k] \in Connecteds
  <2>1. b \in 1..Len(r) /\ b + 1 \in 1..i
    BY <1>1, <1>2
  <2>2. q[b + 1] \in Barriers
    BY <1>1, <1>5, <2>1
  <2>3. PICK k \in ((b + 1) + 1)..i : q[k] \in Connecteds
    BY <1>3, <2>1, <2>2 DEF Inside
  <2>4. k \in 2..i /\ k - 1 \in (b + 1)..(i - 1)
    BY <1>2, <2>1, <2>3
  <2>5. r[k - 1] = q[k]
    BY <1>4, <2>4
  <2> QED
    BY <2>3, <2>4, <2>5
<1>6. now \/ \E k \in 1..(i - 1) : r[k] \in Connecteds
  <2>1. ASSUME NEW k \in 2..i, q[k] \in Connecteds
        PROVE  \E j \in 1..(i - 1) : r[j] \in Connecteds
    BY <1>4, <2>1
  <2>2. CASE Head(q) \in Connecteds
    BY <2>2 DEF now, Reading
  <2>3. CASE Head(q) \in Barriers
    <3>1. 1 \in 1..i /\ q[1] \in Barriers
      BY <1>1, <1>2, <2>3
    <3>2. PICK k \in (1 + 1)..i : q[k] \in Connecteds
      BY <1>3, <3>1 DEF Inside
    <3>3. k \in 2..i
      OBVIOUS
    <3> QED
      BY <2>1, <3>2, <3>3
  <2>4. CASE Head(q) \notin Connecteds \cup Barriers
    <3>1. CASE up
      BY <2>4, <3>1 DEF now, Reading
    <3>2. CASE ~up
      <4>1. PICK k \in 1..i : q[k] \in Connecteds
        BY <1>3, <3>2 DEF Inside
      <4>2. k # 1
        BY <1>1, <2>4, <4>1
      <4>3. k \in 2..i
        BY <1>2, <4>1, <4>2
      <4> QED
        BY <2>1, <4>1, <4>3
    <3> QED
      BY <3>1, <3>2
  <2> QED
    BY <2>2, <2>3, <2>4
<1>7. Inside(r, now, i)
  BY <1>5, <1>6 DEF Inside
<1> QED
  BY <1>7 DEF r, now
-------------------------------------------------------------------------------
(* What the mapper makes of an event. *)

PixelMaps == UNION {[Cells(r) -> Colors] : r \in Rects}
Visuals ==
    [kind : {"FrameBgraBytes"}, size : Sizes, pixels : PixelMaps]
      \cup [kind : {"FrameBgraRects"}, size : Sizes, rects : Seq([rect : Rects, pixels : PixelMaps])]
Outputs == Controls \cup Visuals
Mappers == [connected : BOOLEAN, base_size : Sizes \cup {None}, pending_cursor : Cursors]

\* The events out, for a host that has a session when up: every cursor event finds
\* one, and so does whatever follows a mapper that is connected.
Continues(mapper, out, up) ==
    /\ mapper \in Mappers
    /\ out \in Seq(Outputs)
    /\ \A i \in 1..Len(out) : out[i] \in CursorEvents => Inside(out, up, i)
    /\ mapper.connected => Inside(out, up, Len(out) + 1)

\* A frame or a delta is no control.
LEMMA VisualKinds ==
    ASSUME NEW e \in Visuals
    PROVE  /\ e.kind \in {"FrameBgraBytes", "FrameBgraRects"}
           /\ e \notin Controls /\ e \notin Barriers /\ e \notin Connecteds /\ e \notin CursorEvents
<1>1. e.kind \in {"FrameBgraBytes", "FrameBgraRects"}
  BY DEF Visuals
<1>2. e \notin Controls
  BY <1>1, VisualsApart
<1> QED
  BY <1>1, <1>2, KindsApart

\* An empty outbox: the mapper is connected only when the host will be.
LEMMA NothingContinues ==
    ASSUME NEW mapper \in Mappers, NEW up, mapper.connected => up
    PROVE  Continues(mapper, <<>>, up)
<1>1. <<>> \in Seq(Outputs) /\ Len(<<>>) = 0 /\ 0 + 1 = 1
  BY EmptySeq
<1>2. \A i \in 1..Len(<<>>) : FALSE
  BY <1>1
<1>3. mapper.connected => Inside(<<>>, up, 1)
  BY InsideStart
<1>4. mapper.connected => Inside(<<>>, up, Len(<<>>) + 1)
  BY <1>1, <1>3
<1> QED
  BY <1>1, <1>2, <1>4 DEF Continues

\* The converse: what an empty outbox says of the mapper.
LEMMA ContinuedByNothing ==
    ASSUME NEW mapper, NEW up, Continues(mapper, <<>>, up)
    PROVE  mapper \in Mappers /\ (mapper.connected => up)
<1>1. Len(<<>>) + 1 = 1
  BY EmptySeq
<1>2. mapper.connected => Inside(<<>>, up, 1)
  BY <1>1 DEF Continues
<1> QED
  BY <1>2, InsideFirst DEF Continues

\* A list of one output.
LEMMA OneEvent ==
    ASSUME NEW e \in Outputs
    PROVE  /\ <<e>> \in Seq(Outputs) /\ Len(<<e>>) = 1 /\ <<e>>[1] = e
           /\ <<e>> # <<>> /\ Head(<<e>>) = e /\ Tail(<<e>>) = <<>>
  OBVIOUS

\* After one event the host is where that event leaves it.
LEMMA OneEventInside ==
    ASSUME NEW e \in Outputs, NEW up, Reading(e, up)
    PROVE  Inside(<<e>>, up, 2)
<1> DEFINE q == <<e>>
<1>1. q[1] = e
  BY OneEvent
<1> HIDE DEF q
<1>2. 2 - 1 = 1 /\ 1 \in 1..1 /\ \A b \in 1..1 : b = 1
  OBVIOUS
<1>3. e \notin Barriers
  BY KindsApart DEF Reading
<1>4. up \/ e \in Connecteds
  BY DEF Reading
<1> QED
  BY <1>1, <1>2, <1>3, <1>4 DEF Inside, q

\* One output of a mapper that is connected only if the host is after it.
LEMMA OneEventContinues ==
    ASSUME NEW mapper \in Mappers, NEW e \in Outputs, NEW up, e \in CursorEvents => up,
           mapper.connected => Reading(e, up)
    PROVE  Continues(mapper, <<e>>, up)
<1>1. <<e>> \in Seq(Outputs) /\ Len(<<e>>) = 1 /\ <<e>>[1] = e /\ 1 + 1 = 2
  BY OneEvent
<1>2. mapper.connected => Inside(<<e>>, up, 2)
  BY OneEventInside
<1>3. mapper.connected => Inside(<<e>>, up, Len(<<e>>) + 1)
  BY <1>1, <1>2
<1>4. e \in CursorEvents => Inside(<<e>>, up, 1)
  BY InsideStart
<1>5. \A i \in 1..Len(<<e>>) : i = 1
  BY <1>1
<1>6. \A i \in 1..Len(<<e>>) : <<e>>[i] \in CursorEvents => Inside(<<e>>, up, i)
  BY <1>1, <1>4, <1>5
<1> QED
  BY <1>1, <1>3, <1>6 DEF Continues

\* A host that is inside more often only helps.
LEMMA ContinuesWeaker ==
    ASSUME NEW mapper, NEW q, NEW up, NEW now, up => now, Continues(mapper, q, up)
    PROVE  Continues(mapper, q, now)
<1>1. \A i : Inside(q, up, i) => Inside(q, now, i)
  BY InsideWeaker
<1> QED
  BY <1>1 DEF Continues

\* The host after the events of s.
HavingRead(s, up) == Inside(s, up, Len(s) + 1)

\* What the mapper emits next continues what it emitted before.
LEMMA ContinuesConcat ==
    ASSUME NEW first, NEW mapper, NEW s, NEW t, NEW up,
           Continues(first, s, up), Continues(mapper, t, HavingRead(s, up))
    PROVE  Continues(mapper, s \o t, up)
<1> DEFINE mid == HavingRead(s, up)
           r == s \o t
           n == Len(s)
<1>1. s \in Seq(Outputs) /\ t \in Seq(Outputs) /\ mapper \in Mappers
  BY DEF Continues
<1>2. mid => Inside(s, up, Len(s) + 1)
  BY DEF HavingRead
<1>3. /\ \A i \in 1..Len(s) : s[i] \in CursorEvents => Inside(s, up, i)
      /\ \A i \in 1..Len(t) : t[i] \in CursorEvents => Inside(t, mid, i)
      /\ mapper.connected => Inside(t, mid, Len(t) + 1)
  BY DEF Continues
<1> HIDE DEF mid
<1>4. /\ \A i \in 1..(Len(s) + 1) : Inside(s, up, i) => Inside(r, up, i)
      /\ \A j \in 1..(Len(t) + 1) : Inside(t, mid, j) => Inside(r, up, Len(s) + j)
  BY <1>1, <1>2, InsideConcat
<1>5. /\ r \in Seq(Outputs) /\ n \in Nat /\ Len(t) \in Nat /\ Len(r) = n + Len(t)
      /\ \A i \in 1..n : r[i] = s[i]
      /\ \A j \in 1..Len(t) : r[n + j] = t[j]
  BY <1>1, ConcatProperties, LenProperties
<1> HIDE DEF r, n
<1>6. ASSUME NEW i \in 1..Len(r), r[i] \in CursorEvents
      PROVE  Inside(r, up, i)
  <2>1. CASE i \in 1..n
    <3>1. i \in 1..Len(s) /\ i \in 1..(Len(s) + 1) /\ s[i] \in CursorEvents
      BY <1>5, <1>6, <2>1 DEF n
    <3> QED
      BY <1>3, <1>4, <3>1
  <2>2. CASE i \notin 1..n
    <3> DEFINE j == i - n
    <3>1. j \in 1..Len(t) /\ j \in 1..(Len(t) + 1) /\ n + j = i
      BY <1>5, <2>2
    <3> HIDE DEF j
    <3>2. t[j] \in CursorEvents
      BY <1>5, <1>6, <3>1
    <3>3. Inside(r, up, Len(s) + j)
      BY <1>3, <1>4, <3>1, <3>2
    <3> QED
      BY <3>1, <3>3 DEF n
  <2> QED
    BY <2>1, <2>2
<1>7. ASSUME mapper.connected
      PROVE  Inside(r, up, Len(r) + 1)
  <2>1. Len(t) + 1 \in 1..(Len(t) + 1) /\ n + (Len(t) + 1) = Len(r) + 1
    BY <1>5
  <2>2. Inside(r, up, Len(s) + (Len(t) + 1))
    BY <1>3, <1>4, <1>7, <2>1
  <2> QED
    BY <2>1, <2>2 DEF n
<1> QED
  BY <1>1, <1>5, <1>6, <1>7 DEF Continues, r

\* The first event is sent; what remains continues for a host that has read it.
LEMMA ContinuesTail ==
    ASSUME NEW mapper, NEW q, NEW up, Continues(mapper, q, up), q # <<>>
    PROVE  /\ Head(q) \in Outputs
           /\ Head(q) \in CursorEvents => up
           /\ Continues(mapper, Tail(q), Reading(Head(q), up))
<1> DEFINE now == Reading(Head(q), up)
           r == Tail(q)
<1>1. q \in Seq(Outputs) /\ mapper \in Mappers
  BY DEF Continues
<1>2. /\ Len(q) \in Nat /\ Len(q) # 0 /\ Len(r) = Len(q) - 1 /\ Head(q) = q[1]
      /\ Head(q) \in Outputs /\ r \in Seq(Outputs)
      /\ \A i \in 1..Len(r) : r[i] = q[i + 1]
  BY <1>1, HeadTailProperties, LenProperties, EmptySeq
<1>3. ASSUME Head(q) \in CursorEvents
      PROVE  up
  <2>1. 1 \in 1..Len(q) /\ q[1] \in CursorEvents
    BY <1>2, <1>3
  <2>2. Inside(q, up, 1)
    BY <2>1 DEF Continues
  <2> QED
    BY <2>2, InsideFirst
<1>4. \A i \in 1..(Len(r) + 1) : Inside(q, up, i + 1) => Inside(r, now, i)
  BY <1>1, InsideTail
<1> HIDE DEF r, now
<1>5. ASSUME NEW i \in 1..Len(r), r[i] \in CursorEvents
      PROVE  Inside(r, now, i)
  <2>1. i + 1 \in 1..Len(q) /\ i \in 1..(Len(r) + 1)
    BY <1>2
  <2>2. q[i + 1] \in CursorEvents
    BY <1>2, <1>5
  <2>3. Inside(q, up, i + 1)
    BY <2>1, <2>2 DEF Continues
  <2> QED
    BY <1>4, <2>1, <2>3
<1>6. ASSUME mapper.connected
      PROVE  Inside(r, now, Len(r) + 1)
  <2>1. Len(r) + 1 \in 1..(Len(r) + 1) /\ (Len(r) + 1) + 1 = Len(q) + 1
    BY <1>2
  <2>2. Inside(q, up, (Len(r) + 1) + 1)
    BY <1>6, <2>1 DEF Continues
  <2> QED
    BY <1>4, <2>1, <2>2
<1>7. Continues(mapper, r, now)
  BY <1>1, <1>2, <1>5, <1>6 DEF Continues
<1> QED
  BY <1>2, <1>3, <1>7 DEF r, now
\* A complete frame is an output.
LEMMA FrameTyped ==
    ASSUME NEW size \in Sizes, NEW picture \in PixelMaps
    PROVE  Frame(size, picture) \in Visuals
  BY DEF Frame, Visuals

\* The mapper of a new client is typed, not connected, and holds no cursor.
LEMMA NewMapperTyped ==
    /\ NewMapper \in Mappers /\ ~NewMapper.connected
    /\ NoCursor \in Cursors
  BY DEF NewMapper, NoCursor, Mappers, Cursors

\* The cursor that was held back, as events.
LEMMA HeldBack ==
    ASSUME NEW cursor \in Cursors
    PROVE  /\ OptionSeq(cursor.appearance) \in Seq(Outputs \ Barriers)
           /\ OptionSeq(cursor.position) \in Seq(Outputs \ Barriers)
<1>1. /\ cursor.appearance \in Appearances \cup {None}
      /\ cursor.position \in Positions \cup {None}
  BY DEF Cursors
<1>2. Appearances \cup Positions \subseteq Outputs \ Barriers
  BY KindsApart DEF CursorEvents, Outputs
<1>3. <<>> \in Seq(Outputs \ Barriers)
  BY EmptySeq
<1>4. \A e \in Outputs \ Barriers : <<e>> \in Seq(Outputs \ Barriers)
  OBVIOUS
<1> QED
  BY <1>1, <1>2, <1>3, <1>4 DEF OptionSeq

\* Connected, the cursor and the base frame, in this order: no cursor event comes
\* before Connected.
LEMMA BaseFrameContinues ==
    ASSUME NEW mapper \in Mappers, NEW size \in Sizes, NEW picture \in PixelMaps,
           NEW up, mapper.connected => up
    PROVE  Continues(MapBaseFrame(mapper, size, picture).mapper,
                     MapBaseFrame(mapper, size, picture).out, up)
<1> DEFINE next == [connected |-> TRUE, base_size |-> size, pending_cursor |-> NoCursor]
           frame == Frame(size, picture)
           conn == [kind |-> "Connected", size |-> size]
           a == OptionSeq(mapper.pending_cursor.appearance)
           p == OptionSeq(mapper.pending_cursor.position)
           S == Outputs \ Barriers
<1>1. next \in Mappers
  BY NewMapperTyped DEF Mappers
<1>2. frame \in Visuals /\ frame \in S
  BY FrameTyped, VisualKinds DEF Outputs
<1>3. conn \in Connecteds /\ conn \in S
  BY KindsApart DEF Connecteds, Outputs
<1>4. a \in Seq(S) /\ p \in Seq(S)
  <2>1. mapper.pending_cursor \in Cursors
    BY DEF Mappers
  <2> QED
    BY <2>1, HeldBack
<1> HIDE DEF next, frame, conn, a, p, S
<1>5. CASE mapper.connected
  <2>1. /\ MapBaseFrame(mapper, size, picture).mapper = next
        /\ MapBaseFrame(mapper, size, picture).out = Append(<<>>, frame)
    BY <1>5 DEF MapBaseFrame, Mapped, next, frame
  <2>2. Append(<<>>, frame) = <<frame>>
    OBVIOUS
  <2>3. frame \in Outputs /\ frame \notin CursorEvents /\ Reading(frame, up)
    BY <1>2, <1>5, VisualKinds DEF Outputs, Reading
  <2>4. Continues(next, <<frame>>, up)
    BY <1>1, <2>3, OneEventContinues
  <2> QED
    BY <2>1, <2>2, <2>4
<1>6. CASE ~mapper.connected
  <2> DEFINE out == Append((<<conn>> \o a) \o p, frame)
  <2>1. /\ MapBaseFrame(mapper, size, picture).mapper = next
        /\ MapBaseFrame(mapper, size, picture).out = out
    BY <1>6 DEF MapBaseFrame, Mapped, next, frame, conn, a, p
  <2>2. <<conn>> \in Seq(S) /\ Len(<<conn>>) = 1 /\ <<conn>>[1] = conn
    BY <1>3
  <2>3. <<conn>> \o a \in Seq(S) /\ Len(<<conn>> \o a) >= 1 /\ (<<conn>> \o a)[1] = conn
        /\ Len(<<conn>> \o a) \in Nat
    BY <1>4, <2>2, ConcatProperties, LenProperties
  <2>4. /\ (<<conn>> \o a) \o p \in Seq(S) /\ Len((<<conn>> \o a) \o p) >= 1
        /\ ((<<conn>> \o a) \o p)[1] = conn /\ Len((<<conn>> \o a) \o p) \in Nat
    BY <1>4, <2>3, ConcatProperties, LenProperties
  <2>5. out \in Seq(S) /\ Len(out) \in Nat /\ Len(out) >= 2 /\ out[1] = conn
    BY <1>2, <2>4, AppendProperties, LenProperties
  <2> HIDE DEF out
  <2>6. out \in Seq(Outputs) /\ \A i \in 1..Len(out) : out[i] \notin Barriers
    BY <2>5, SeqMonotonic, ElementOfSeq DEF S
  <2>7. ASSUME NEW i \in 2..(Len(out) + 1)
        PROVE  Inside(out, up, i)
    <3>1. 1 \in 1..(i - 1) /\ \A b \in 1..(i - 1) : b \in 1..Len(out)
      BY <2>5
    <3>2. out[1] \in Connecteds
      BY <1>3, <2>5
    <3> QED
      BY <2>6, <3>1, <3>2 DEF Inside
  <2>8. ASSUME NEW i \in 1..Len(out), out[i] \in CursorEvents
        PROVE  Inside(out, up, i)
    <3>1. i # 1
      BY <1>3, <2>5, <2>8, KindsApart
    <3>2. i \in 2..(Len(out) + 1)
      BY <2>5, <3>1
    <3> QED
      BY <2>7, <3>2
  <2>9. Len(out) + 1 \in 2..(Len(out) + 1)
    BY <2>5
  <2> QED
    BY <1>1, <2>1, <2>6, <2>7, <2>8, <2>9 DEF Continues
<1> QED
  BY <1>5, <1>6

\* map_region announces the session before anything else it emits.
LEMMA RegionContinues ==
    ASSUME NEW mapper \in Mappers, NEW size \in Sizes,
           NEW entry \in [rect : Rects, pixels : PixelMaps],
           NEW up, mapper.connected => up
    PROVE  Continues(MapRegion(mapper, size, entry).mapper, MapRegion(mapper, size, entry).out, up)
<1>1. CASE entry.rect = Screen(size)
  <2>1. MapRegion(mapper, size, entry) = MapBaseFrame(mapper, size, entry.pixels)
    BY <1>1 DEF MapRegion
  <2>2. entry.pixels \in PixelMaps
    OBVIOUS
  <2> QED
    BY <2>1, <2>2, BaseFrameContinues
<1>2. CASE entry.rect # Screen(size) /\ (~mapper.connected \/ mapper.base_size # size)
  <2>1. /\ MapRegion(mapper, size, entry).mapper = mapper
        /\ MapRegion(mapper, size, entry).out = <<>>
    BY <1>2 DEF MapRegion, Mapped
  <2> QED
    BY <2>1, NothingContinues
<1>3. CASE entry.rect # Screen(size) /\ ~(~mapper.connected \/ mapper.base_size # size)
  <2> DEFINE delta == Delta(size, <<entry>>)
  <2>1. /\ MapRegion(mapper, size, entry).mapper = mapper
        /\ MapRegion(mapper, size, entry).out = <<delta>>
    BY <1>3 DEF MapRegion, Mapped
  <2>2. <<entry>> \in Seq([rect : Rects, pixels : PixelMaps])
    OBVIOUS
  <2>3. delta \in Visuals
    BY <2>2 DEF Delta, Visuals
  <2> HIDE DEF delta
  <2>4. delta \in Outputs /\ delta \notin CursorEvents /\ Reading(delta, up)
    BY <1>3, <2>3, VisualKinds DEF Outputs, Reading
  <2> QED
    BY <2>1, <2>4, OneEventContinues
<1> QED
  BY <1>1, <1>2, <1>3

\* map_cursor holds a cursor back until the session is announced.
LEMMA CursorContinues ==
    ASSUME NEW mapper \in Mappers, NEW event \in CursorEvents, NEW up, mapper.connected => up
    PROVE  Continues(map_cursor(mapper, event).mapper, map_cursor(mapper, event).out, up)
<1>1. CASE mapper.connected
  <2>1. /\ map_cursor(mapper, event).mapper = mapper
        /\ map_cursor(mapper, event).out = <<event>>
    BY <1>1 DEF map_cursor, Mapped
  <2>2. event \in Outputs /\ Reading(event, up)
    BY <1>1, KindsApart DEF Outputs, Reading
  <2> QED
    BY <1>1, <2>1, <2>2, OneEventContinues
<1>2. CASE ~mapper.connected
  <2> DEFINE next == [mapper EXCEPT !.pending_cursor = RecordCursor(mapper.pending_cursor, event)]
  <2>1. map_cursor(mapper, event).mapper = next /\ map_cursor(mapper, event).out = <<>>
    BY <1>2 DEF map_cursor, Mapped
  <2>2. mapper.pending_cursor \in Cursors
    BY DEF Mappers
  <2>3. RecordCursor(mapper.pending_cursor, event) \in Cursors
    BY <2>2 DEF RecordCursor, Cursors, CursorEvents
  <2>4. next \in Mappers /\ ~next.connected
    BY <1>2, <2>3 DEF Mappers
  <2> HIDE DEF next
  <2> QED
    BY <2>1, <2>4, NothingContinues
<1> QED
  BY <1>1, <1>2
-------------------------------------------------------------------------------
(* The mailbox and the writer. *)

\* The host has a session once it has what the writer holds ...
Up == Reading(hand, host_session)

\* ... and once it has all that the mailbox holds.
Ahead == receiver_alive => Inside(control, Up, Len(control) + 1)

\* Every cursor event on its way, in the writer's hand, in the mailbox and in the outbox,
\* finds an open session when it arrives; a connected mapper will find one too.
InsideInv ==
    /\ control \in Seq(Controls)
    /\ latest_frame = None \/ latest_frame.kind = "FrameBgraBytes"
    /\ pending_image = None
         \/ (pending_image.size \in Sizes /\ pending_image.pixels \in PixelMaps)
    /\ CursorsStayInsideSession
    /\ \A i \in 1..Len(control) : control[i] \in CursorEvents => Inside(control, Up, i)
    /\ Continues(output_mapper, outbox, Ahead)
    /\ client = "starting" => pending_image = None /\ ~output_mapper.connected

\* At the start nothing is queued and no session is announced.
LEMMA InsideInit == Init => InsideInv
<1> SUFFICES ASSUME Init PROVE InsideInv
  OBVIOUS
<1>1. /\ control = <<>> /\ latest_frame = None /\ pending_image = None /\ hand = None
      /\ output_mapper = NewMapper /\ outbox = <<>>
  BY DEF Init, output_mailbox
<1>2. control \in Seq(Controls) /\ \A i \in 1..Len(control) : FALSE
  BY <1>1, EmptySeq
<1>3. CursorsStayInsideSession
  BY <1>1, KindsApart DEF CursorsStayInsideSession
<1>4. Continues(output_mapper, outbox, Ahead)
  BY <1>1, NewMapperTyped, NothingContinues
<1> QED
  BY <1>1, <1>2, <1>3, <1>4, NewMapperTyped DEF InsideInv

\* The part of a mailbox that send leaves: the cursor events in it still find their
\* session, and the host that reads it is where the event leaves it.
SentInside(event) ==
    /\ control' \in Seq(Controls)
    /\ latest_frame' = None \/ latest_frame'.kind = "FrameBgraBytes"
    /\ \A i \in 1..Len(control') : control'[i] \in CursorEvents => Inside(control', Up, i)
    /\ Reading(event, Ahead) => Inside(control', Up, Len(control') + 1)

\* An event is put at the end of the control queue.
LEMMA AppendInside ==
    ASSUME NEW q \in Seq(Controls), NEW c \in Controls, NEW up,
           \A i \in 1..Len(q) : q[i] \in CursorEvents => Inside(q, up, i),
           c \in CursorEvents => Inside(q, up, Len(q) + 1)
    PROVE  /\ Append(q, c) \in Seq(Controls)
           /\ \A i \in 1..Len(Append(q, c)) :
                 Append(q, c)[i] \in CursorEvents => Inside(Append(q, c), up, i)
           /\ Reading(c, Inside(q, up, Len(q) + 1)) => Inside(Append(q, c), up, Len(Append(q, c)) + 1)
<1> DEFINE r == Append(q, c)
           n == Len(q)
           t == <<c>>
           mid == Inside(q, up, n + 1)
<1>1. /\ r \in Seq(Controls) /\ n \in Nat /\ Len(r) = n + 1 /\ r[n + 1] = c
      /\ \A i \in 1..n : r[i] = q[i]
  BY AppendProperties, LenProperties
<1>2. t \in Seq(Controls) /\ Len(t) = 1 /\ r = q \o t
  OBVIOUS
<1>3. mid => Inside(q, up, Len(q) + 1)
  OBVIOUS
<1>4. c \in Outputs
  BY DEF Outputs
<1>5. Reading(c, mid) => Inside(t, mid, 2)
  BY <1>4, OneEventInside
<1> HIDE DEF mid, t
<1>6. /\ \A i \in 1..(Len(q) + 1) : Inside(q, up, i) => Inside(q \o t, up, i)
      /\ \A j \in 1..(Len(t) + 1) : Inside(t, mid, j) => Inside(q \o t, up, Len(q) + j)
  BY <1>2, <1>3, InsideConcat
<1>7. Reading(c, mid) => Inside(r, up, Len(r) + 1)
  <2>1. 2 \in 1..(Len(t) + 1) /\ Len(q) + 2 = Len(r) + 1
    BY <1>1, <1>2
  <2> QED
    BY <1>2, <1>5, <1>6, <2>1
<1>8. ASSUME NEW i \in 1..Len(r), r[i] \in CursorEvents
      PROVE  Inside(r, up, i)
  <2>1. i \in 1..(Len(q) + 1)
    BY <1>1
  <2>2. CASE i = n + 1
    <3>1. Inside(q, up, i)
      BY <1>1, <1>8, <2>2
    <3> QED
      BY <1>2, <1>6, <2>1, <3>1
  <2>3. CASE i # n + 1
    <3>1. i \in 1..Len(q) /\ q[i] \in CursorEvents
      BY <1>1, <1>8, <2>1, <2>3
    <3> QED
      BY <1>2, <1>6, <2>1, <3>1
  <2> QED
    BY <2>2, <2>3
<1> QED
  BY <1>1, <1>7, <1>8 DEF r, n, mid

\* A queue that differs from another only in which cursor events it holds.
LEMMA InsideSimilar ==
    ASSUME NEW q, NEW r, NEW i, NEW up,
           \A k \in 1..(i - 1) : r[k] = q[k] \/ (r[k] \in CursorEvents /\ q[k] \in CursorEvents),
           Inside(q, up, i)
    PROVE  Inside(r, up, i)
<1>1. \A b \in 1..(i - 1) : \A k \in (b + 1)..(i - 1) : k \in 1..(i - 1)
  OBVIOUS
<1>2. \A k \in 1..(i - 1) : /\ r[k] \in Barriers => q[k] \in Barriers
                            /\ q[k] \in Connecteds => r[k] \in Connecteds
  BY KindsApart
<1> QED
  BY <1>1, <1>2 DEF Inside
\* The arithmetic of a queue that loses its last event.
LEMMA FrontLength ==
    ASSUME NEW n \in Nat, n # 0
    PROVE  (IF 1 =< n - 1 THEN (n - 1) - 1 + 1 ELSE 0) = n - 1
  OBVIOUS

\* Replacing the last cursor event by a newer one.
LEMMA CoalescedQueue ==
    ASSUME NEW q \in Seq(Controls), q # <<>>, NEW c \in CursorEvents, Last(q) \in CursorEvents
    PROVE  /\ Append(Front(q), c) \in Seq(Controls)
           /\ Len(Append(Front(q), c)) = Len(q)
           /\ \A k \in 1..Len(q) : \/ Append(Front(q), c)[k] = q[k]
                                   \/ Append(Front(q), c)[k] \in CursorEvents /\ q[k] \in CursorEvents
<1> DEFINE n == Len(q)
           f == Front(q)
           r == Append(f, c)
<1>1. n \in Nat /\ n # 0 /\ \A k \in 1..n : q[k] \in Controls
  BY EmptySeq, LenProperties, ElementOfSeq
<1>2. c \in Controls
  BY KindsApart
<1>3. \A k \in 1..(n - 1) : q[k] \in Controls
  BY <1>1
<1>4. /\ f \in Seq(Controls) /\ Len(f) = n - 1
      /\ \A k \in 1..(n - 1) : f[k] = q[k]
  <2>1. /\ SubSeq(q, 1, n - 1) \in Seq(Controls)
        /\ Len(SubSeq(q, 1, n - 1)) = IF 1 =< n - 1 THEN (n - 1) - 1 + 1 ELSE 0
        /\ \A k \in 1..((n - 1) - 1 + 1) : SubSeq(q, 1, n - 1)[k] = q[1 + k - 1]
    BY <1>1, <1>3, SubSeqProperties
  <2>2. f = SubSeq(q, 1, n - 1)
    BY DEF Front
  <2>3. \A k \in 1..(n - 1) : k \in 1..((n - 1) - 1 + 1) /\ 1 + k - 1 = k
    BY <1>1
  <2>4. \A k \in 1..(n - 1) : f[k] = q[k]
    BY <2>1, <2>2, <2>3
  <2>5. Len(f) = n - 1
    <3>1. (IF 1 =< n - 1 THEN (n - 1) - 1 + 1 ELSE 0) = n - 1
      BY <1>1, FrontLength
    <3> QED
      BY <2>1, <2>2, <3>1
  <2> QED
    BY <2>1, <2>2, <2>4, <2>5
<1> HIDE DEF f
<1>5. /\ r \in Seq(Controls) /\ Len(r) = n /\ r[n] = c
      /\ \A k \in 1..(n - 1) : r[k] = q[k]
  BY <1>1, <1>2, <1>4, AppendProperties
<1>6. q[n] \in CursorEvents
  BY DEF Last
<1>7. \A k \in 1..n : k = n \/ k \in 1..(n - 1)
  BY <1>1
<1> QED
  BY <1>5, <1>6, <1>7 DEF f

\* push_control, with its coalescing and its barriers, keeps cursor events inside.
LEMMA EnqueueInside ==
    ASSUME InsideInv, receiver_alive, UNCHANGED <<hand, host_session>>, NEW event,
           SendControl(event), event \in CursorEvents => Ahead
    PROVE  SentInside(event)
<1> DEFINE q == control
           up == Up
<1>1. /\ q \in Seq(Controls) /\ latest_frame' = latest_frame
      /\ latest_frame = None \/ latest_frame.kind = "FrameBgraBytes"
      /\ \A i \in 1..Len(q) : q[i] \in CursorEvents => Inside(q, up, i)
  BY DEF InsideInv, SendControl, visuals
<1>2. event \in CursorEvents \cup Connecteds \cup ClipboardEvents /\ event \in Controls
  BY KindsApart DEF SendControl
<1>3. Ahead <=> Inside(q, up, Len(q) + 1)
  BY DEF Ahead
<1>4. CASE /\ q # <<>> /\ event.kind \in {"CursorPosition", "CursorRgbaBytes"}
           /\ Last(q).kind = event.kind
  <2> DEFINE r == Append(Front(q), event)
  <2>1. control' = r
    BY <1>4 DEF SendControl, enqueue_control
  <2>2. \A e \in Controls : e.kind \in {"CursorPosition", "CursorRgbaBytes"} => e \in CursorEvents
    BY DEF Controls, CursorEvents, Appearances, Positions, Terminals, Reconnectings, Connecteds,
           ClipboardEvents
  <2>3. Last(q) \in Controls
    <3>1. Len(q) \in 1..Len(q)
      BY <1>1, <1>4, EmptySeq
    <3> QED
      BY <1>1, <3>1, ElementOfSeq DEF Last
  <2>4. event \in CursorEvents /\ Last(q) \in CursorEvents
    BY <1>2, <1>4, <2>2, <2>3
  <2>5. /\ r \in Seq(Controls) /\ Len(r) = Len(q)
        /\ \A k \in 1..Len(q) : r[k] = q[k] \/ (r[k] \in CursorEvents /\ q[k] \in CursorEvents)
    BY <1>1, <1>4, <2>4, CoalescedQueue
  <2> HIDE DEF r
  <2>6. Len(q) \in Nat
    BY <1>1, LenProperties
  <2>7. ASSUME NEW i \in 1..(Len(q) + 1), Inside(q, up, i)
        PROVE  Inside(r, up, i)
    <3>1. \A k \in 1..(i - 1) : k \in 1..Len(q)
      BY <2>6
    <3> QED
      BY <2>5, <2>7, <3>1, InsideSimilar
  <2>8. ASSUME NEW i \in 1..Len(r), r[i] \in CursorEvents
        PROVE  Inside(r, up, i)
    <3>1. i \in 1..Len(q) /\ i \in 1..(Len(q) + 1)
      BY <2>5, <2>6
    <3>2. q[i] \in CursorEvents
      BY <2>5, <2>8, <3>1
    <3> QED
      BY <1>1, <2>7, <3>1, <3>2
  <2>9. Inside(r, up, Len(r) + 1)
    <3>1. Len(q) + 1 \in 1..(Len(q) + 1)
      BY <2>6
    <3>2. Inside(q, up, Len(q) + 1)
      BY <1>3, <2>4
    <3> QED
      BY <2>5, <2>7, <3>1, <3>2
  <2> QED
    BY <1>1, <2>1, <2>5, <2>8, <2>9 DEF SentInside
<1>5. CASE ~(/\ q # <<>> /\ event.kind \in {"CursorPosition", "CursorRgbaBytes"}
             /\ Last(q).kind = event.kind)
  <2>1. control' = Append(q, event)
    BY <1>5 DEF SendControl, enqueue_control
  <2>2. event \in CursorEvents => Inside(q, up, Len(q) + 1)
    BY <1>3
  <2> HIDE DEF up, q
  <2>3. /\ control' \in Seq(Controls)
        /\ \A i \in 1..Len(control') : control'[i] \in CursorEvents => Inside(control', up, i)
        /\ Reading(event, Inside(q, up, Len(q) + 1)) => Inside(control', up, Len(control') + 1)
    BY <1>1, <1>2, <2>1, <2>2, AppendInside
  <2>4. Reading(event, Ahead) => Reading(event, Inside(q, up, Len(q) + 1))
    BY <1>3 DEF Reading
  <2> QED
    BY <1>1, <2>3, <2>4 DEF SentInside, up
<1> QED
  BY <1>4, <1>5

\* The end of a session: no cursor event is left in the queue.
LEMMA BarrierInside ==
    ASSUME InsideInv, NEW event \in Barriers, SendTerminal(event) \/ SendReconnecting(event)
    PROVE  SentInside(event)
<1> DEFINE w == Without(control, CursorEvents)
<1>1. control' = Append(w, event)
  BY DEF SendTerminal, SendReconnecting, discard_pending_cursor_events
<1>2. w \in Seq(Controls \ CursorEvents)
  BY WithoutProperties DEF InsideInv
<1>3. event \in Controls \ CursorEvents
  BY KindsApart
<1>4. control' \in Seq(Controls \ CursorEvents)
  BY <1>1, <1>2, <1>3, AppendProperties
<1>5. control' \in Seq(Controls) /\ \A i \in 1..Len(control') : control'[i] \notin CursorEvents
  BY <1>4, SeqMonotonic, ElementOfSeq
<1>6. ~Reading(event, Ahead)
  BY KindsApart DEF Reading
<1>7. latest_frame' = None \/ latest_frame' = latest_frame
  BY DEF SendTerminal, SendReconnecting, visuals
<1> QED
  BY <1>5, <1>6, <1>7 DEF SentInside, InsideInv

\* send keeps cursor events inside, for controls, frames and deltas.
LEMMA SendInside ==
    ASSUME InsideInv, UNCHANGED <<hand, host_session>>, NEW event \in Outputs,
           send(event), event \in CursorEvents => Ahead
    PROVE  SentInside(event)
<1>1. receiver_alive
  BY DEF send
<1>2. CASE SendFrame(event) \/ SendDelta(event)
  <2>1. event.kind \in {"FrameBgraBytes", "FrameBgraRects"} /\ control' = control
    BY <1>2 DEF SendFrame, SendDelta
  <2>2. event \notin Connecteds
    BY <2>1, VisualsApart, KindsApart
  <2>3. Reading(event, Ahead) => Inside(control, Up, Len(control) + 1)
    BY <1>1, <2>2 DEF Reading, Ahead
  <2>4. latest_frame' = latest_frame \/ latest_frame'.kind = "FrameBgraBytes"
    BY <1>2 DEF SendFrame, SendDelta
  <2> QED
    BY <2>1, <2>3, <2>4 DEF SentInside, InsideInv
<1>3. CASE SendTerminal(event) \/ SendReconnecting(event)
  <2>1. event \in Barriers
    BY <1>3 DEF SendTerminal, SendReconnecting, Barriers
  <2> QED
    BY <1>3, <2>1, BarrierInside
<1>4. CASE SendControl(event)
  BY <1>1, <1>4, EnqueueInside
<1> QED
  BY <1>2, <1>3, <1>4 DEF send
\* Steps of the output task that leave mailbox and writer alone.
LEMMA InsideMapped ==
    ASSUME InsideInv, UNCHANGED <<control, latest_frame, hand, host_session, receiver_alive>>,
           Continues(output_mapper', outbox', Ahead),
           \/ pending_image' = None \/ pending_image' = pending_image
           \/ pending_image'.size \in Sizes /\ pending_image'.pixels \in PixelMaps,
           client' = "starting" => pending_image' = None /\ ~output_mapper'.connected
    PROVE  InsideInv'
<1>1. Up' = Up /\ Ahead' = Ahead
  BY DEF Up, Ahead
<1> QED
  BY <1>1 DEF InsideInv, CursorsStayInsideSession

\* What flush_pending_image sends continues what was sent before.
LEMMA FlushedContinues ==
    ASSUME InsideInv, outbox = <<>>
    PROVE  Continues(Flushed.mapper, Flushed.out, Ahead)
<1>1. output_mapper \in Mappers /\ (output_mapper.connected => Ahead)
  BY ContinuedByNothing DEF InsideInv
<1>2. CASE pending_image = None
  <2>1. Flushed.mapper = output_mapper /\ Flushed.out = <<>>
    BY <1>2 DEF Flushed, Mapped
  <2> QED
    BY <1>1, <2>1, NothingContinues
<1>3. CASE pending_image # None
  <2>1. pending_image.size \in Sizes /\ pending_image.pixels \in PixelMaps
    BY <1>3 DEF InsideInv
  <2>2. Flushed = MapBaseFrame(output_mapper, pending_image.size, pending_image.pixels)
    BY <1>3 DEF Flushed
  <2> QED
    BY <1>1, <2>1, <2>2, BaseFrameContinues
<1> QED
  BY <1>2, <1>3

\* Flushing the image that waits, and mapping an event behind it, in one step.
LEMMA FlushInside ==
    ASSUME InsideInv, outbox = <<>>, NEW mapped, FlushAndPublish(mapped),
           Continues(mapped.mapper, mapped.out, HavingRead(Flushed.out, Ahead)),
           UNCHANGED <<control, latest_frame, hand, host_session, receiver_alive>>,
           client' = "starting" => ~mapped.mapper.connected
    PROVE  InsideInv'
<1>1. /\ output_mapper' = mapped.mapper /\ outbox' = Flushed.out \o mapped.out
      /\ pending_image' = None
  BY DEF FlushAndPublish, ClearSchedule
<1>2. Continues(output_mapper', outbox', Ahead)
  BY <1>1, FlushedContinues, ContinuesConcat
<1> QED
  BY <1>1, <1>2, InsideMapped

\* What follows a flush.
LEMMA AfterFlush ==
    ASSUME InsideInv, outbox = <<>>
    PROVE  /\ Flushed.mapper \in Mappers
           /\ Flushed.mapper.connected => HavingRead(Flushed.out, Ahead)
           /\ client = "starting" => ~Flushed.mapper.connected
<1>1. Continues(Flushed.mapper, Flushed.out, Ahead)
  BY FlushedContinues
<1>2. client = "starting" => Flushed.mapper = output_mapper /\ ~output_mapper.connected
  BY DEF InsideInv, Flushed, Mapped
<1> QED
  BY <1>1, <1>2 DEF Continues, HavingRead

\* A flush and nothing else.
LEMMA FlushOnlyInside ==
    ASSUME InsideInv, outbox = <<>>, FlushAndPublish(Mapped(Flushed.mapper, <<>>)),
           UNCHANGED <<control, latest_frame, hand, host_session, receiver_alive, client>>
    PROVE  InsideInv'
<1> DEFINE mapped == Mapped(Flushed.mapper, <<>>)
<1>1. mapped.mapper = Flushed.mapper /\ mapped.out = <<>>
  BY DEF Mapped
<1>2. Continues(mapped.mapper, mapped.out, HavingRead(Flushed.out, Ahead))
  BY <1>1, AfterFlush, NothingContinues
<1>3. client' = "starting" => ~mapped.mapper.connected
  BY <1>1, AfterFlush
<1> HIDE DEF mapped
<1>4. FlushAndPublish(mapped)
  BY DEF mapped
<1> QED
  BY <1>2, <1>3, <1>4, FlushInside

\* A picture of one colour, of a desktop or of a part of it.
LEMMA PlainPicture ==
    ASSUME NEW r \in Rects, NEW color \in Colors
    PROVE  [c \in Cells(r) |-> color] \in PixelMaps
<1>1. [c \in Cells(r) |-> color] \in [Cells(r) -> Colors]
  OBVIOUS
<1> QED
  BY <1>1 DEF PixelMaps

\* An image from the client only waits.
LEMMA InsideImage ==
    ASSUME InsideInv, NEW size \in Sizes, NEW color \in Colors, Image(size, color)
    PROVE  InsideInv'
<1>1. Screen(size) \in Rects
  BY SizesAreExtents DEF Screen, HelperFrameRect, Rects
<1>2. [c \in Cells(Screen(size)) |-> color] \in PixelMaps
  BY <1>1, PlainPicture
<1>3. /\ pending_image' = [size |-> size, pixels |-> [c \in Cells(Screen(size)) |-> color]]
      /\ client' = "running" /\ output_mapper' = output_mapper /\ outbox' = outbox
      /\ UNCHANGED <<control, latest_frame, hand, host_session, receiver_alive>>
  BY DEF Image, Receives, mailboxVars, threads, hostVars
<1>4. pending_image'.size \in Sizes /\ pending_image'.pixels \in PixelMaps
  BY <1>2, <1>3
<1>5. Continues(output_mapper', outbox', Ahead)
  BY <1>3 DEF InsideInv
<1> QED
  BY <1>3, <1>4, <1>5, InsideMapped

\* A dirty region flushes the image and is mapped behind it.
LEMMA InsideUpdate ==
    ASSUME InsideInv, NEW size \in Sizes, NEW color \in Colors, NEW region \in RegionEvents(size),
           DesktopUpdate(size, region, color)
    PROVE  InsideInv'
<1> DEFINE entry == [rect |-> region, pixels |-> [c \in Cells(region) |-> color]]
           mapped == MapRegion(Flushed.mapper, size, entry)
<1>1. size[1] \in Nat /\ size[2] \in Nat
  BY SizesAreExtents
<1>2. region \in Rects
  BY <1>1 DEF RegionEvents, Rects
<1>3. entry \in [rect : Rects, pixels : PixelMaps]
  BY <1>2, PlainPicture
<1> HIDE DEF entry
<1>4. /\ outbox = <<>> /\ client' = "running" /\ FlushAndPublish(mapped)
      /\ UNCHANGED <<control, latest_frame, hand, host_session, receiver_alive>>
  BY DEF DesktopUpdate, Receives, mailboxVars, threads, hostVars, entry
<1>5. Continues(mapped.mapper, mapped.out, HavingRead(Flushed.out, Ahead))
  BY <1>3, <1>4, AfterFlush, RegionContinues
<1> HIDE DEF mapped
<1> QED
  BY <1>4, <1>5, FlushInside

\* A cursor event is emitted now or held back by the mapper.
LEMMA InsidePointer ==
    ASSUME InsideInv, NEW event \in CursorEvents, Pointer(event)
    PROVE  InsideInv'
<1>1. /\ outbox = <<>> /\ client' = "running" /\ pending_image' = pending_image
      /\ output_mapper' = map_cursor(output_mapper, event).mapper
      /\ outbox' = map_cursor(output_mapper, event).out
      /\ UNCHANGED <<control, latest_frame, hand, host_session, receiver_alive>>
  BY DEF Pointer, Receives, mailboxVars, threads, hostVars, pacing
<1>2. output_mapper \in Mappers /\ (output_mapper.connected => Ahead)
  BY <1>1, ContinuedByNothing DEF InsideInv
<1>3. Continues(output_mapper', outbox', Ahead)
  BY <1>1, <1>2, CursorContinues
<1> QED
  BY <1>1, <1>3, InsideMapped

\* The end of a session is emitted behind the image and resets the mapper.
LEMMA InsideSessionEnd ==
    ASSUME InsideInv, NEW event \in Barriers, SessionEnd(event)
    PROVE  InsideInv'
<1> DEFINE mapped == MapSessionEnd(Flushed.mapper, event)
<1>1. /\ outbox = <<>> /\ client' = "running" /\ FlushAndPublish(mapped)
      /\ UNCHANGED <<control, latest_frame, hand, host_session, receiver_alive>>
  BY DEF SessionEnd, Receives, mailboxVars, threads, hostVars
<1>2. mapped.mapper = NewMapper /\ mapped.out = <<event>>
  BY DEF MapSessionEnd, Mapped
<1>3. event \in Outputs /\ event \notin CursorEvents
  BY KindsApart DEF Outputs
<1>4. Continues(NewMapper, <<event>>, HavingRead(Flushed.out, Ahead))
  BY <1>3, NewMapperTyped, OneEventContinues
<1>5. Continues(mapped.mapper, mapped.out, HavingRead(Flushed.out, Ahead))
  BY <1>2, <1>4
<1> HIDE DEF mapped
<1> QED
  BY <1>1, <1>5, FlushInside
\* The host after an event that changes no session.
LEMMA ReadingOther ==
    ASSUME NEW e, e \notin Barriers, e \notin Connecteds, NEW up
    PROVE  Reading(e, up) <=> up
  BY DEF Reading

\* Sending the first event of the outbox moves it from the mapper's list to the queue.
LEMMA InsidePublish ==
    ASSUME InsideInv, Publish
    PROVE  InsideInv'
<1> DEFINE event == Head(outbox)
<1>1. /\ outbox # <<>> /\ send(event) /\ outbox' = Tail(outbox)
      /\ UNCHANGED <<hand, host_session, output_mapper, pending_image, client>>
      /\ receiver_alive' = receiver_alive
  BY DEF Publish, send, threads, pacing, hostVars
<1>2. Continues(output_mapper, outbox, Ahead)
  BY DEF InsideInv
<1>3. /\ event \in Outputs
      /\ event \in CursorEvents => Ahead
      /\ Continues(output_mapper, Tail(outbox), Reading(event, Ahead))
  BY <1>1, <1>2, ContinuesTail
<1> HIDE DEF event
<1>4. SentInside(event)
  BY <1>1, <1>3, SendInside
<1>5. Up' = Up
  BY <1>1 DEF Up
<1>6. Reading(event, Ahead) => Ahead'
  BY <1>4, <1>5 DEF SentInside, Ahead
<1>7. Continues(output_mapper, Tail(outbox), Ahead')
  BY <1>3, <1>6, ContinuesWeaker
<1>8. CursorsStayInsideSession'
  BY <1>1 DEF InsideInv, CursorsStayInsideSession
<1> QED
  BY <1>1, <1>4, <1>5, <1>7, <1>8 DEF InsideInv, SentInside

\* The clipboard sends beside the output task.
LEMMA InsideClipboard ==
    ASSUME InsideInv, NEW event \in ClipboardEvents, ClipboardEvent(event)
    PROVE  InsideInv'
<1>1. /\ UNCHANGED <<hand, host_session, output_mapper, outbox, pending_image, client>>
      /\ IF receiver_alive THEN send(event) ELSE UNCHANGED mailboxVars
  BY DEF ClipboardEvent, threads, pacing, hostVars
<1>2. CASE ~receiver_alive
  BY <1>1, <1>2, InsideMapped DEF mailboxVars, InsideInv
<1>3. CASE receiver_alive
  <2>1. event \in Outputs /\ event \notin CursorEvents /\ event \notin Barriers /\ event \notin Connecteds
    BY KindsApart DEF Outputs
  <2>2. SentInside(event)
    BY <1>1, <1>3, <2>1, SendInside
  <2>3. Up' = Up /\ receiver_alive' = receiver_alive
    BY <1>1, <1>3 DEF Up, send
  <2>4. Ahead => Reading(event, Ahead)
    BY <2>1, ReadingOther
  <2>5. Ahead => Ahead'
    BY <2>2, <2>3, <2>4 DEF SentInside, Ahead
  <2>6. Continues(output_mapper, outbox, Ahead')
    BY <2>5, ContinuesWeaker DEF InsideInv
  <2>7. CursorsStayInsideSession'
    BY <1>1 DEF InsideInv, CursorsStayInsideSession
  <2> QED
    BY <1>1, <2>2, <2>3, <2>6, <2>7 DEF InsideInv, SentInside
<1> QED
  BY <1>2, <1>3

\* The writer takes an event.
LEMMA InsideRecv ==
    ASSUME InsideInv, Recv
    PROVE  InsideInv'
<1>t. control \in Seq(Controls)
  BY DEF InsideInv
<1>1. /\ hand = None /\ hand' = NextEvent /\ recv_event
      /\ UNCHANGED <<host_session, output_mapper, outbox, pending_image, client, receiver_alive>>
  BY DEF Recv, recv_event, threads, pacing, hostVars
<1>2. Up <=> host_session
  BY <1>1, KindsApart, ReadingOther DEF Up
<1>3. latest_frame' = None \/ latest_frame' = latest_frame
  BY <1>1 DEF recv_event
<1>4. CASE control = <<>>
  <2>1. control' = control
    BY <1>1, <1>4 DEF recv_event
  <2>2. hand'.kind \in {"FrameBgraBytes", "FrameBgraRects"}
    BY <1>1, <1>4 DEF NextEvent, Delta, InsideInv
  <2>3. hand' \notin Barriers /\ hand' \notin Connecteds /\ hand' \notin CursorEvents
    BY <2>2, VisualsApart, KindsApart
  <2>4. Up' <=> host_session
    BY <1>1, <2>3, ReadingOther DEF Up
  <2>5. \A i : Inside(control, Up, i) => Inside(control, Up', i)
    BY <1>2, <2>4, InsideWeaker
  <2>6. Ahead => Ahead'
    BY <1>1, <2>1, <2>5 DEF Ahead
  <2>7. Continues(output_mapper, outbox, Ahead')
    BY <2>6, ContinuesWeaker DEF InsideInv
  <2>8. CursorsStayInsideSession'
    BY <2>3 DEF CursorsStayInsideSession
  <2> QED
    BY <1>1, <1>3, <2>1, <2>5, <2>7, <2>8 DEF InsideInv
<1>5. CASE control # <<>>
  <2>1. control' = Tail(control) /\ hand' = Head(control)
    BY <1>1, <1>5 DEF recv_event, NextEvent
  <2>2. /\ Len(control) \in Nat /\ Len(control) # 0 /\ Len(control') = Len(control) - 1
        /\ Head(control) = control[1] /\ control' \in Seq(Controls)
        /\ \A i \in 1..Len(control') : control'[i] = control[i + 1]
    BY <1>t, <1>5, <2>1, HeadTailProperties, LenProperties, EmptySeq
  <2>3. Reading(Head(control), Up) => Up'
    BY <1>1, <1>2, <2>1 DEF Up, Reading
  <2>4. ASSUME NEW i \in 1..(Len(control') + 1), Inside(control, Up, i + 1)
        PROVE  Inside(control', Up', i)
    <3>1. Inside(control', Reading(Head(control), Up), i)
      BY <1>t, <1>5, <2>1, <2>4, InsideTail
    <3> QED
      BY <2>3, <3>1, InsideWeaker
  <2>5. ASSUME NEW i \in 1..Len(control'), control'[i] \in CursorEvents
        PROVE  Inside(control', Up', i)
    <3>1. i + 1 \in 1..Len(control) /\ i \in 1..(Len(control') + 1)
      BY <2>2
    <3>2. control[i + 1] \in CursorEvents
      BY <2>2, <2>5
    <3>3. Inside(control, Up, i + 1)
      BY <3>1, <3>2 DEF InsideInv
    <3> QED
      BY <2>4, <3>1, <3>3
  <2>6. Inside(control, Up, Len(control) + 1) => Inside(control', Up', Len(control') + 1)
    <3>1. Len(control') + 1 \in 1..(Len(control') + 1)
          /\ (Len(control') + 1) + 1 = Len(control) + 1
      BY <2>2
    <3> QED
      BY <2>4, <3>1
  <2>7. Ahead => Ahead'
    BY <1>1, <2>6 DEF Ahead
  <2>8. Continues(output_mapper, outbox, Ahead')
    BY <2>7, ContinuesWeaker DEF InsideInv
  <2>9. CursorsStayInsideSession'
    <3> SUFFICES ASSUME Head(control) \in CursorEvents PROVE host_session
      BY <1>1, <2>1 DEF CursorsStayInsideSession
    <3>1. 1 \in 1..Len(control) /\ control[1] \in CursorEvents
      BY <2>2
    <3>2. Inside(control, Up, 1)
      BY <3>1 DEF InsideInv
    <3> QED
      BY <1>2, <3>2, InsideFirst
  <2> QED
    BY <1>1, <1>3, <2>2, <2>5, <2>8, <2>9 DEF InsideInv
<1> QED
  BY <1>4, <1>5

\* The host reads what the writer held.
LEMMA InsideWrite ==
    ASSUME InsideInv, Write
    PROVE  InsideInv'
<1>1. /\ hand' = None /\ HostReads(hand)
      /\ UNCHANGED <<control, latest_frame, receiver_alive, output_mapper, outbox, pending_image,
                     client>>
  BY DEF Write, mailboxVars, pacing, threads
<1>2. Up' <=> host_session'
  BY <1>1, KindsApart, ReadingOther DEF Up
<1>3. Up => host_session'
  <2>1. CASE hand \in Connecteds
    <3>1. hand.kind = "Connected" /\ hand \notin Barriers
      BY <2>1, KindsApart DEF Connecteds
    <3> QED
      BY <1>1, <3>1 DEF HostReads, Barriers
  <2>2. CASE hand \notin Connecteds \cup Barriers /\ host_session
    BY <1>1, <2>2 DEF HostReads, Barriers
  <2> QED
    BY <2>1, <2>2 DEF Up, Reading
<1>4. \A i : Inside(control, Up, i) => Inside(control, Up', i)
  BY <1>2, <1>3, InsideWeaker
<1>5. Ahead => Ahead'
  BY <1>1, <1>4 DEF Ahead
<1>6. Continues(output_mapper, outbox, Ahead')
  BY <1>5, ContinuesWeaker DEF InsideInv
<1>7. CursorsStayInsideSession'
  BY <1>1, KindsApart DEF CursorsStayInsideSession
<1> QED
  BY <1>1, <1>4, <1>6, <1>7 DEF InsideInv

\* The writer goes.
LEMMA InsideGone ==
    ASSUME InsideInv, WriteFails \/ WriterStops
    PROVE  InsideInv'
<1>1. /\ hand' = None /\ receiver_alive' = FALSE /\ control' = <<>> /\ latest_frame' = None
      /\ UNCHANGED <<output_mapper, outbox, pending_image, client>>
  BY DEF WriteFails, WriterStops, drop_receiver, pacing
<1>2. Ahead'
  BY <1>1 DEF Ahead
<1>3. Continues(output_mapper, outbox, Ahead')
  BY <1>2, ContinuesWeaker DEF InsideInv
<1>4. CursorsStayInsideSession'
  BY <1>1, KindsApart DEF CursorsStayInsideSession
<1>5. control' \in Seq(Controls) /\ \A i \in 1..Len(control') : FALSE
  BY <1>1, EmptySeq
<1> QED
  BY <1>1, <1>3, <1>4, <1>5 DEF InsideInv
\* Every step of the helper keeps InsideInv.
LEMMA InsideNext == InsideInv /\ [Next]_vars => InsideInv'
<1> SUFFICES ASSUME InsideInv, [Next]_vars PROVE InsideInv'
  OBVIOUS
<1>c. Continues(output_mapper, outbox, Ahead)
  BY DEF InsideInv
<1>1. CASE ClientEvent
  <2>1. ASSUME NEW size \in Sizes, NEW color \in Colors, Image(size, color) PROVE InsideInv'
    BY <2>1, InsideImage
  <2>2. ASSUME NEW size \in Sizes, NEW color \in Colors, NEW region \in RegionEvents(size),
               DesktopUpdate(size, region, color)
        PROVE  InsideInv'
    BY <2>2, InsideUpdate
  <2>3. ASSUME NEW event \in CursorEvents, Pointer(event) PROVE InsideInv'
    BY <2>3, InsidePointer
  <2>4. ASSUME NEW event \in Terminals \cup Reconnectings, SessionEnd(event) PROVE InsideInv'
    BY <2>4, InsideSessionEnd DEF Barriers
  <2>5. CASE EventWithoutOutput
    <3>1. /\ outbox = <<>> /\ FlushAndPublish(Mapped(Flushed.mapper, <<>>))
          /\ UNCHANGED <<control, latest_frame, hand, host_session, receiver_alive, client>>
      BY <2>5 DEF EventWithoutOutput, Receives, mailboxVars, threads, hostVars
    <3> QED
      BY <3>1, FlushOnlyInside
  <2> QED
    BY <1>1, <2>1, <2>2, <2>3, <2>4, <2>5 DEF ClientEvent
<1>2. CASE FlushDue \/ ChannelCloses
  <2>1. /\ outbox = <<>> /\ FlushAndPublish(Mapped(Flushed.mapper, <<>>))
        /\ UNCHANGED <<control, latest_frame, hand, host_session, receiver_alive, client>>
    BY <1>2 DEF FlushDue, ChannelCloses, mailboxVars, threads, hostVars
  <2> QED
    BY <2>1, FlushOnlyInside
<1>3. CASE Publish
  BY <1>3, InsidePublish
<1>4. CASE PublishFails
  <2>1. /\ ~receiver_alive /\ outbox' = <<>> /\ pending_image' = None
        /\ output_mapper' = output_mapper /\ client' = client
        /\ UNCHANGED <<control, latest_frame, hand, host_session, receiver_alive>>
    BY <1>4 DEF PublishFails, ClearSchedule, drop_sender, hostVars
  <2>2. Ahead /\ output_mapper \in Mappers
    BY <1>c, <2>1 DEF Ahead, Continues
  <2>3. Continues(output_mapper', outbox', Ahead)
    BY <2>1, <2>2, NothingContinues
  <2>4. client' = "starting" => ~output_mapper'.connected
    BY <2>1 DEF InsideInv
  <2> QED
    BY <2>1, <2>3, <2>4, InsideMapped
<1>5. CASE RuntimeFails
  <2> DEFINE failure == [kind |-> "ConnectionFailure"]
  <2>1. /\ client = "starting" /\ client' = "ended" /\ outbox' = <<failure>>
        /\ output_mapper' = output_mapper /\ pending_image' = pending_image
        /\ UNCHANGED <<control, latest_frame, hand, host_session, receiver_alive>>
    BY <1>5 DEF RuntimeFails, drop_sender, pacing, hostVars
  <2>2. output_mapper \in Mappers /\ ~output_mapper.connected
    BY <1>c, <2>1 DEF InsideInv, Continues
  <2>3. failure \in Barriers
    BY DEF Barriers, Terminals
  <2> HIDE DEF failure
  <2>4. failure \in Outputs /\ failure \notin CursorEvents
    BY <2>3, KindsApart DEF Outputs
  <2>5. Continues(output_mapper', outbox', Ahead)
    BY <2>1, <2>2, <2>4, OneEventContinues
  <2> QED
    BY <2>1, <2>5, InsideMapped
<1>6. ASSUME NEW event \in ClipboardEvents, ClipboardEvent(event) PROVE InsideInv'
  BY <1>6, InsideClipboard
<1>7. CASE Recv
  BY <1>7, InsideRecv
<1>8. CASE Write
  BY <1>8, InsideWrite
<1>9. CASE WriteFails \/ WriterStops
  BY <1>9, InsideGone
<1>10. CASE \/ OutputTaskEnds \/ MainThread \/ Tick \/ RuntimeStarts \/ ClientEnds \/ Shutdown
            \/ UNCHANGED vars
  <2>1. /\ UNCHANGED <<output_mapper, outbox, pending_image>>
        /\ UNCHANGED <<control, latest_frame, hand, host_session, receiver_alive>>
        /\ client' = "starting" => client = "starting"
    BY <1>10 DEF OutputTaskEnds, MainThread, JoinClient, JoinWriter, Tick, RuntimeStarts,
                 ClientEnds, Shutdown, drop_sender, vars, mailboxVars, pacing, threads, hostVars
  <2>2. client' = "starting" => pending_image' = None /\ ~output_mapper'.connected
    BY <2>1 DEF InsideInv
  <2>3. Continues(output_mapper', outbox', Ahead)
    BY <1>c, <2>1
  <2> QED
    BY <2>1, <2>2, <2>3, InsideMapped
<1> QED
  BY <1>1, <1>2, <1>3, <1>4, <1>5, <1>6, <1>7, <1>8, <1>9, <1>10
  DEF Next, OutputTask, WriterThread

\* However fast images follow each other and however sessions end and begin, an image
\* is presented within MaxLatency, and a cursor event reaches the host only between
\* Connected and the end of its session: for all sizes, colours, marks, texts and bounds.
THEOREM OutputIsSafe == Spec => []OutputSafe
<1>1. Spec => []ScheduleInv
  BY ScheduleInit, ScheduleNext, PTL DEF Spec
<1>2. Spec => []InsideInv
  BY InsideInit, InsideNext, PTL DEF Spec
<1>3. ScheduleInv /\ InsideInv => OutputSafe
  BY ScheduleIsInTime DEF OutputSafe, InsideInv
<1> QED
  BY <1>1, <1>2, <1>3, PTL
-------------------------------------------------------------------------------
(* The reliable controls see a FIFO channel. *)

\* The receiver lives as long as the writer runs.
ChannelInv == InsideInv /\ (writer = "running" => receiver_alive)

\* The writer starts with its receiver.
LEMMA ChannelInit == Init => ChannelInv
  BY InsideInit DEF Init, output_mailbox, ChannelInv

\* The receiver goes only with the writer.
LEMMA ChannelNext == ChannelInv /\ [Next]_vars => ChannelInv'
<1> SUFFICES ASSUME ChannelInv, [Next]_vars PROVE ChannelInv'
  OBVIOUS
<1>1. InsideInv'
  BY InsideNext DEF ChannelInv
<1>2. CASE WriteFails \/ WriterStops
  BY <1>1, <1>2 DEF WriteFails, WriterStops, ChannelInv
<1>3. CASE ~(WriteFails \/ WriterStops)
  <2>1. writer' = writer
    BY <1>3 DEF Next, ClientEvent, Image, DesktopUpdate, Pointer, SessionEnd, EventWithoutOutput,
                OutputTask, FlushDue, Publish, PublishFails, ChannelCloses, OutputTaskEnds,
                WriterThread, Recv, Write, MainThread, JoinClient, JoinWriter, Tick, RuntimeStarts,
                RuntimeFails, ClientEnds, Shutdown, ClipboardEvent, threads, vars
  <2>2. receiver_alive' = receiver_alive
    BY <1>3 DEF Next, ClientEvent, Image, DesktopUpdate, Pointer, SessionEnd, EventWithoutOutput,
                OutputTask, FlushDue, Publish, PublishFails, ChannelCloses, OutputTaskEnds,
                WriterThread, Recv, Write, MainThread, JoinClient, JoinWriter, Tick, RuntimeStarts,
                RuntimeFails, ClientEnds, Shutdown, ClipboardEvent, vars, mailboxVars, send,
                drop_sender, recv_event
  <2> QED
    BY <1>1, <2>1, <2>2 DEF ChannelInv
<1> QED
  BY <1>2, <1>3

\* The reliable controls in the mailbox, and the one in the writer's hand.
Queued == Without(control, CursorEvents)
Held == IF hand \in ReliableControls THEN <<hand>> ELSE <<>>

\* What a send does to the reliable controls that wait.
LEMMA SendQueues ==
    ASSUME control \in Seq(Controls), NEW event \in Outputs, send(event)
    PROVE  /\ event \in ReliableControls => Queued' = Append(Queued, event)
           /\ event \notin ReliableControls => Queued' = Queued
<1>1. CASE SendFrame(event) \/ SendDelta(event)
  <2>1. event.kind \in {"FrameBgraBytes", "FrameBgraRects"} /\ control' = control
    BY <1>1 DEF SendFrame, SendDelta
  <2>2. event \notin ReliableControls
    BY <2>1, VisualsApart DEF ReliableControls
  <2> QED
    BY <2>1, <2>2 DEF Queued
<1>2. CASE SendTerminal(event) \/ SendReconnecting(event)
  <2>1. event \in Barriers /\ control' = Append(Queued, event)
    BY <1>2 DEF SendTerminal, SendReconnecting, Barriers, discard_pending_cursor_events, Queued
  <2>2. event \in Controls /\ event \notin CursorEvents /\ event \in ReliableControls
    BY <2>1, KindsApart DEF ReliableControls
  <2>3. Queued \in Seq(Controls)
    BY WithoutProperties, SeqWidens DEF Queued
  <2>4. Without(Append(Queued, event), CursorEvents)
          = Append(Without(Queued, CursorEvents), event)
    BY <2>2, <2>3, WithoutAppendKept
  <2>5. Without(Queued, CursorEvents) = Queued
    BY WithoutPart DEF Queued
  <2>6. Queued' = Without(control', CursorEvents)
    BY DEF Queued
  <2> QED
    BY <2>1, <2>2, <2>4, <2>5, <2>6
<1>3. CASE SendControl(event)
  <2>1. event \in Controls
    BY <1>3, KindsApart DEF SendControl
  <2>2. CASE /\ control # <<>> /\ event.kind \in {"CursorPosition", "CursorRgbaBytes"}
             /\ Last(control).kind = event.kind
    <3> DEFINE r == Append(Front(control), event)
    <3>1. control' = r
      BY <1>3, <2>2 DEF SendControl, enqueue_control
    <3>2. \A e \in Controls : e.kind \in {"CursorPosition", "CursorRgbaBytes"} => e \in CursorEvents
      BY DEF Controls, CursorEvents, Appearances, Positions, Terminals, Reconnectings, Connecteds,
             ClipboardEvents
    <3>3. Last(control) \in Controls
      <4>1. Len(control) \in 1..Len(control)
        BY <2>2, EmptySeq
      <4> QED
        BY <4>1, ElementOfSeq DEF Last
    <3>4. event \in CursorEvents /\ Last(control) \in CursorEvents
      BY <2>1, <2>2, <3>2, <3>3
    <3>5. /\ r \in Seq(Controls) /\ Len(r) = Len(control)
          /\ \A k \in 1..Len(control) :
                r[k] = control[k] \/ (r[k] \in CursorEvents /\ control[k] \in CursorEvents)
      BY <2>2, <3>4, CoalescedQueue
    <3> HIDE DEF r
    <3>6. Without(r, CursorEvents) = Without(control, CursorEvents)
      BY <3>5, WithoutSame
    <3> QED
      BY <3>1, <3>4, <3>6 DEF Queued, ReliableControls
  <2>3. CASE ~(/\ control # <<>> /\ event.kind \in {"CursorPosition", "CursorRgbaBytes"}
               /\ Last(control).kind = event.kind)
    <3>1. control' = Append(control, event)
      BY <1>3, <2>3 DEF SendControl, enqueue_control
    <3>2. CASE event \in CursorEvents
      BY <2>1, <3>1, <3>2, WithoutAppendDropped DEF Queued, ReliableControls
    <3>3. CASE event \notin CursorEvents
      BY <2>1, <3>1, <3>3, WithoutAppendKept DEF Queued, ReliableControls
    <3> QED
      BY <3>2, <3>3
  <2> QED
    BY <2>2, <2>3
<1> QED
  BY <1>1, <1>2, <1>3 DEF send

\* The event in the writer's hand is the first of the channel.
LEMMA HeldFirst ==
    ASSUME NEW S, NEW w \in Seq(S), NEW e \in S
    PROVE  /\ <<e>> \o w # <<>> /\ Head(<<e>> \o w) = e /\ Tail(<<e>> \o w) = w
           /\ <<>> \o w = w
<1> DEFINE q == <<e>> \o w
<1>1. <<e>> \in Seq(S) /\ Len(<<e>>) = 1 /\ <<e>>[1] = e
  OBVIOUS
<1>2. /\ q \in Seq(S) /\ Len(q) = 1 + Len(w) /\ Len(w) \in Nat
      /\ q[1] = e /\ \A i \in 1..Len(w) : q[i + 1] = w[i]
  BY <1>1, ConcatProperties, LenProperties
<1> HIDE DEF q
<1>3. q # <<>>
  BY <1>2, EmptySeq
<1>4. Head(q) = e
  BY <1>2, <1>3
<1>5. /\ Tail(q) \in Seq(S) /\ Len(Tail(q)) = Len(w)
      /\ \A i \in 1..Len(w) : Tail(q)[i] = w[i]
  BY <1>2, <1>3, HeadTailProperties
<1>6. Tail(q) = w
  BY <1>5, SeqEqual
<1> QED
  BY <1>3, <1>4, <1>6, ConcatEmptySeq DEF q

\* Every step of the helper is a step of the reliable channel, or none.
LEMMA ReliableStep ==
    ASSUME ChannelInv, [Next]_vars
    PROVE  [Reliable!Next]_(Reliable!channelVars)
<1>t. /\ control \in Seq(Controls) /\ outbox \in Seq(Outputs)
      /\ writer = "running" => receiver_alive
  BY DEF ChannelInv, InsideInv, Continues
<1>q. ReliableQueue = Held \o Queued
  BY DEF ReliableQueue, Held, Queued
<1>p. ReliableQueue' = Held' \o Queued'
  BY DEF ReliableQueue, Held, Queued
<1>w. Queued \in Seq(ReliableControls)
  BY <1>t, WithoutProperties DEF Queued, ReliableControls
<1>h. Held \in Seq(ReliableControls)
  <2>1. <<>> \in Seq(ReliableControls)
    BY EmptySeq
  <2> QED
    BY <2>1 DEF Held
<1>s. ASSUME ReliableQueue' = ReliableQueue, delivered' = delivered,
             receiver_alive' = receiver_alive
      PROVE  [Reliable!Next]_(Reliable!channelVars)
  BY <1>s DEF Reliable!channelVars
<1>1. ASSUME NEW event \in Outputs, send(event), hand' = hand, delivered' = delivered
      PROVE  [Reliable!Next]_(Reliable!channelVars)
  <2>1. Held' = Held /\ receiver_alive /\ receiver_alive' = receiver_alive
    BY <1>1 DEF Held, send
  <2>2. CASE event \notin ReliableControls
    <3>1. Queued' = Queued
      BY <1>1, <1>t, <2>2, SendQueues
    <3>2. ReliableQueue' = ReliableQueue
      BY <1>p, <1>q, <2>1, <3>1
    <3> QED
      BY <1>1, <1>s, <2>1, <3>2
  <2>3. CASE event \in ReliableControls
    <3>1. Queued' = Append(Queued, event)
      BY <1>1, <1>t, <2>3, SendQueues
    <3>2. Held \o Append(Queued, event) = Append(Held \o Queued, event)
      BY <1>w, <1>h, <2>3
    <3>3. ReliableQueue' = Append(ReliableQueue, event)
      BY <1>p, <1>q, <2>1, <3>1, <3>2
    <3>4. Reliable!Send(event)
      BY <1>1, <2>1, <3>3 DEF Reliable!Send
    <3> QED
      BY <2>3, <3>4 DEF Reliable!Next
  <2> QED
    BY <2>2, <2>3
<1>2. CASE Publish
  <2>1. Head(outbox) \in Outputs /\ send(Head(outbox)) /\ hand' = hand /\ delivered' = delivered
    BY <1>2, <1>t, HeadTailProperties DEF Publish, hostVars
  <2> QED
    BY <1>1, <2>1
<1>3. ASSUME NEW event \in ClipboardEvents, ClipboardEvent(event)
      PROVE  [Reliable!Next]_(Reliable!channelVars)
  <2>1. /\ hand' = hand /\ delivered' = delivered
        /\ IF receiver_alive THEN send(event) ELSE UNCHANGED mailboxVars
    BY <1>3 DEF ClipboardEvent, hostVars
  <2>2. event \in Outputs
    BY KindsApart DEF Outputs
  <2>3. CASE receiver_alive
    BY <1>1, <2>1, <2>2, <2>3
  <2>4. CASE ~receiver_alive
    <3>1. ReliableQueue' = ReliableQueue /\ receiver_alive' = receiver_alive
      BY <2>1, <2>4 DEF ReliableQueue, mailboxVars
    <3> QED
      BY <1>s, <2>1, <3>1
  <2> QED
    BY <2>3, <2>4
<1>4. CASE Recv
  <2>1. /\ hand = None /\ hand' = NextEvent /\ recv_event
        /\ delivered' = delivered /\ receiver_alive' = receiver_alive
    BY <1>4 DEF Recv, recv_event, hostVars
  <2>2. Held = <<>>
    BY <2>1, NoneIsNoEvent DEF Held, ReliableControls
  <2>3. ReliableQueue = Queued
    BY <1>q, <1>w, <2>2, ConcatEmptySeq
  <2>4. CASE control = <<>>
    <3>1. hand'.kind \in {"FrameBgraBytes", "FrameBgraRects"} /\ control' = control
      BY <2>1, <2>4 DEF NextEvent, Delta, recv_event, ChannelInv, InsideInv
    <3>2. Held' = <<>> /\ Queued' = Queued
      BY <3>1, VisualsApart DEF Held, ReliableControls, Queued
    <3>3. ReliableQueue' = ReliableQueue
      BY <1>p, <1>q, <2>2, <3>2
    <3> QED
      BY <1>s, <2>1, <3>3
  <2>5. CASE control # <<>> /\ Head(control) \in CursorEvents
    <3>1. hand' = Head(control) /\ control' = Tail(control)
      BY <2>1, <2>5 DEF NextEvent, recv_event
    <3>2. Held' = <<>>
      BY <2>5, <3>1 DEF Held, ReliableControls
    <3>3. Queued' = Queued
      BY <1>t, <2>5, <3>1, WithoutTailDropped DEF Queued
    <3>4. ReliableQueue' = ReliableQueue
      BY <1>p, <1>q, <2>2, <3>2, <3>3
    <3> QED
      BY <1>s, <2>1, <3>4
  <2>6. CASE control # <<>> /\ Head(control) \notin CursorEvents
    <3>1. hand' = Head(control) /\ control' = Tail(control)
      BY <2>1, <2>6 DEF NextEvent, recv_event
    <3>2. Head(control) \in ReliableControls
      BY <1>t, <2>6, HeadTailProperties DEF ReliableControls
    <3>3. Held' = <<Head(control)>>
      BY <3>1, <3>2 DEF Held
    <3>4. Queued # <<>> /\ Head(Queued) = Head(control) /\ Queued' = Tail(Queued)
      BY <1>t, <2>6, <3>1, WithoutTailKept DEF Queued
    <3>5. <<Head(Queued)>> \o Tail(Queued) = Queued
      BY <1>w, <3>4
    <3>6. ReliableQueue' = ReliableQueue
      BY <1>p, <2>3, <3>3, <3>4, <3>5
    <3> QED
      BY <1>s, <2>1, <3>6
  <2> QED
    BY <2>4, <2>5, <2>6
<1>5. CASE Write
  <2>1. /\ hand' = None /\ HostReads(hand)
        /\ control' = control /\ receiver_alive' = receiver_alive
    BY <1>5 DEF Write, mailboxVars
  <2>2. Held' = <<>> /\ Queued' = Queued
    BY <2>1, NoneIsNoEvent DEF Held, ReliableControls, Queued
  <2>3. ReliableQueue' = Queued
    BY <1>p, <1>w, <2>2, ConcatEmptySeq
  <2>4. CASE hand \in ReliableControls
    <3>1. delivered' = Append(delivered, hand)
      BY <2>1, <2>4 DEF HostReads, ReliableControls
    <3>2. ReliableQueue = <<hand>> \o Queued
      BY <1>q, <2>4 DEF Held
    <3>3. ReliableQueue # <<>> /\ Head(ReliableQueue) = hand /\ Tail(ReliableQueue) = Queued
      BY <1>w, <2>4, <3>2, HeldFirst
    <3>4. Reliable!Receive
      BY <2>1, <2>3, <3>1, <3>3 DEF Reliable!Receive
    <3> QED
      BY <3>4 DEF Reliable!Next
  <2>5. CASE hand \notin ReliableControls
    <3>1. delivered' = delivered
      BY <2>1, <2>5 DEF HostReads, ReliableControls
    <3>2. ReliableQueue = Queued
      BY <1>q, <1>w, <2>5, ConcatEmptySeq DEF Held
    <3> QED
      BY <1>s, <2>1, <2>3, <3>1, <3>2
  <2> QED
    BY <2>4, <2>5
<1>6. CASE WriteFails \/ WriterStops
  <2>1. /\ receiver_alive /\ receiver_alive' = FALSE /\ control' = <<>>
        /\ hand' = None /\ delivered' = delivered
    BY <1>6, <1>t DEF WriteFails, WriterStops, drop_receiver, hostVars
  <2>2. Held' = <<>>
    BY <2>1, NoneIsNoEvent DEF Held, ReliableControls
  <2>3. Queued' = <<>>
    BY <2>1, WithoutEmpty DEF Queued
  <2>4. ReliableQueue' = <<>>
    BY <1>p, <2>2, <2>3, EmptySeq, ConcatEmptySeq
  <2>5. Reliable!Close
    BY <2>1, <2>4 DEF Reliable!Close
  <2> QED
    BY <2>5 DEF Reliable!Next
<1>7. CASE \/ ClientEvent \/ FlushDue \/ PublishFails \/ ChannelCloses \/ OutputTaskEnds
           \/ MainThread \/ Tick \/ RuntimeStarts \/ RuntimeFails \/ ClientEnds \/ Shutdown
           \/ UNCHANGED vars
  <2>1. /\ control' = control /\ hand' = hand /\ delivered' = delivered
        /\ receiver_alive' = receiver_alive
    BY <1>7 DEF ClientEvent, Image, DesktopUpdate, Pointer, SessionEnd, EventWithoutOutput,
                FlushDue, PublishFails, ChannelCloses, OutputTaskEnds, MainThread, JoinClient,
                JoinWriter, Tick, RuntimeStarts, RuntimeFails, ClientEnds, Shutdown, drop_sender,
                mailboxVars, hostVars, vars
  <2>2. ReliableQueue' = ReliableQueue
    BY <2>1 DEF ReliableQueue
  <2> QED
    BY <1>s, <2>1, <2>2
<1> QED
  BY <1>2, <1>3, <1>4, <1>5, <1>6, <1>7 DEF Next, OutputTask, WriterThread

\* The helper starts with an empty channel.
LEMMA ReliableInit == Init => Reliable!Init
<1> SUFFICES ASSUME Init PROVE Reliable!Init
  OBVIOUS
<1>1. control = <<>> /\ hand = None /\ delivered = <<>> /\ receiver_alive = TRUE
  BY DEF Init, output_mailbox
<1>2. Without(control, CursorEvents) = <<>>
  BY <1>1, WithoutEmpty
<1>3. hand \notin ReliableControls
  BY <1>1, NoneIsNoEvent DEF ReliableControls
<1>4. ReliableQueue = <<>>
  BY <1>2, <1>3, EmptySeq, ConcatEmptySeq DEF ReliableQueue
<1> QED
  BY <1>1, <1>4 DEF Reliable!Init

\* The safety half of ControlsAreReliable: whatever frames, dirty regions, cursors and
\* the clipboard senders do around them, the controls that are not cursor events reach
\* the host in the order they were sent, each once, until the receiver is dropped.
THEOREM ControlsAreDeliveredInOrder ==
    Spec => Reliable!Init /\ [][Reliable!Next]_(Reliable!channelVars)
<1>1. ChannelInv /\ [Next]_vars => [Reliable!Next]_(Reliable!channelVars)
  BY ReliableStep
<1>2. Spec => []ChannelInv
  BY ChannelInit, ChannelNext, PTL DEF Spec
<1> QED
  BY <1>1, <1>2, ReliableInit, PTL DEF Spec

-------------------------------------------------------------------------------
(* The host's cursor, with all that is on its way, is the server's. *)

\* The loop of CursorIsCurrent over the events on their way.
Trail == INSTANCE FoldProofs WITH Step <- Moved

\* It is that loop.
LEMMA TrailIsLoop ==
    ASSUME NEW c, NEW s
    PROVE  Trail!Fold(c, s) = FoldLeft(Moved, c, s)
  BY DEF Trail!Fold, FoldLeft, MapThenFoldSet, Trail!MapThenFoldSet, Max, Trail!Highest

\* What one event does to a cursor.
LEMMA MovedBy ==
    ASSUME NEW c \in Cursors, NEW e
    PROVE  /\ Moved(c, e) \in Cursors
           /\ e \in Positions => /\ Moved(c, e).position = e
                                 /\ Moved(c, e).appearance = c.appearance
           /\ e \in Appearances => /\ Moved(c, e).appearance = e
                                   /\ Moved(c, e).position = c.position
           /\ e \notin CursorEvents => Moved(c, e) = c
<1>1. CASE e \in Positions
  <2>1. e \notin Appearances /\ e \in CursorEvents
    BY <1>1 DEF Positions, Appearances, CursorEvents
  <2>2. Moved(c, e) = [c EXCEPT !.position = e]
    BY <1>1, <2>1 DEF Moved, RecordCursor
  <2> QED
    BY <1>1, <2>1, <2>2 DEF Cursors
<1>2. CASE e \in Appearances
  <2>1. e \notin Positions /\ e \in CursorEvents
    BY <1>2 DEF Positions, Appearances, CursorEvents
  <2>2. Moved(c, e) = [c EXCEPT !.appearance = e]
    BY <2>1 DEF Moved, RecordCursor
  <2> QED
    BY <1>2, <2>1, <2>2 DEF Cursors
<1>3. CASE e \notin CursorEvents
  BY <1>3 DEF Moved, CursorEvents
<1> QED
  BY <1>1, <1>2, <1>3 DEF CursorEvents

\* Cursors are equal when their parts are.
LEMMA SameCursor ==
    ASSUME NEW c \in Cursors, NEW d \in Cursors, c.appearance = d.appearance,
           c.position = d.position
    PROVE  c = d
  BY DEF Cursors

\* Events lead from a cursor to a cursor.
LEMMA TrailTyped ==
    ASSUME NEW T, NEW s \in Seq(T), NEW c \in Cursors
    PROVE  Trail!Fold(c, s) \in Cursors
<1>1. \A v \in Cursors, e \in T : Moved(v, e) \in Cursors
  BY MovedBy
<1> QED
  BY <1>1, Trail!FoldPreserves

\* Events that are no cursor events leave the cursor as it is.
LEMMA TrailInert ==
    ASSUME NEW T, NEW s \in Seq(T), NEW c \in Cursors, \A e \in T : e \notin CursorEvents
    PROVE  Trail!Fold(c, s) = c
<1>1. \A v \in {c}, e \in T : Moved(v, e) \in {c}
  BY MovedBy
<1>2. Trail!Fold(c, s) \in {c}
  BY <1>1, Trail!FoldPreserves
<1> QED
  BY <1>2

\* The cursor under one that waits for Connected.
Overlay(c, w) ==
    [appearance |-> IF w.appearance = None THEN c.appearance ELSE w.appearance,
     position |-> IF w.position = None THEN c.position ELSE w.position]

\* Nothing waits: the cursor stays.
LEMMA OverlayNothing ==
    ASSUME NEW c \in Cursors
    PROVE  Overlay(c, NoCursor) = c
  BY DEF Overlay, NoCursor, Cursors

\* The events a waiting cursor becomes lay it over the cursor before it.
LEMMA TrailOverlay ==
    ASSUME NEW c \in Cursors, NEW w \in Cursors
    PROVE  Trail!Fold(Trail!Fold(c, OptionSeq(w.appearance)), OptionSeq(w.position)) = Overlay(c, w)
<1>1. /\ w.appearance \in Appearances \cup {None}
      /\ w.position \in Positions \cup {None}
  BY DEF Cursors
<1>n. None \notin Appearances /\ None \notin Positions
  BY KindsApart DEF CursorEvents
<1> DEFINE d == Trail!Fold(c, OptionSeq(w.appearance))
           f == Trail!Fold(d, OptionSeq(w.position))
<1>2. /\ d \in Cursors /\ d.position = c.position
      /\ d.appearance = IF w.appearance = None THEN c.appearance ELSE w.appearance
  <2>1. CASE w.appearance = None
    BY <2>1, Trail!FoldEmpty DEF OptionSeq
  <2>2. CASE w.appearance \in Appearances
    <3>1. d = Moved(c, w.appearance)
      BY <1>n, <2>2, Trail!FoldOne DEF OptionSeq
    <3> QED
      BY <1>n, <2>2, <3>1, MovedBy
  <2> QED
    BY <1>1, <2>1, <2>2
<1> HIDE DEF d
<1>3. /\ f \in Cursors /\ f.appearance = d.appearance
      /\ f.position = IF w.position = None THEN d.position ELSE w.position
  <2>1. CASE w.position = None
    BY <1>2, <2>1, Trail!FoldEmpty DEF OptionSeq
  <2>2. CASE w.position \in Positions
    <3>1. f = Moved(d, w.position)
      BY <1>n, <2>2, Trail!FoldOne DEF OptionSeq
    <3> QED
      BY <1>2, <1>n, <2>2, <3>1, MovedBy
  <2> QED
    BY <1>1, <2>1, <2>2
<1>4. Overlay(c, w) \in Cursors /\ Overlay(c, w).appearance = f.appearance
      /\ Overlay(c, w).position = f.position
  BY <1>1, <1>2, <1>3 DEF Overlay, Cursors
<1> HIDE DEF f
<1>5. f = Overlay(c, w)
  BY <1>3, <1>4, SameCursor
<1> QED
  BY <1>5 DEF f, d

\* A mapper whose cursor does not wait once it is connected, and what it makes of an
\* event that is none of the cursor's: wherever the cursor was, it is there after the
\* new events and what still waits.
KeepsCursor(mapper) == mapper \in Mappers /\ (mapper.connected => mapper.pending_cursor = NoCursor)
SameTrail(mapper, next, out) ==
    /\ KeepsCursor(next)
    /\ out \in Seq(Outputs \ Barriers)
    /\ \A c \in Cursors :
           Overlay(Trail!Fold(c, out), next.pending_cursor) = Overlay(c, mapper.pending_cursor)

\* No event, no change.
LEMMA NothingSameTrail ==
    ASSUME NEW mapper, KeepsCursor(mapper)
    PROVE  SameTrail(mapper, mapper, <<>>)
<1>1. <<>> \in Seq(Outputs \ Barriers)
  BY EmptySeq
<1> QED
  BY <1>1, Trail!FoldEmpty DEF SameTrail

\* A visual, no change.
LEMMA VisualSameTrail ==
    ASSUME NEW mapper, KeepsCursor(mapper), NEW e \in Visuals
    PROVE  SameTrail(mapper, mapper, <<e>>)
<1>1. e \in Outputs \ Barriers /\ e \notin CursorEvents
  BY VisualKinds DEF Outputs
<1>2. <<e>> \in Seq(Outputs \ Barriers)
  BY <1>1
<1>3. \A c \in Cursors : Trail!Fold(c, <<e>>) = c
  BY <1>1, Trail!FoldOne, MovedBy
<1> QED
  BY <1>2, <1>3 DEF SameTrail

\* Two mappings one after the other.
LEMMA SameTrailTwice ==
    ASSUME NEW mapper, NEW next, NEW last, NEW out, NEW more,
           SameTrail(mapper, next, out), SameTrail(next, last, more)
    PROVE  SameTrail(mapper, last, out \o more)
<1>1. out \in Seq(Outputs \ Barriers) /\ more \in Seq(Outputs \ Barriers)
  BY DEF SameTrail
<1>2. out \o more \in Seq(Outputs \ Barriers)
  BY <1>1, ConcatProperties
<1>3. ASSUME NEW c \in Cursors
      PROVE  Overlay(Trail!Fold(c, out \o more), last.pending_cursor)
               = Overlay(c, mapper.pending_cursor)
  <2>1. Trail!Fold(c, out \o more) = Trail!Fold(Trail!Fold(c, out), more)
    BY <1>1, Trail!FoldConcat
  <2>2. Trail!Fold(c, out) \in Cursors
    BY <1>1, TrailTyped
  <2> QED
    BY <2>1, <2>2 DEF SameTrail
<1> QED
  BY <1>2, <1>3 DEF SameTrail

\* Connected, the waiting cursor and the base frame.
LEMMA BaseFrameSameTrail ==
    ASSUME NEW mapper, KeepsCursor(mapper), NEW size \in Sizes, NEW picture \in PixelMaps
    PROVE  SameTrail(mapper, MapBaseFrame(mapper, size, picture).mapper,
                     MapBaseFrame(mapper, size, picture).out)
<1> DEFINE next == [connected |-> TRUE, base_size |-> size, pending_cursor |-> NoCursor]
           frame == Frame(size, picture)
           conn == [kind |-> "Connected", size |-> size]
           w == mapper.pending_cursor
           a == OptionSeq(w.appearance)
           p == OptionSeq(w.position)
           S == Outputs \ Barriers
<1>1. KeepsCursor(next) /\ next.pending_cursor = NoCursor
  BY NewMapperTyped DEF Mappers, KeepsCursor
<1>2. frame \in S /\ frame \notin CursorEvents
  BY FrameTyped, VisualKinds DEF Outputs
<1>3. conn \in S /\ conn \notin CursorEvents
  <2>1. conn \in Connecteds
    BY DEF Connecteds
  <2> QED
    BY <2>1, KindsApart DEF Outputs
<1>4. MapBaseFrame(mapper, size, picture).mapper = next
  BY DEF MapBaseFrame, Mapped
<1>5. w \in Cursors
  BY DEF KeepsCursor, Mappers
<1>6. a \in Seq(S) /\ p \in Seq(S)
  BY <1>5, HeldBack
<1> HIDE DEF next, frame, conn
<1>7. CASE mapper.connected
  <2>1. MapBaseFrame(mapper, size, picture).out = Append(<<>>, frame)
    BY <1>7 DEF MapBaseFrame, Mapped, frame
  <2>2. Append(<<>>, frame) = <<frame>> /\ <<frame>> \in Seq(S)
    BY <1>2
  <2>3. w = NoCursor
    BY <1>7 DEF KeepsCursor
  <2>4. \A c \in Cursors : Trail!Fold(c, <<frame>>) = c
    BY <1>2, Trail!FoldOne, MovedBy
  <2> QED
    BY <1>1, <1>4, <2>1, <2>2, <2>3, <2>4 DEF SameTrail
<1>8. CASE ~mapper.connected
  <2>1. MapBaseFrame(mapper, size, picture).out = Append(<<conn>> \o a \o p, frame)
    BY <1>8 DEF MapBaseFrame, Mapped, frame, conn
  <2> HIDE DEF a, p, S
  <2>2. <<conn>> \in Seq(S) /\ <<conn>> \o a \in Seq(S) /\ <<conn>> \o a \o p \in Seq(S)
    <3>1. <<conn>> \in Seq(S)
      BY <1>3
    <3> QED
      BY <1>6, <3>1, ConcatProperties
  <2>3. Append(<<conn>> \o a \o p, frame) \in Seq(S)
    BY <1>2, <2>2, AppendProperties
  <2>4. ASSUME NEW c \in Cursors
        PROVE  Trail!Fold(c, Append(<<conn>> \o a \o p, frame)) = Overlay(c, w)
    <3>1. Trail!Fold(c, <<conn>>) = c
      BY <1>3, Trail!FoldOne, MovedBy
    <3> DEFINE b == <<conn>>
               ba == b \o a
    <3>a. b \in Seq(S) /\ ba \in Seq(S) /\ a \in Seq(S) /\ p \in Seq(S)
      BY <1>6, <2>2
    <3> HIDE DEF b
    <3>b. Trail!Fold(c, b \o a) = Trail!Fold(Trail!Fold(c, b), a)
      BY <3>a, Trail!FoldConcat
    <3>2. Trail!Fold(c, ba) = Trail!Fold(c, a)
      BY <3>1, <3>b DEF b
    <3> HIDE DEF ba
    <3>c. Trail!Fold(c, ba \o p) = Trail!Fold(Trail!Fold(c, ba), p)
      BY <3>a, Trail!FoldConcat
    <3>3. Trail!Fold(c, <<conn>> \o a \o p) = Trail!Fold(Trail!Fold(c, a), p)
      BY <3>2, <3>c DEF b, ba
    <3>4. Trail!Fold(Trail!Fold(c, a), p) = Overlay(c, w)
      BY <1>5, TrailOverlay DEF a, p
    <3>5. Trail!Fold(c, Append(<<conn>> \o a \o p, frame))
            = Moved(Trail!Fold(c, <<conn>> \o a \o p), frame)
      BY <1>2, <2>2, Trail!FoldAppend
    <3>6. Trail!Fold(c, <<conn>> \o a \o p) \in Cursors
      BY <2>2, TrailTyped
    <3> QED
      BY <1>2, <3>3, <3>4, <3>5, <3>6, MovedBy
  <2>5. \A c \in Cursors : Overlay(c, w) \in Cursors
    BY <1>5 DEF Overlay, Cursors
  <2> DEFINE out == Append(<<conn>> \o a \o p, frame)
  <2>6. \A c \in Cursors : Overlay(Trail!Fold(c, out), NoCursor) = Overlay(c, w)
    BY <2>4, <2>5, OverlayNothing
  <2>7. out \in Seq(Outputs \ Barriers) /\ MapBaseFrame(mapper, size, picture).out = out
    BY <2>1, <2>3 DEF S
  <2> HIDE DEF out
  <2> QED
    BY <1>1, <1>4, <2>6, <2>7 DEF SameTrail
<1> QED
  BY <1>7, <1>8

\* A dirty region.
LEMMA RegionSameTrail ==
    ASSUME NEW mapper, KeepsCursor(mapper), NEW size \in Sizes,
           NEW entry \in [rect : Rects, pixels : PixelMaps]
    PROVE  SameTrail(mapper, MapRegion(mapper, size, entry).mapper,
                     MapRegion(mapper, size, entry).out)
<1>1. CASE entry.rect = Screen(size)
  <2>1. MapRegion(mapper, size, entry) = MapBaseFrame(mapper, size, entry.pixels)
    BY <1>1 DEF MapRegion
  <2>2. entry.pixels \in PixelMaps
    OBVIOUS
  <2> QED
    BY <2>1, <2>2, BaseFrameSameTrail
<1>2. CASE entry.rect # Screen(size) /\ (~mapper.connected \/ mapper.base_size # size)
  <2>1. MapRegion(mapper, size, entry).mapper = mapper /\ MapRegion(mapper, size, entry).out = <<>>
    BY <1>2 DEF MapRegion, Mapped
  <2> QED
    BY <2>1, NothingSameTrail
<1>3. CASE entry.rect # Screen(size) /\ ~(~mapper.connected \/ mapper.base_size # size)
  <2> DEFINE delta == Delta(size, <<entry>>)
  <2>1. MapRegion(mapper, size, entry).mapper = mapper /\ MapRegion(mapper, size, entry).out = <<delta>>
    BY <1>3 DEF MapRegion, Mapped
  <2>2. delta \in Visuals
    BY DEF Delta, Visuals
  <2> HIDE DEF delta
  <2> QED
    BY <2>1, <2>2, VisualSameTrail
<1> QED
  BY <1>1, <1>2, <1>3

-------------------------------------------------------------------------------
(* The cursor while events move through the mailbox and the writer. *)

\* The host's cursor once it has what the writer holds, and once it has all.
InHand == IF hand = None THEN host_cursor ELSE Moved(host_cursor, hand)
OnItsWay ==
    Overlay(Trail!Fold(Trail!Fold(InHand, control), outbox), output_mapper.pending_cursor)
Current(cursor) ==
    /\ server_cursor.appearance \in {None, cursor.appearance}
    /\ server_cursor.position \in {None, cursor.position}

\* The cursor on its way is the server's; an event that ends the session is on its way
\* only after the server's cursor is gone.
CursorInv ==
    /\ host_cursor \in Cursors /\ server_cursor \in Cursors
    /\ receiver_alive => Current(OnItsWay)
    /\ KeepsCursor(output_mapper)
    /\ \A i \in 1..Len(outbox) : outbox[i] \in Barriers => server_cursor = NoCursor
    /\ client = "starting" => server_cursor = NoCursor

\* The cursor the host will have is a cursor.
LEMMA InHandTyped ==
    ASSUME InsideInv, CursorInv
    PROVE  /\ InHand \in Cursors
           /\ Trail!Fold(InHand, control) \in Cursors
           /\ output_mapper.pending_cursor \in Cursors
           /\ control \in Seq(Controls) /\ outbox \in Seq(Outputs)
<1>1. control \in Seq(Controls) /\ outbox \in Seq(Outputs)
  BY DEF InsideInv, Continues
<1>2. InHand \in Cursors
  BY MovedBy DEF InHand, CursorInv
<1>3. output_mapper.pending_cursor \in Cursors
  BY DEF CursorInv, KeepsCursor, Mappers
<1> QED
  BY <1>1, <1>2, <1>3, TrailTyped

\* CursorIsCurrent, with its loop taken apart at the borders between the writer, the
\* mailbox, the output task and the mapper.
LEMMA CursorUnderway ==
    ASSUME InsideInv, CursorInv
    PROVE  CursorIsCurrent
<1> DEFINE w == output_mapper.pending_cursor
           h == OptionSeq(hand)
           a == OptionSeq(w.appearance)
           p == OptionSeq(w.position)
           S == Outputs \cup {hand}
<1>1. control \in Seq(S) /\ outbox \in Seq(S)
  <2>1. Controls \subseteq S /\ Outputs \subseteq S
    BY DEF Outputs
  <2> QED
    BY <2>1, InHandTyped, SeqWidens
<1>2. h \in Seq(S) /\ a \in Seq(S) /\ p \in Seq(S)
  <2>1. a \in Seq(Outputs \ Barriers) /\ p \in Seq(Outputs \ Barriers)
    BY InHandTyped, HeldBack
  <2>2. Outputs \ Barriers \subseteq S
    OBVIOUS
  <2>3. h \in Seq(S)
    <3>1. <<>> \in Seq(S) /\ <<hand>> \in Seq(S)
      BY EmptySeq
    <3> QED
      BY <3>1 DEF OptionSeq
  <2> QED
    BY <2>1, <2>2, <2>3, SeqWidens
<1>3. Trail!Fold(host_cursor, h) = InHand
  <2>1. CASE hand = None
    BY <2>1, Trail!FoldEmpty DEF OptionSeq, InHand
  <2>2. CASE hand # None
    BY <2>2, Trail!FoldOne DEF OptionSeq, InHand
  <2> QED
    BY <2>1, <2>2
<1> DEFINE hc == h \o control
           ho == hc \o outbox
           ap == a \o p
<1> HIDE DEF h, a, p, S
<1>4. hc \in Seq(S) /\ ho \in Seq(S) /\ ap \in Seq(S)
  BY <1>1, <1>2, ConcatProperties
<1>5. Trail!Fold(host_cursor, hc) = Trail!Fold(InHand, control)
  <2>1. Trail!Fold(host_cursor, h \o control) = Trail!Fold(Trail!Fold(host_cursor, h), control)
    BY <1>1, <1>2, Trail!FoldConcat
  <2> QED
    BY <1>3, <2>1
<1> HIDE DEF hc
<1>6. Trail!Fold(host_cursor, ho) = Trail!Fold(Trail!Fold(InHand, control), outbox)
  <2>1. Trail!Fold(host_cursor, hc \o outbox) = Trail!Fold(Trail!Fold(host_cursor, hc), outbox)
    BY <1>1, <1>4, Trail!FoldConcat
  <2> QED
    BY <1>5, <2>1
<1> DEFINE c == Trail!Fold(Trail!Fold(InHand, control), outbox)
<1>7. c \in Cursors
  BY InHandTyped, TrailTyped
<1> HIDE DEF ho
<1>8. Trail!Fold(host_cursor, ho \o ap) = OnItsWay
  <2>1. Trail!Fold(host_cursor, ho \o ap) = Trail!Fold(Trail!Fold(host_cursor, ho), ap)
    <3> HIDE DEF ap
    <3> QED
      BY <1>4, Trail!FoldConcat
  <2>2. Trail!Fold(c, ap) = Trail!Fold(Trail!Fold(c, a), p)
    <3> HIDE DEF c
    <3> QED
      BY <1>2, Trail!FoldConcat
  <2>3. Trail!Fold(Trail!Fold(c, a), p) = Overlay(c, w)
    <3> HIDE DEF c
    <3> QED
      BY <1>7, InHandTyped, TrailOverlay DEF a, p
  <2> QED
    BY <1>6, <2>1, <2>2, <2>3 DEF OnItsWay
<1>9. Trail!Fold(host_cursor, ho \o ap)
        = FoldLeft(Moved, host_cursor, Underway(control, OptionSeq(w.appearance)
                                                           \o OptionSeq(w.position)))
  BY TrailIsLoop DEF Underway, ho, hc, h, a, p
<1>10. receiver_alive => Current(OnItsWay)
  BY DEF CursorInv
<1> HIDE DEF Current, OnItsWay, ap
<1> QED
  BY <1>8, <1>9, <1>10 DEF CursorIsCurrent, Current

\* At the start no cursor is known.
LEMMA CursorInit == Init => CursorInv
<1> SUFFICES ASSUME Init PROVE CursorInv
  OBVIOUS
<1>1. /\ host_cursor = NoCursor /\ server_cursor = NoCursor /\ outbox = <<>>
      /\ output_mapper = NewMapper
  BY DEF Init
<1>2. KeepsCursor(output_mapper) /\ host_cursor \in Cursors
  BY <1>1, NewMapperTyped DEF KeepsCursor
<1>3. \A i \in 1..Len(outbox) : FALSE
  BY <1>1, EmptySeq
<1> QED
  BY <1>1, <1>2, <1>3 DEF CursorInv, Current, NoCursor

\* Two positions, or two bitmaps, in a row: the first leaves no trace.
LEMMA NewerCursorWins ==
    ASSUME NEW c \in Cursors, NEW old \in Controls, NEW new \in Controls,
           new.kind \in {"CursorPosition", "CursorRgbaBytes"}, old.kind = new.kind
    PROVE  Moved(Moved(c, old), new) = Moved(c, new)
<1>1. CASE new.kind = "CursorPosition"
  <2>1. old \in Positions /\ new \in Positions
    BY <1>1 DEF Controls, CursorEvents, Appearances, Positions, Terminals, Reconnectings,
                Connecteds, ClipboardEvents
  <2>2. Moved(c, old) \in Cursors /\ Moved(c, new) \in Cursors
        /\ Moved(Moved(c, old), new) \in Cursors
    BY MovedBy
  <2> QED
    BY <2>1, <2>2, MovedBy, SameCursor
<1>2. CASE new.kind = "CursorRgbaBytes"
  <2>1. old \in Appearances /\ new \in Appearances
    BY <1>2 DEF Controls, CursorEvents, Appearances, Positions, Terminals, Reconnectings,
                Connecteds, ClipboardEvents
  <2>2. Moved(c, old) \in Cursors /\ Moved(c, new) \in Cursors
        /\ Moved(Moved(c, old), new) \in Cursors
    BY MovedBy
  <2> QED
    BY <2>1, <2>2, MovedBy, SameCursor
<1> QED
  BY <1>1, <1>2

\* A queue is its front and its last event.
LEMMA FrontAndLast ==
    ASSUME NEW T, NEW q \in Seq(T), q # <<>>
    PROVE  Front(q) \in Seq(T) /\ Last(q) \in T /\ q = Append(Front(q), Last(q))
<1> DEFINE n == Len(q)
           f == SubSeq(q, 1, n - 1)
<1>1. n \in Nat /\ n # 0 /\ n \in 1..n /\ q[n] \in T
  BY EmptySeq, LenProperties, ElementOfSeq
<1>2. f \in Seq(T)
  BY <1>1
<1>3. q = Append(f, q[n])
  BY <1>1
<1> QED
  BY <1>1, <1>2, <1>3 DEF Front, Last

\* A send moves the cursor behind the queue as the event says, unless it ends the session.
LEMMA SendMoves ==
    ASSUME control \in Seq(Controls), NEW event \in Outputs, event \notin Barriers, send(event),
           NEW c \in Cursors
    PROVE  Trail!Fold(c, control') = Moved(Trail!Fold(c, control), event)
<1>t. Trail!Fold(c, control) \in Cursors
  BY TrailTyped
<1>1. CASE SendFrame(event) \/ SendDelta(event)
  <2>1. event.kind \in {"FrameBgraBytes", "FrameBgraRects"} /\ control' = control
    BY <1>1 DEF SendFrame, SendDelta
  <2>2. event \notin CursorEvents
    BY <2>1, VisualsApart, KindsApart
  <2> QED
    BY <1>t, <2>1, <2>2, MovedBy
<1>2. CASE SendTerminal(event) \/ SendReconnecting(event)
  BY <1>2 DEF SendTerminal, SendReconnecting, Barriers
<1>3. CASE SendControl(event)
  <2>1. event \in Controls
    BY <1>3, KindsApart DEF SendControl
  <2>2. CASE /\ control # <<>> /\ event.kind \in {"CursorPosition", "CursorRgbaBytes"}
             /\ Last(control).kind = event.kind
    <3> DEFINE f == Front(control)
               l == Last(control)
    <3>1. control' = Append(f, event)
      BY <1>3, <2>2 DEF SendControl, enqueue_control
    <3>2. f \in Seq(Controls) /\ l \in Controls /\ control = Append(f, l)
      BY <2>2, FrontAndLast
    <3>3. l.kind = event.kind /\ event.kind \in {"CursorPosition", "CursorRgbaBytes"}
      BY <2>2
    <3> HIDE DEF f, l
    <3>4. Trail!Fold(c, Append(f, event)) = Moved(Trail!Fold(c, f), event)
      BY <2>1, <3>2, Trail!FoldAppend
    <3>5. Trail!Fold(c, Append(f, l)) = Moved(Trail!Fold(c, f), l)
      BY <3>2, Trail!FoldAppend
    <3>6. Trail!Fold(c, f) \in Cursors
      BY <3>2, TrailTyped
    <3>7. Moved(Moved(Trail!Fold(c, f), l), event) = Moved(Trail!Fold(c, f), event)
      BY <2>1, <3>2, <3>3, <3>6, NewerCursorWins
    <3> QED
      BY <3>1, <3>2, <3>4, <3>5, <3>7
  <2>3. CASE ~(/\ control # <<>> /\ event.kind \in {"CursorPosition", "CursorRgbaBytes"}
               /\ Last(control).kind = event.kind)
    <3>1. control' = Append(control, event)
      BY <1>3, <2>3 DEF SendControl, enqueue_control
    <3> QED
      BY <2>1, <3>1, Trail!FoldAppend
  <2> QED
    BY <2>2, <2>3
<1> QED
  BY <1>1, <1>2, <1>3 DEF send

\* A list is its first event and the rest.
LEMMA TrailFirst ==
    ASSUME NEW T, NEW q \in Seq(T), q # <<>>, NEW c
    PROVE  Trail!Fold(c, q) = Trail!Fold(Moved(c, Head(q)), Tail(q))
<1> DEFINE h == <<Head(q)>>
           t == Tail(q)
<1>1. h \in Seq(T) /\ t \in Seq(T) /\ q = h \o t
  OBVIOUS
<1>2. Trail!Fold(c, h) = Moved(c, Head(q))
  BY Trail!FoldOne
<1> HIDE DEF h, t
<1>3. Trail!Fold(c, h \o t) = Trail!Fold(Trail!Fold(c, h), t)
  BY <1>1, Trail!FoldConcat
<1> QED
  BY <1>1, <1>2, <1>3 DEF t

\* A step that leaves the cursor on its way where it was.
LEMMA CursorSame ==
    ASSUME CursorInv, OnItsWay' = OnItsWay, UNCHANGED <<receiver_alive, server_cursor>>,
           host_cursor' \in Cursors, KeepsCursor(output_mapper'),
           \A i \in 1..Len(outbox') : outbox'[i] \in Barriers => server_cursor = NoCursor,
           client' = "starting" => client = "starting"
    PROVE  CursorInv'
<1>1. receiver_alive' => Current(OnItsWay)'
  BY DEF CursorInv, Current
<1> HIDE DEF Current, OnItsWay
<1> QED
  BY <1>1 DEF CursorInv

\* Sending the first event of the outbox.
LEMMA CursorPublish ==
    ASSUME InsideInv, CursorInv, Publish
    PROVE  CursorInv'
<1> DEFINE event == Head(outbox)
<1>1. /\ outbox # <<>> /\ send(event) /\ outbox' = Tail(outbox)
      /\ UNCHANGED <<hand, host_cursor, server_cursor, output_mapper, client>>
      /\ receiver_alive' = receiver_alive
  BY DEF Publish, send, threads, hostVars, serverVars
<1>2. /\ InHand \in Cursors /\ Trail!Fold(InHand, control) \in Cursors
      /\ control \in Seq(Controls) /\ outbox \in Seq(Outputs)
  BY InHandTyped
<1>3. /\ event \in Outputs /\ event = outbox[1] /\ 1 \in 1..Len(outbox)
      /\ \A i \in 1..Len(outbox') : i + 1 \in 1..Len(outbox) /\ outbox'[i] = outbox[i + 1]
  BY <1>1, <1>2
<1>4. \A i \in 1..Len(outbox') : outbox'[i] \in Barriers => server_cursor = NoCursor
  BY <1>3 DEF CursorInv
<1>5. InHand' = InHand
  BY <1>1 DEF InHand
<1>6. KeepsCursor(output_mapper') /\ host_cursor' \in Cursors
  BY <1>1 DEF CursorInv
<1>7. CASE event \in Barriers
  <2>1. server_cursor = NoCursor
    BY <1>3, <1>7 DEF CursorInv
  <2>2. Current(OnItsWay)'
    BY <1>1, <2>1 DEF Current, NoCursor
  <2>3. server_cursor' \in Cursors
    BY <1>1 DEF CursorInv
  <2> HIDE DEF Current, OnItsWay
  <2> QED
    BY <1>1, <1>4, <1>6, <2>1, <2>2, <2>3 DEF CursorInv
<1>8. CASE event \notin Barriers
  <2>1. Trail!Fold(InHand, control') = Moved(Trail!Fold(InHand, control), event)
    BY <1>1, <1>2, <1>3, <1>8, SendMoves
  <2>2. Trail!Fold(Trail!Fold(InHand, control), outbox)
          = Trail!Fold(Moved(Trail!Fold(InHand, control), event), Tail(outbox))
    BY <1>1, <1>2, TrailFirst
  <2>3. OnItsWay' = OnItsWay
    BY <1>1, <1>5, <2>1, <2>2 DEF OnItsWay
  <2> HIDE DEF OnItsWay
  <2> QED
    BY <1>1, <1>4, <1>6, <2>3, CursorSame
<1> QED
  BY <1>7, <1>8

\* The clipboard sends beside the output task.
LEMMA CursorClipboard ==
    ASSUME InsideInv, CursorInv, NEW event \in ClipboardEvents, ClipboardEvent(event)
    PROVE  CursorInv'
<1>1. /\ UNCHANGED <<hand, host_cursor, server_cursor, output_mapper, outbox, client>>
      /\ IF receiver_alive THEN send(event) ELSE UNCHANGED mailboxVars
  BY DEF ClipboardEvent, threads, hostVars, serverVars
<1>2. /\ InHand \in Cursors /\ Trail!Fold(InHand, control) \in Cursors
      /\ control \in Seq(Controls)
  BY InHandTyped
<1>3. event \in Outputs /\ event \notin Barriers /\ event \notin CursorEvents
  BY KindsApart DEF Outputs
<1>4. /\ receiver_alive' = receiver_alive
      /\ Trail!Fold(InHand, control') = Trail!Fold(InHand, control)
  <2>1. CASE receiver_alive
    <3>1. Trail!Fold(InHand, control') = Moved(Trail!Fold(InHand, control), event)
      BY <1>1, <1>2, <1>3, <2>1, SendMoves
    <3> QED
      BY <1>1, <1>2, <1>3, <2>1, <3>1, MovedBy DEF send
  <2>2. CASE ~receiver_alive
    BY <1>1, <2>2 DEF mailboxVars
  <2> QED
    BY <2>1, <2>2
<1>5. InHand' = InHand
  BY <1>1 DEF InHand
<1>6. OnItsWay' = OnItsWay
  BY <1>1, <1>4, <1>5 DEF OnItsWay
<1>7. /\ KeepsCursor(output_mapper') /\ host_cursor' \in Cursors
      /\ \A i \in 1..Len(outbox') : outbox'[i] \in Barriers => server_cursor = NoCursor
  BY <1>1 DEF CursorInv
<1> HIDE DEF OnItsWay
<1> QED
  BY <1>1, <1>4, <1>6, <1>7, CursorSame

\* What a flush does to the cursor's trail.
LEMMA FlushedSameTrail ==
    ASSUME InsideInv, CursorInv
    PROVE  SameTrail(output_mapper, Flushed.mapper, Flushed.out)
<1>1. KeepsCursor(output_mapper)
  BY DEF CursorInv
<1>2. CASE pending_image = None
  <2>1. Flushed.mapper = output_mapper /\ Flushed.out = <<>>
    BY <1>2 DEF Flushed, Mapped
  <2> QED
    BY <1>1, <2>1, NothingSameTrail
<1>3. CASE pending_image # None
  <2>1. pending_image.size \in Sizes /\ pending_image.pixels \in PixelMaps
    BY <1>3 DEF InsideInv
  <2>2. Flushed = MapBaseFrame(output_mapper, pending_image.size, pending_image.pixels)
    BY <1>3 DEF Flushed
  <2> QED
    BY <1>1, <2>1, <2>2, BaseFrameSameTrail
<1> QED
  BY <1>2, <1>3

\* Steps of the output task that move no cursor.
LEMMA CursorMapped ==
    ASSUME InsideInv, CursorInv, outbox = <<>>,
           UNCHANGED <<control, hand, host_cursor, server_cursor, receiver_alive>>,
           client' = "starting" => client = "starting",
           SameTrail(output_mapper, output_mapper', outbox')
    PROVE  CursorInv'
<1> DEFINE c == Trail!Fold(InHand, control)
<1>1. c \in Cursors /\ InHand' = InHand
  BY InHandTyped DEF InHand
<1>2. OnItsWay = Overlay(c, output_mapper.pending_cursor)
  BY Trail!FoldEmpty DEF OnItsWay
<1>3. OnItsWay' = Overlay(Trail!Fold(c, outbox'), output_mapper'.pending_cursor)
  BY <1>1 DEF OnItsWay
<1> HIDE DEF c, OnItsWay
<1>4. OnItsWay' = OnItsWay
  BY <1>1, <1>2, <1>3 DEF SameTrail
<1>5. \A i \in 1..Len(outbox') : outbox'[i] \notin Barriers
  <2>1. outbox' \in Seq(Outputs \ Barriers)
    BY DEF SameTrail
  <2> QED
    BY <2>1, ElementOfSeq
<1>6. KeepsCursor(output_mapper') /\ host_cursor' \in Cursors
  BY DEF SameTrail, CursorInv
<1> QED
  BY <1>4, <1>5, <1>6, CursorSame

\* A flush, and what the mapper makes of an event behind it.
LEMMA CursorFlush ==
    ASSUME InsideInv, CursorInv, outbox = <<>>, NEW mapped, FlushAndPublish(mapped),
           SameTrail(Flushed.mapper, mapped.mapper, mapped.out),
           UNCHANGED <<control, hand, host_cursor, server_cursor, receiver_alive>>,
           client' = "starting" => client = "starting"
    PROVE  CursorInv'
<1>1. output_mapper' = mapped.mapper /\ outbox' = Flushed.out \o mapped.out
  BY DEF FlushAndPublish
<1>2. SameTrail(output_mapper, output_mapper', outbox')
  BY <1>1, FlushedSameTrail, SameTrailTwice
<1> QED
  BY <1>2, CursorMapped

\* A flush and nothing else.
LEMMA CursorFlushOnly ==
    ASSUME InsideInv, CursorInv, outbox = <<>>, FlushAndPublish(Mapped(Flushed.mapper, <<>>)),
           UNCHANGED <<control, hand, host_cursor, server_cursor, receiver_alive, client>>
    PROVE  CursorInv'
<1> DEFINE mapped == Mapped(Flushed.mapper, <<>>)
<1>1. mapped.mapper = Flushed.mapper /\ mapped.out = <<>>
  BY DEF Mapped
<1>2. KeepsCursor(Flushed.mapper)
  BY FlushedSameTrail DEF SameTrail
<1>3. SameTrail(Flushed.mapper, mapped.mapper, mapped.out)
  BY <1>1, <1>2, NothingSameTrail
<1> HIDE DEF mapped
<1>4. FlushAndPublish(mapped)
  BY DEF mapped
<1> QED
  BY <1>3, <1>4, CursorFlush

\* A dirty region.
LEMMA CursorUpdate ==
    ASSUME InsideInv, CursorInv, NEW size \in Sizes, NEW color \in Colors,
           NEW region \in RegionEvents(size), DesktopUpdate(size, region, color)
    PROVE  CursorInv'
<1> DEFINE entry == [rect |-> region, pixels |-> [c \in Cells(region) |-> color]]
           mapped == MapRegion(Flushed.mapper, size, entry)
<1>1. size[1] \in Nat /\ size[2] \in Nat
  BY SizesAreExtents
<1>2. region \in Rects
  BY <1>1 DEF RegionEvents, Rects
<1>3. entry \in [rect : Rects, pixels : PixelMaps]
  BY <1>2, PlainPicture
<1> HIDE DEF entry
<1>4. /\ outbox = <<>> /\ client' = client /\ FlushAndPublish(mapped)
      /\ UNCHANGED <<control, hand, host_cursor, server_cursor, receiver_alive>>
  BY DEF DesktopUpdate, Receives, mailboxVars, threads, hostVars, entry
<1>5. KeepsCursor(Flushed.mapper)
  BY FlushedSameTrail DEF SameTrail
<1>6. SameTrail(Flushed.mapper, mapped.mapper, mapped.out)
  BY <1>3, <1>5, RegionSameTrail
<1> HIDE DEF mapped
<1> QED
  BY <1>4, <1>6, CursorFlush

\* A cursor event is laid over what is on its way.
LEMMA CursorPointer ==
    ASSUME InsideInv, CursorInv, NEW event \in CursorEvents, Pointer(event)
    PROVE  CursorInv'
<1> DEFINE c == Trail!Fold(InHand, control)
           w == output_mapper.pending_cursor
<1>1. /\ outbox = <<>> /\ client = "running" /\ client' = "running"
      /\ output_mapper' = map_cursor(output_mapper, event).mapper
      /\ outbox' = map_cursor(output_mapper, event).out
      /\ server_cursor' = RecordCursor(server_cursor, event)
      /\ UNCHANGED <<control, hand, host_cursor, receiver_alive>>
  BY DEF Pointer, Receives, mailboxVars, threads, hostVars
<1>2. /\ c \in Cursors /\ w \in Cursors /\ InHand' = InHand
      /\ output_mapper \in Mappers /\ server_cursor \in Cursors /\ host_cursor \in Cursors
  BY <1>1, InHandTyped DEF InHand, CursorInv, KeepsCursor
<1>3. OnItsWay = Overlay(c, w)
  BY <1>1, Trail!FoldEmpty DEF OnItsWay
<1>4. OnItsWay' = Overlay(Trail!Fold(c, outbox'), output_mapper'.pending_cursor)
  BY <1>1, <1>2 DEF OnItsWay
<1>5. server_cursor' = Moved(server_cursor, event)
  BY <1>1 DEF Moved
<1>6. server_cursor' \in Cursors
  BY <1>2, <1>5, MovedBy
<1>7. event \in Outputs /\ event \notin Barriers
  BY KindsApart DEF Outputs
<1>n. event # None
  BY KindsApart
<1>8. /\ KeepsCursor(output_mapper')
      /\ \A i \in 1..Len(outbox') : outbox'[i] \notin Barriers
      /\ event \in Positions => OnItsWay'.position = event /\ OnItsWay'.appearance = OnItsWay.appearance
      /\ event \in Appearances => OnItsWay'.appearance = event /\ OnItsWay'.position = OnItsWay.position
  <2>1. CASE output_mapper.connected
    <3>1. output_mapper' = output_mapper /\ outbox' = <<event>>
      BY <1>1, <2>1 DEF map_cursor, Mapped
    <3>2. w = NoCursor
      BY <2>1 DEF CursorInv, KeepsCursor
    <3>3. Trail!Fold(c, outbox') = Moved(c, event)
      BY <3>1, Trail!FoldOne
    <3>4. OnItsWay = c /\ OnItsWay' = Moved(c, event)
      BY <1>2, <1>3, <1>4, <3>1, <3>2, <3>3, OverlayNothing, MovedBy
    <3>5. KeepsCursor(output_mapper')
      BY <3>1 DEF CursorInv
    <3>6. \A i \in 1..Len(outbox') : outbox'[i] \notin Barriers
      BY <1>7, <3>1
    <3> HIDE DEF c, OnItsWay
    <3> QED
      BY <1>2, <3>4, <3>5, <3>6, MovedBy
  <2>2. CASE ~output_mapper.connected
    <3>1. /\ output_mapper' = [output_mapper EXCEPT !.pending_cursor = RecordCursor(@, event)]
          /\ outbox' = <<>>
      BY <1>1, <2>2 DEF map_cursor, Mapped
    <3>2. /\ output_mapper'.pending_cursor = Moved(w, event)
          /\ ~output_mapper'.connected
      BY <1>2, <2>2, <3>1 DEF Moved, Mappers
    <3>3. Moved(w, event) \in Cursors
      BY <1>2, MovedBy
    <3>4. output_mapper' \in Mappers
      BY <1>2, <3>1, <3>2, <3>3 DEF Mappers
    <3>5. OnItsWay' = Overlay(c, Moved(w, event))
      BY <1>4, <3>1, <3>2, Trail!FoldEmpty
    <3>6. \A i \in 1..Len(outbox') : outbox'[i] \notin Barriers
      BY <3>1, EmptySeq
    <3> HIDE DEF c, w, OnItsWay
    <3>7. event \in Positions => /\ Overlay(c, Moved(w, event)).position = event
                                 /\ Overlay(c, Moved(w, event)).appearance = Overlay(c, w).appearance
      BY <1>2, <1>n, MovedBy DEF Overlay
    <3>8. event \in Appearances => /\ Overlay(c, Moved(w, event)).appearance = event
                                   /\ Overlay(c, Moved(w, event)).position = Overlay(c, w).position
      BY <1>2, <1>n, MovedBy DEF Overlay
    <3> QED
      BY <1>3, <3>2, <3>4, <3>5, <3>6, <3>7, <3>8 DEF KeepsCursor
  <2> QED
    BY <2>1, <2>2
<1> HIDE DEF c, w, OnItsWay
<1>9. receiver_alive' => Current(OnItsWay)'
  <2> SUFFICES ASSUME receiver_alive' PROVE Current(OnItsWay)'
    OBVIOUS
  <2>1. Current(OnItsWay)
    BY <1>1 DEF CursorInv
  <2>2. CASE event \in Positions
    <3>1. server_cursor'.position = event /\ server_cursor'.appearance = server_cursor.appearance
      BY <1>2, <1>5, <2>2, MovedBy
    <3> QED
      BY <1>8, <2>1, <2>2, <3>1 DEF Current
  <2>3. CASE event \in Appearances
    <3>1. server_cursor'.appearance = event /\ server_cursor'.position = server_cursor.position
      BY <1>2, <1>5, <2>3, MovedBy
    <3> QED
      BY <1>8, <2>1, <2>3, <3>1 DEF Current
  <2> QED
    BY <2>2, <2>3 DEF CursorEvents
<1> HIDE DEF Current
<1> QED
  BY <1>1, <1>2, <1>6, <1>8, <1>9 DEF CursorInv

\* The end of a session forgets the server's cursor.
LEMMA CursorSessionEnd ==
    ASSUME InsideInv, CursorInv, NEW event \in Barriers, SessionEnd(event)
    PROVE  CursorInv'
<1>1. /\ server_cursor' = NoCursor /\ output_mapper' = NewMapper
      /\ client' = client /\ host_cursor' = host_cursor
  BY DEF SessionEnd, FlushAndPublish, MapSessionEnd, Mapped, threads, hostVars
<1>2. KeepsCursor(output_mapper') /\ server_cursor' \in Cursors /\ host_cursor' \in Cursors
  BY <1>1, NewMapperTyped DEF KeepsCursor, CursorInv
<1>3. Current(OnItsWay)'
  BY <1>1 DEF Current, NoCursor
<1> HIDE DEF Current, OnItsWay
<1> QED
  BY <1>1, <1>2, <1>3 DEF CursorInv

\* The writer takes an event.
LEMMA CursorRecv ==
    ASSUME InsideInv, CursorInv, Recv
    PROVE  CursorInv'
<1>1. /\ hand = None /\ hand' = NextEvent /\ recv_event
      /\ UNCHANGED <<host_cursor, server_cursor, output_mapper, outbox, client, receiver_alive>>
  BY DEF Recv, recv_event, threads, hostVars, serverVars
<1>2. InHand = host_cursor /\ host_cursor \in Cursors
  BY <1>1 DEF InHand, CursorInv
<1>t. control \in Seq(Controls)
  BY InHandTyped
<1>3. Trail!Fold(InHand', control') = Trail!Fold(InHand, control)
  <2>1. CASE control = <<>>
    <3>1. control' = control
      BY <1>1, <2>1 DEF recv_event
    <3>2. hand'.kind \in {"FrameBgraBytes", "FrameBgraRects"}
      BY <1>1, <2>1 DEF NextEvent, Delta, InsideInv
    <3>3. hand' \notin CursorEvents
      BY <3>2, VisualsApart, KindsApart
    <3>4. InHand' = host_cursor
      BY <1>1, <1>2, <3>3, MovedBy DEF InHand
    <3> QED
      BY <1>2, <3>1, <3>4
  <2>2. CASE control # <<>>
    <3>1. control' = Tail(control) /\ hand' = Head(control)
      BY <1>1, <2>2 DEF recv_event, NextEvent
    <3>2. Head(control) \in Controls
      BY <1>t, <2>2
    <3>3. InHand' = Moved(host_cursor, Head(control))
      BY <1>1, <3>1, <3>2, NoneIsNoEvent DEF InHand
    <3> QED
      BY <1>2, <1>t, <2>2, <3>1, <3>3, TrailFirst
  <2> QED
    BY <2>1, <2>2
<1>4. OnItsWay' = OnItsWay
  BY <1>1, <1>3 DEF OnItsWay
<1>5. /\ KeepsCursor(output_mapper') /\ host_cursor' \in Cursors
      /\ \A i \in 1..Len(outbox') : outbox'[i] \in Barriers => server_cursor = NoCursor
  BY <1>1 DEF CursorInv
<1> HIDE DEF OnItsWay
<1> QED
  BY <1>1, <1>4, <1>5, CursorSame

\* The host reads what the writer held.
LEMMA CursorWrite ==
    ASSUME InsideInv, CursorInv, Write
    PROVE  CursorInv'
<1>1. /\ hand # None /\ hand' = None /\ host_cursor' = Moved(host_cursor, hand)
      /\ UNCHANGED <<control, server_cursor, output_mapper, outbox, client, receiver_alive>>
  BY DEF Write, HostReads, mailboxVars, threads, serverVars
<1>2. InHand' = InHand /\ host_cursor' \in Cursors
  BY <1>1, MovedBy DEF InHand, CursorInv
<1>3. OnItsWay' = OnItsWay
  BY <1>1, <1>2 DEF OnItsWay
<1>4. /\ KeepsCursor(output_mapper')
      /\ \A i \in 1..Len(outbox') : outbox'[i] \in Barriers => server_cursor = NoCursor
  BY <1>1 DEF CursorInv
<1> HIDE DEF OnItsWay
<1> QED
  BY <1>1, <1>2, <1>3, <1>4, CursorSame

\* Every step of the helper keeps the cursor on its way the server's.
LEMMA CursorNext == InsideInv /\ CursorInv /\ [Next]_vars => CursorInv'
<1> SUFFICES ASSUME InsideInv, CursorInv, [Next]_vars PROVE CursorInv'
  OBVIOUS
<1>1. CASE ClientEvent
  <2>1. ASSUME NEW size \in Sizes, NEW color \in Colors, Image(size, color) PROVE CursorInv'
    <3>1. UNCHANGED <<control, hand, host_cursor, server_cursor, receiver_alive, client,
                      output_mapper, outbox>>
      BY <2>1 DEF Image, Receives, mailboxVars, threads, hostVars
    <3>2. InHand' = InHand
      BY <3>1 DEF InHand
    <3>3. OnItsWay' = OnItsWay
      BY <3>1, <3>2 DEF OnItsWay
    <3> HIDE DEF OnItsWay
    <3> QED
      BY <3>1, <3>3, CursorSame DEF CursorInv
  <2>2. ASSUME NEW size \in Sizes, NEW color \in Colors, NEW region \in RegionEvents(size),
               DesktopUpdate(size, region, color)
        PROVE  CursorInv'
    BY <2>2, CursorUpdate
  <2>3. ASSUME NEW event \in CursorEvents, Pointer(event) PROVE CursorInv'
    BY <2>3, CursorPointer
  <2>4. ASSUME NEW event \in Terminals \cup Reconnectings, SessionEnd(event) PROVE CursorInv'
    BY <2>4, CursorSessionEnd DEF Barriers
  <2>5. CASE EventWithoutOutput
    <3>1. /\ outbox = <<>> /\ FlushAndPublish(Mapped(Flushed.mapper, <<>>))
          /\ UNCHANGED <<control, hand, host_cursor, server_cursor, receiver_alive, client>>
      BY <2>5 DEF EventWithoutOutput, Receives, mailboxVars, threads, hostVars, serverVars
    <3> QED
      BY <3>1, CursorFlushOnly
  <2> QED
    BY <1>1, <2>1, <2>2, <2>3, <2>4, <2>5 DEF ClientEvent
<1>2. CASE FlushDue \/ ChannelCloses
  <2>1. /\ outbox = <<>> /\ FlushAndPublish(Mapped(Flushed.mapper, <<>>))
        /\ UNCHANGED <<control, hand, host_cursor, server_cursor, receiver_alive, client>>
    BY <1>2 DEF FlushDue, ChannelCloses, mailboxVars, threads, hostVars, serverVars
  <2> QED
    BY <2>1, CursorFlushOnly
<1>3. CASE Publish
  BY <1>3, CursorPublish
<1>4. CASE PublishFails
  <2>1. /\ ~receiver_alive' /\ outbox' = <<>>
        /\ UNCHANGED <<host_cursor, server_cursor, output_mapper, client>>
    BY <1>4 DEF PublishFails, drop_sender, hostVars, serverVars
  <2>2. \A i \in 1..Len(outbox') : FALSE
    BY <2>1, EmptySeq
  <2> HIDE DEF OnItsWay, Current
  <2> QED
    BY <2>1, <2>2 DEF CursorInv
<1>5. CASE RuntimeFails
  <2>1. /\ client = "starting" /\ client' = "ended"
        /\ UNCHANGED <<host_cursor, server_cursor, output_mapper>>
    BY <1>5 DEF RuntimeFails, hostVars, serverVars
  <2>2. server_cursor' = NoCursor
    BY <2>1 DEF CursorInv
  <2>3. Current(OnItsWay)'
    BY <2>2 DEF Current, NoCursor
  <2> HIDE DEF OnItsWay, Current
  <2> QED
    BY <2>1, <2>2, <2>3 DEF CursorInv
<1>6. ASSUME NEW event \in ClipboardEvents, ClipboardEvent(event) PROVE CursorInv'
  BY <1>6, CursorClipboard
<1>7. CASE Recv
  BY <1>7, CursorRecv
<1>8. CASE Write
  BY <1>8, CursorWrite
<1>9. CASE WriteFails \/ WriterStops
  <2>1. /\ ~receiver_alive'
        /\ UNCHANGED <<host_cursor, server_cursor, output_mapper, outbox, client>>
    BY <1>9 DEF WriteFails, WriterStops, drop_receiver, hostVars, serverVars
  <2> HIDE DEF OnItsWay, Current
  <2> QED
    BY <2>1 DEF CursorInv
<1>10. CASE \/ OutputTaskEnds \/ MainThread \/ Tick \/ RuntimeStarts \/ ClientEnds \/ Shutdown
            \/ UNCHANGED vars
  <2>1. /\ UNCHANGED <<control, hand, host_cursor, server_cursor, receiver_alive>>
        /\ UNCHANGED <<output_mapper, outbox>>
        /\ client' = "starting" => client = "starting"
    BY <1>10 DEF OutputTaskEnds, MainThread, JoinClient, JoinWriter, Tick, RuntimeStarts,
                 ClientEnds, Shutdown, drop_sender, vars, mailboxVars, pacing, threads, hostVars,
                 serverVars
  <2>2. InHand' = InHand
    BY <2>1 DEF InHand
  <2>3. OnItsWay' = OnItsWay
    BY <2>1, <2>2 DEF OnItsWay
  <2> HIDE DEF OnItsWay
  <2> QED
    BY <2>1, <2>3, CursorSame DEF CursorInv
<1> QED
  BY <1>1, <1>2, <1>3, <1>4, <1>5, <1>6, <1>7, <1>8, <1>9, <1>10
  DEF Next, OutputTask, WriterThread

\* However cursor events are held back until Connected, coalesced in the mailbox,
\* overtaken by the clipboard and thrown away at the end of a session, the cursor the
\* host has or is about to have is the one the server shows: for all marks, texts,
\* sizes and bounds.
THEOREM CursorStaysCurrent == Spec => []CursorIsCurrent
<1>1. Spec => []InsideInv
  BY InsideInit, InsideNext, PTL DEF Spec
<1>2. Spec => []CursorInv
  BY <1>1, CursorInit, CursorNext, PTL DEF Spec
<1>3. InsideInv /\ CursorInv => CursorIsCurrent
  BY CursorUnderway
<1> QED
  BY <1>1, <1>2, <1>3, PTL
===============================================================================
