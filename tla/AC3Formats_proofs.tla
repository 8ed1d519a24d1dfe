--------------------------- MODULE AC3Formats_proofs ---------------------------
(***************************************************************************)
(* The formats, for every setting of the driver, every choice of listed    *)
(* formats and every wish of a client.  All of it rests on two facts about *)
(* the table framesizes: its bit rates are 8 kbit/s or more apart, and the *)
(* average of a frame at 44100 Hz is less than 1 kbit/s below its bit rate,*)
(* so that whoever goes from an average to a row finds the row of the      *)
(* list.                                                                   *)
(***************************************************************************)
EXTENDS AC3Formats, TLAPS

Rates == {32000, 44100, 48000}
Sixteen(f) == \E t \in {"PCM", "EXTENSIBLE"}, ch \in 1..6, r \in Rates :
                f = PcmFormat(t, ch, r)
Coded(f, t, i) == \E ch \in 1..6, r \in Rates : f = AC3Format(t, ch, r, i)

\* What the lists contain.
ListedPcm(f) ==
  /\ Sixteen(f)
  /\ f.tag = "PCM" /\ f.ch > 2 => "MULTICHANNEL" \in dwFlags
  /\ f.tag = "EXTENSIBLE" => Extensible
ListedAC3(f) == \E t \in {"AC3", "EXTENSIBLE"}, i \in Rows : Coded(f, t, i)
ListedFormat(f) == ListedPcm(f) \/ ListedAC3(f)

------------------------------------------------------------------------------
\* The bit rates of the rows.
LEMMA BitRates ==
  /\ kbps(1) = 32 /\ kbps(2) = 40 /\ kbps(3) = 48 /\ kbps(4) = 56 /\ kbps(5) = 64
  /\ kbps(6) = 80 /\ kbps(7) = 96 /\ kbps(8) = 112 /\ kbps(9) = 128 /\ kbps(10) = 160
  /\ kbps(11) = 192 /\ kbps(12) = 224 /\ kbps(13) = 256 /\ kbps(14) = 320
  /\ kbps(15) = 384 /\ kbps(16) = 448 /\ kbps(17) = 512 /\ kbps(18) = 576
  /\ kbps(19) = 640
  BY DEF kbps, framesizes

LEMMA RowsAre ==
  Rows = {1, 2, 3, 4, 5, 6, 7, 8, 9, 10, 11, 12, 13, 14, 15, 16, 17, 18, 19}
  BY DEF Rows

\* They are apart from each other.
LEMMA BitRatesApart ==
  /\ \A i \in Rows : kbps(i) \in 32..640
  /\ \A i, j \in Rows : i # j => kbps(i) >= kbps(j) + 8 \/ kbps(j) >= kbps(i) + 8
<1>1. \A i \in Rows : kbps(i) \in 32..640
  BY BitRates, RowsAre
<1> HIDE DEF kbps
<1>2. \A i, j \in Rows : i # j => kbps(i) >= kbps(j) + 8 \/ kbps(j) >= kbps(i) + 8
  BY BitRates, RowsAre
<1> QED
  BY <1>1, <1>2

\* The bytes of a frame, as a52_syncinfo computes them.
LEMMA FrameBytesAre ==
  ASSUME NEW i \in Rows, NEW r \in Rates
  PROVE  FrameBytes(i, r) = HeaderFrame(r, i)
<1>1. /\ (32000 \div 64) % 4 = 0 /\ (44100 \div 64) % 4 = 1 /\ (48000 \div 64) % 4 = 2
  OBVIOUS
<1> DEFINE k == kbps(i)
<1>2. k \in Int /\ k = framesizes[i][4]
  <2>1. k = framesizes[i][4]
    BY DEF kbps
  <2>2. k \in 32..640
    BY BitRatesApart
  <2> HIDE DEF k
  <2>3. k \in Int
    BY <2>2
  <2> QED
    BY <2>1, <2>3
<1>3. FrameBytes(i, r) = 2 * framesizes[i][IF r = 32000 THEN 1 ELSE IF r = 44100 THEN 2 ELSE 3]
  BY <1>1 DEF FrameBytes, Rates
<1>4. HeaderFrame(r, i) = IF r = 32000 THEN 6 * k
                          ELSE IF r = 44100 THEN 2 * ((320 * k) \div 147) ELSE 4 * k
  BY DEF HeaderFrame, Rates
<1>5. /\ framesizes[i][1] = 3 * framesizes[i][4]
      /\ framesizes[i][2] = (320 * framesizes[i][4]) \div 147
      /\ framesizes[i][3] = 2 * framesizes[i][4]
  BY RowsAre DEF framesizes
<1> HIDE DEF k
<1> QED
  BY <1>2, <1>3, <1>4, <1>5

\* The average of a frame's bytes per second, in the lists, is that of its bit
\* rate, or less than 1 kbit/s below it.
LEMMA AverageIs ==
  ASSUME NEW i \in Rows, NEW r \in Rates, NEW t, NEW ch
  PROVE  LET f == AC3Format(t, ch, r, i)
         IN  /\ f.avg \in Int /\ f.avg <= 125 * kbps(i) /\ 125 * kbps(i) < f.avg + 125
             /\ r = 44100 => f.avg = Refined(FrameBytes(i, 44100))
             /\ f.align = FrameBytes(i, r) /\ f.rate = r
<1> DEFINE f == AC3Format(t, ch, r, i)
           k == kbps(i)
<1>1. k \in 32..640
  BY BitRatesApart
<1>2. /\ f.avg = IF r = 44100 THEN Refined(FrameBytes(i, r)) ELSE 125 * k
      /\ f.align = FrameBytes(i, r) /\ f.rate = r
  BY DEF AC3Format, Format
<1> HIDE DEF f, k
<1>3. CASE r = 44100
  <2>1. FrameBytes(i, 44100) = 2 * ((320 * k) \div 147)
    BY <1>3, FrameBytesAre DEF HeaderFrame, k
  <2> DEFINE w == (320 * k) \div 147
  <2>2. w \in Int /\ 147 * w <= 320 * k /\ 320 * k < 147 * w + 147
    BY <1>1
  <2>3. f.avg = (2 * w * 44100 + 768) \div 1536
    BY <1>2, <1>3, <2>1 DEF Refined
  <2> HIDE DEF w
  <2>4. 2 * w * 44100 = 88200 * w
    BY <2>2
  <2> DEFINE x == 88200 * w + 768
  <2>5. x \in Int /\ f.avg = x \div 1536
    BY <2>2, <2>3, <2>4
  <2>6. x \in Int /\ x < 192000 * k + 1536 /\ x >= 192000 * k - 88200
    BY <1>1, <2>2
  <2> HIDE DEF x
  <2>7. 1536 * f.avg <= x /\ x < 1536 * f.avg + 1536 /\ f.avg \in Int
    BY <2>5
  <2>8. f.avg <= 125 * k /\ 125 * k < f.avg + 125
    BY <1>1, <2>6, <2>7
  <2> QED
    BY <1>2, <1>3, <2>7, <2>8 DEF f, k
<1>4. CASE r # 44100
  BY <1>1, <1>2, <1>4 DEF f, k
<1> QED
  BY <1>3, <1>4

\* From the average back to the row: as stream_open does it,
LEMMA BitrateRowsAre ==
  ASSUME NEW f, NEW t, NEW i \in Rows, Coded(f, t, i)
  PROVE  BitrateRows(f) = {i}
<1>1. PICK ch \in 1..6, r \in Rates : f = AC3Format(t, ch, r, i)
  BY DEF Coded
<1> DEFINE k(j) == kbps(j)
           avg(j) == Refined(FrameBytes(j, 44100))
<1>2. /\ f.avg \in Int /\ f.avg <= 125 * k(i) /\ 125 * k(i) < f.avg + 125
      /\ f.rate = r /\ (r = 44100 => f.avg = avg(i))
      /\ r # 44100 => f.avg = 125 * k(i)
  BY <1>1, AverageIs DEF AC3Format, Format
<1>3. \A j \in Rows : avg(j) \in Int /\ avg(j) <= 125 * k(j) /\ 125 * k(j) < avg(j) + 125
  <2> TAKE j \in Rows
  <2>1. 44100 \in Rates
    BY DEF Rates
  <2> QED
    BY <2>1, AverageIs
<1>4. \A j \in Rows : k(j) \in Int /\ (j # i => k(j) >= k(i) + 8 \/ k(i) >= k(j) + 8)
  BY BitRatesApart
<1> HIDE DEF k, avg
<1>5. \A j \in Rows : k(j) = f.avg \div 125 => j = i
  <2> SUFFICES ASSUME NEW j \in Rows, k(j) = f.avg \div 125, j # i PROVE FALSE
    OBVIOUS
  <2> QED
    BY <1>2, <1>4
<1>6. \A j \in Rows : r = 44100 /\ avg(j) = f.avg => j = i
  <2> SUFFICES ASSUME NEW j \in Rows, r = 44100, avg(j) = f.avg, j # i PROVE FALSE
    OBVIOUS
  <2> QED
    BY <1>2, <1>3, <1>4
<1> DEFINE exact == {j \in Rows : k(j) = f.avg \div 125}
<1>7. exact = {} \/ exact = {i}
  BY <1>5
<1>8. r # 44100 => exact = {i}
  BY <1>2, <1>4, <1>7
<1>9. r = 44100 => {j \in Rows : avg(j) = f.avg} = {i}
  BY <1>2, <1>6
<1>10. BitrateRows(f) = IF exact = {} /\ f.rate = 44100
                        THEN {j \in Rows : avg(j) = f.avg} ELSE exact
  BY DEF BitrateRows, k, avg
<1> QED
  BY <1>2, <1>7, <1>8, <1>9, <1>10

LEMMA LeastOfOne == ASSUME NEW a \in Int PROVE Min({a}) = a
  BY DEF Min

LEMMA Extremes ==
  ASSUME NEW a \in Int, NEW b \in Int
  PROVE  /\ Max({a, b}) = IF a >= b THEN a ELSE b
         /\ Min({a, b}) = IF a <= b THEN a ELSE b
<1>1. \E x \in {a, b} : \A y \in {a, b} : x >= y
  OBVIOUS
<1>2. \E x \in {a, b} : \A y \in {a, b} : x <= y
  OBVIOUS
<1> QED
  BY <1>1, <1>2 DEF Max, Min

LEMMA HeaderFrameIs ==
  ASSUME NEW i \in Rows, NEW r \in Rates
  PROVE  HeaderFrame(r, i) \in Nat /\ HeaderFrame(r, i) >= 128
<1> DEFINE k == kbps(i)
<1>1. k \in 32..640
  BY BitRatesApart
<1>2. HeaderFrame(r, i) = IF r = 32000 THEN 6 * k
                          ELSE IF r = 44100 THEN 2 * ((320 * k) \div 147) ELSE 4 * k
  BY DEF HeaderFrame, Rates
<1> HIDE DEF k
<1>3. (320 * k) \div 147 \in Nat /\ (320 * k) \div 147 >= 64
  BY <1>1
<1> QED
  BY <1>1, <1>2, <1>3

LEMMA AlignIs ==
  ASSUME NEW f, NEW t, NEW i \in Rows, Coded(f, t, i)
  PROVE  /\ f.align = HeaderFrame(f.rate, i) /\ f.align = FrameBytes(i, f.rate)
         /\ f.align \in Nat /\ f.align >= 128
<1>1. PICK ch \in 1..6, r \in Rates : f = AC3Format(t, ch, r, i)
  BY DEF Coded
<1>2. f.align = FrameBytes(i, r) /\ f.rate = r
  BY <1>1, AverageIs
<1>3. f.align = HeaderFrame(r, i)
  BY <1>2, FrameBytesAre
<1>4. HeaderFrame(r, i) \in Nat /\ HeaderFrame(r, i) >= 128
  BY HeaderFrameIs
<1> QED
  BY <1>2, <1>3, <1>4

\* and as a decoding stream does it, with and without nBlockAlign.
LEMMA FramesizeIs ==
  ASSUME NEW f, NEW t, NEW i \in Rows, Coded(f, t, i)
  PROVE  /\ ac3_framesize(f) = f.align
         /\ ac3_framesize([f EXCEPT !.align = 0]) = f.align
<1>1. PICK ch \in 1..6, r \in Rates : f = AC3Format(t, ch, r, i)
  BY DEF Coded
<1>2. /\ f.avg \in Int /\ f.avg <= 125 * kbps(i) /\ 125 * kbps(i) < f.avg + 125
      /\ f.align = FrameBytes(i, r) /\ f.rate = r
  BY <1>1, AverageIs
<1>3. f.align > 1 /\ \E j \in Rows : f.align = FrameBytes(j, f.rate)
  BY AlignIs
<1>4. ac3_framesize(f) = f.align
  <2> DEFINE diff(j) == IF f.avg < 125 * kbps(j) THEN 125 * kbps(j) - f.avg
                                                   ELSE f.avg - 125 * kbps(j)
             nearest == {x \in Rows : \A j \in Rows : diff(x) <= diff(j)}
             row == IF f.avg <= 81000 THEN Min(nearest) ELSE 19
  <2>1. ac3_framesize(f) =
          IF f.align > 1 /\ \E j \in Rows : f.align = FrameBytes(j, f.rate)
          THEN f.align ELSE FrameBytes(row, f.rate)
    BY DEF ac3_framesize
  <2> HIDE DEF row
  <2> QED
    BY <1>3, <2>1, Zenon
<1>5. ac3_framesize([f EXCEPT !.align = 0]) = f.align
  <2> DEFINE g    == [f EXCEPT !.align = 0]
             k(j) == kbps(j)
             diff(j) == IF g.avg < 125 * k(j) THEN 125 * k(j) - g.avg ELSE g.avg - 125 * k(j)
             nearest == {x \in Rows : \A j \in Rows : diff(x) <= diff(j)}
  <2>1. g.align = 0 /\ g.avg = f.avg /\ g.rate = r
    BY <1>1, <1>2 DEF AC3Format, Format
  <2>2. \A j \in Rows : k(j) \in 32..640 /\ (j # i => k(j) >= k(i) + 8 \/ k(i) >= k(j) + 8)
    BY BitRatesApart
  <2>3. ac3_framesize(g) = FrameBytes(IF g.avg <= 81000 THEN Min(nearest) ELSE 19, r)
    BY <2>1 DEF ac3_framesize, k
  <2>4. f.avg <= 125 * k(i) /\ 125 * k(i) < f.avg + 125
    BY <1>2
  <2> HIDE DEF g, k
  <2>5. \A j \in Rows : diff(j) \in Int /\ (j # i => diff(i) < diff(j))
    <3> TAKE j \in Rows
    <3>1. g.avg \in Int /\ g.avg <= 125 * k(i) /\ 125 * k(i) < g.avg + 125
      BY <1>2, <2>1, <2>4
    <3>2. k(i) \in Int /\ k(j) \in Int /\ (j # i => k(j) >= k(i) + 8 \/ k(i) >= k(j) + 8)
      BY <2>2
    <3> QED
      BY <3>1, <3>2
  <2>6. nearest = {i}
    <3> HIDE DEF diff
    <3> QED
      BY <2>5
  <2>7. g.avg <= 81000
    BY <1>2, <2>1, <2>2, <2>4
  <2>8. ac3_framesize(g) = FrameBytes(i, r)
    BY <2>3, <2>6, <2>7, LeastOfOne DEF Rows
  <2> QED
    BY <1>2, <2>8 DEF g
<1> QED
  BY <1>4, <1>5

\* The encoder's division.
LEMMA EncoderFrameIs ==
  ASSUME NEW i \in Rows, NEW r \in Rates
  PROVE  EncoderFrame(r, kbps(i)) = HeaderFrame(r, i)
<1> DEFINE k == kbps(i)
<1>1. k \in 32..640
  BY BitRatesApart
<1>2. EncoderFrame(r, k) = 2 * ((k * 1000 * 1536) \div (r * 16))
  BY DEF EncoderFrame
<1>3. k * 1000 * 1536 = 1536000 * k
  BY <1>1
<1>4. HeaderFrame(r, i) = IF r = 32000 THEN 6 * k
                          ELSE IF r = 44100 THEN 2 * ((320 * k) \div 147) ELSE 4 * k
  BY DEF HeaderFrame, Rates
<1> HIDE DEF k
<1>5. CASE r = 32000
  <2>1. (1536000 * k) \div 512000 = 3 * k
    BY <1>1
  <2> QED
    BY <1>1, <1>2, <1>3, <1>4, <1>5, <2>1 DEF k
<1>6. CASE r = 44100
  <2>1. (1536000 * k) \div 705600 = (320 * k) \div 147
    BY <1>1
  <2> QED
    BY <1>1, <1>2, <1>3, <1>4, <1>6, <2>1 DEF k
<1>7. CASE r = 48000
  <2>1. (1536000 * k) \div 768000 = 2 * k
    BY <1>1
  <2> QED
    BY <1>1, <1>2, <1>3, <1>4, <1>7, <2>1 DEF k
<1> QED
  BY <1>5, <1>6, <1>7 DEF Rates
------------------------------------------------------------------------------
\* Which of the listed formats pass the tests.
LEMMA CodedIsValid ==
  ASSUME NEW f, NEW t \in {"AC3", "EXTENSIBLE"}, NEW i \in Rows, Coded(f, t, i)
  PROVE  /\ f.tag = t /\ f.ch \in 1..6 /\ f.rate \in Rates /\ f.sub # "PCM"
         /\ f.sub = "AC3" <=> t = "EXTENSIBLE"
         /\ IsValidAC3(f) <=> t = "AC3"
         /\ ~IsValidPCM(f)
<1>1. PICK ch \in 1..6, r \in Rates : f = AC3Format(t, ch, r, i)
  BY DEF Coded
<1>2. /\ f.tag = t /\ f.ch = ch /\ f.rate = r /\ f.bits = 0
      /\ f.sub = IF t = "AC3" THEN "none" ELSE "AC3"
  BY <1>1 DEF AC3Format, Format
<1>3. ~IsValidPCM(f)
  BY <1>2 DEF IsValidPCM, IsPcm16, IsValidPCMEX
<1>4. f.avg >= 3000 /\ f.avg <= 81000 /\ f.align # 0
  <2>1. f.avg \in Int /\ f.avg <= 125 * kbps(i) /\ 125 * kbps(i) < f.avg + 125
    BY <1>1, AverageIs
  <2>2. kbps(i) \in 32..640
    BY BitRatesApart
  <2>3. f.align \in Nat /\ f.align >= 128
    BY AlignIs
  <2> DEFINE k     == kbps(i)
             avg   == f.avg
             align == f.align
  <2>4. /\ k \in 32..640 /\ avg \in Int /\ avg <= 125 * k /\ 125 * k < avg + 125
        /\ align \in Nat /\ align >= 128
    BY <2>1, <2>2, <2>3
  <2> HIDE DEF k, avg, align
  <2>5. avg >= 3000 /\ avg <= 81000 /\ align # 0
    BY <2>4
  <2> QED
    BY <2>5 DEF avg, align
<1>5. SoundsRight(f)
  <2>1. srates[1] = 32000 /\ srates[2] = 44100 /\ srates[3] = 48000
    BY DEF srates
  <2> QED
    BY <1>2, <2>1 DEF SoundsRight, Rates
<1>6. IsValidAC3(f) <=> t = "AC3"
  <2>1. IsAC3Sized(f)
    BY <1>4, <1>5 DEF IsAC3Sized
  <2>2. ~IsValidAC3EX(f)
    BY DEF IsValidAC3EX
  <2> QED
    BY <1>2, <2>1, <2>2 DEF IsValidAC3
<1> QED
  BY <1>2, <1>3, <1>6

LEMMA PcmIsValid ==
  ASSUME NEW t \in {"PCM", "EXTENSIBLE"}, NEW ch \in 1..6, NEW r \in Rates
  PROVE  LET f == PcmFormat(t, ch, r)
         IN  /\ f.tag = t /\ f.ch = ch /\ f.rate = r /\ f.align = 2 * ch
             /\ f.sub # "AC3" /\ f.bits = 16 /\ f.avg = 2 * ch * r /\ SoundsRight(f)
             /\ t = "EXTENSIBLE" => f.sub = "PCM" /\ f.mask = ch
             /\ ~IsValidAC3(f)
             /\ IsValidPCM(f) <=> t = "PCM" \/ Extensible
<1> DEFINE f == PcmFormat(t, ch, r)
<1>1. /\ f.tag = t /\ f.ch = ch /\ f.rate = r /\ f.bits = 16 /\ f.align = 2 * ch
      /\ f.avg = 2 * ch * r
      /\ f.sub = IF t = "PCM" THEN "none" ELSE "PCM"
      /\ f.mask = IF t = "EXTENSIBLE" THEN ch ELSE 0
  BY DEF PcmFormat, Format
<1>2. SoundsRight(f)
  <2>1. srates[1] = 32000 /\ srates[2] = 44100 /\ srates[3] = 48000
    BY DEF srates
  <2> QED
    BY <1>1, <2>1 DEF SoundsRight, Rates
<1> HIDE DEF f
<1>3. IsPcm16(f)
  BY <1>1, <1>2 DEF IsPcm16
<1>4. ~IsValidAC3(f)
  BY <1>1 DEF IsValidAC3, IsValidAC3EX
<1>5. IsValidPCM(f) <=> t = "PCM" \/ Extensible
  BY <1>1, <1>3 DEF IsValidPCM, IsValidPCMEX
<1> QED
  BY <1>1, <1>2, <1>4, <1>5 DEF f

\* What is listed is a format of one of the two kinds.
LEMMA DetailsAreListed ==
  ASSUME NEW tag \in {"PCM", "AC3", "EXTENSIBLE"}, NEW n \in Nat, Listed(tag, n)
  PROVE  ListedFormat(format_details(tag, n))
<1>1. srates[1] = 32000 /\ srates[2] = 44100 /\ srates[3] = 48000
  BY DEF srates
<1>2. ASSUME NEW m \in Nat, m < 18, tag # "AC3",
             tag = "PCM" /\ m >= 6 => "MULTICHANNEL" \in dwFlags,
             tag = "EXTENSIBLE" => Extensible
      PROVE  ListedPcm(PcmOfIndex(tag, m))
  <2> DEFINE ch == (m \div 3) + 1
             r  == srates[(m % 3) + 1]
  <2>1. ch \in 1..6 /\ (m % 3) + 1 \in {1, 2, 3} /\ (m < 6 => ch <= 2)
    BY <1>2
  <2>2. r \in Rates
    BY <1>1, <2>1 DEF Rates
  <2>3. PcmOfIndex(tag, m) = PcmFormat(tag, ch, r)
    BY DEF PcmOfIndex
  <2>4. tag \in {"PCM", "EXTENSIBLE"}
    BY <1>2
  <2> HIDE DEF ch, r
  <2>5. Sixteen(PcmFormat(tag, ch, r))
    BY <2>1, <2>2, <2>4 DEF Sixteen
  <2>6. PcmFormat(tag, ch, r).tag = tag /\ PcmFormat(tag, ch, r).ch = ch
    BY DEF PcmFormat, Format
  <2> QED
    BY <1>2, <2>1, <2>3, <2>5, <2>6 DEF ListedPcm
<1>3. ASSUME NEW m \in Nat, m < 342, tag # "PCM"
      PROVE  ListedAC3(AC3OfIndex(tag, m))
  <2>1. /\ (m \div 57) + 1 \in 1..6 /\ ((m % 57) \div 19) + 1 \in {1, 2, 3}
        /\ (m % 19) + 1 \in 1..19
    BY <1>3
  <2>2. srates[((m % 57) \div 19) + 1] \in Rates
    BY <1>1, <2>1 DEF Rates
  <2>3. tag \in {"AC3", "EXTENSIBLE"}
    BY <1>3
  <2> QED
    BY <2>1, <2>2, <2>3 DEF AC3OfIndex, ListedAC3, Coded, Rows
<1>4. CASE tag = "PCM"
  <2>1. n < 18 /\ (n >= 6 => "MULTICHANNEL" \in dwFlags)
    BY <1>4 DEF Listed, cStandardFormats
  <2>2. ListedPcm(PcmOfIndex(tag, n))
    BY <1>2, <1>4, <2>1
  <2> QED
    BY <1>4, <2>2 DEF format_details, ListedFormat
<1>5. CASE tag = "AC3"
  BY <1>3, <1>5 DEF Listed, cStandardFormats, format_details, ListedFormat
<1>6. CASE tag = "EXTENSIBLE"
  <2>1. n < 360
    BY <1>6 DEF Listed, cStandardFormats
  <2>2. Extensible
    <3>1. Tags[1] = "PCM" /\ Tags[2] = "AC3"
      BY DEF Tags
    <3>2. cFormatTags # 2
      <4> SUFFICES ASSUME cFormatTags = 2 PROVE FALSE
        OBVIOUS
      <4>1. PICK i \in 1..2 : Tags[i] = tag
        BY DEF Listed
      <4> QED
        BY <1>6, <3>1, <4>1
    <3> QED
      BY <3>2 DEF cFormatTags, Extensible
  <2>3. CASE n < 18
    <3>1. ListedPcm(PcmOfIndex(tag, n))
      BY <1>2, <1>6, <2>2, <2>3
    <3> QED
      BY <1>6, <2>3, <3>1 DEF format_details, ListedFormat
  <2>4. CASE n >= 18
    <3>1. n - 18 \in Nat /\ n - 18 < 342
      BY <2>1, <2>4
    <3> QED
      BY <1>3, <1>6, <2>4, <3>1 DEF format_details, ListedFormat
  <2> QED
    BY <2>3, <2>4
<1> QED
  BY <1>4, <1>5, <1>6

\* The two kinds, by the tests.
LEMMA ListedIs ==
  ASSUME NEW f, ListedFormat(f)
  PROVE  /\ f.ch \in 1..6 /\ f.rate \in Rates /\ f.tag # "none"
         /\ \/ /\ ListedPcm(f) /\ Sixteen(f) /\ f.sub # "AC3"
               /\ f.tag \in {"PCM", "EXTENSIBLE"} /\ f.align = 2 * f.ch
               /\ IsValidPCM(f) /\ ~IsValidAC3(f)
            \/ \E i \in Rows : /\ Coded(f, "AC3", i) /\ f.tag = "AC3" /\ f.sub # "AC3"
                             /\ IsValidAC3(f) /\ ~IsValidPCM(f)
            \/ \E i \in Rows : /\ Coded(f, "EXTENSIBLE", i) /\ f.sub = "AC3"
                             /\ ~IsValidAC3(f) /\ ~IsValidPCM(f)
<1>1. CASE ListedPcm(f)
  <2>1. PICK t \in {"PCM", "EXTENSIBLE"}, ch \in 1..6, r \in Rates : f = PcmFormat(t, ch, r)
    BY <1>1 DEF ListedPcm, Sixteen
  <2>2. /\ f.tag = t /\ f.ch = ch /\ f.rate = r /\ f.align = 2 * ch
        /\ f.sub # "AC3" /\ ~IsValidAC3(f)
        /\ IsValidPCM(f) <=> t = "PCM" \/ Extensible
    BY <2>1, PcmIsValid
  <2>3. t = "EXTENSIBLE" => Extensible
    BY <1>1, <2>2 DEF ListedPcm
  <2>4. Sixteen(f)
    BY <1>1 DEF ListedPcm
  <2> QED
    BY <1>1, <2>2, <2>3, <2>4
<1>2. CASE ListedAC3(f)
  <2>1. PICK t \in {"AC3", "EXTENSIBLE"}, i \in Rows : Coded(f, t, i)
    BY <1>2 DEF ListedAC3
  <2>2. /\ f.tag = t /\ f.ch \in 1..6 /\ f.rate \in Rates /\ ~IsValidPCM(f)
        /\ f.sub = "AC3" <=> t = "EXTENSIBLE"
        /\ IsValidAC3(f) <=> t = "AC3"
    BY <2>1, CodedIsValid
  <2> QED
    BY <2>1, <2>2
<1> QED
  BY <1>1, <1>2 DEF ListedFormat

\* What is suggested for a listed source: PCM, or AC-3 of some row or of none.
SuggestsPcm(w, f) ==
  /\ f.tag \in {"PCM", "EXTENSIBLE"} /\ f.sub # "AC3"
  /\ f.ch \in {1, 2, src.ch} /\ f.rate = src.rate /\ f.align = 2 * f.ch
  /\ f.tag = "PCM" /\ f.ch > 2 => "MULTICHANNEL" \in dwFlags
  /\ f.tag = "EXTENSIBLE" => Extensible \/ w.tag = "EXTENSIBLE"
  /\ ~IsValidAC3(f)
  /\ IsValidPCM(f) <=> f.tag = "PCM" \/ (Extensible /\ f.mask = f.ch)
SuggestsAC3(f) ==
  /\ f.tag # "none" /\ f.ch = src.ch /\ f.rate = src.rate /\ ~IsValidPCM(f)
  /\ \/ f.align = 0 /\ ~IsValidAC3(f)
     \/ ListedAC3(f)

LEMMA SuggestedPcmIs ==
  ASSUME ListedFormat(src), IsValidAC3(src), NEW w \in Wishes, NEW f \in SuggestedPcm(w),
         TagAllowed(w)
  PROVE  SuggestsPcm(w, f)
<1> DEFINE multi == "MULTICHANNEL" \in dwFlags
           t  == TagOf(w)
           ch == IF w.ch # 0 THEN w.ch
                 ELSE IF t = "EXTENSIBLE" \/ multi THEN src.ch ELSE Min({src.ch, 2})
           m  == IF t = "EXTENSIBLE" THEN src.ch ELSE 0
<1>1. src.ch \in 1..6 /\ src.rate \in Rates
  BY ListedIs
<1>2. w.tag \in {"none", "PCM", "AC3", "EXTENSIBLE"} /\ w.ch \in Nat
  BY WishesAssumption
<1>3. /\ t \in {"PCM", "EXTENSIBLE"}
      /\ t = "EXTENSIBLE" => Extensible \/ w.tag = "EXTENSIBLE"
  BY <1>2 DEF TagOf, SuggestedTag, TagAllowed
<1>4. /\ ~ (w.ch \notin {0, 1, 2} /\ (w.ch # src.ch \/ (~multi /\ t = "PCM")))
      /\ f = [PcmFormat(t, ch, src.rate) EXCEPT !.mask = m]
  BY DEF SuggestedPcm
<1>5. Min({src.ch, 2}) = IF src.ch <= 2 THEN src.ch ELSE 2
  <2>1. src.ch \in Int /\ 2 \in Int
    BY <1>1
  <2> QED
    BY <2>1, Extremes, Zenon
<1>6. ch \in {1, 2, src.ch} /\ ch \in 1..6 /\ (t = "PCM" /\ ch > 2 => multi)
  BY <1>1, <1>2, <1>3, <1>4, <1>5
<1> HIDE DEF ch, t, multi, m
<1> DEFINE g == PcmFormat(t, ch, src.rate)
<1>7. /\ g.tag = t /\ g.ch = ch /\ g.rate = src.rate /\ g.align = 2 * ch
      /\ g.sub # "AC3" /\ g.bits = 16 /\ g.avg = 2 * ch * src.rate /\ SoundsRight(g)
      /\ t = "EXTENSIBLE" => g.sub = "PCM"
  BY <1>1, <1>3, <1>6, PcmIsValid
<1>8. /\ f.tag = g.tag /\ f.ch = g.ch /\ f.rate = g.rate /\ f.align = g.align
      /\ f.sub = g.sub /\ f.bits = g.bits /\ f.avg = g.avg
  BY <1>4 DEF PcmFormat, Format
<1> HIDE DEF g
<1>9. SoundsRight(f) /\ IsPcm16(f)
  BY <1>7, <1>8 DEF SoundsRight, IsPcm16
<1>10. ~IsValidAC3(f)
  BY <1>3, <1>7, <1>8 DEF IsValidAC3, IsValidAC3EX
<1>11. IsValidPCM(f) <=> t = "PCM" \/ (Extensible /\ f.mask = f.ch)
  BY <1>3, <1>7, <1>8, <1>9 DEF IsValidPCM, IsValidPCMEX
<1> QED
  BY <1>3, <1>6, <1>7, <1>8, <1>10, <1>11 DEF SuggestsPcm, multi

LEMMA SuggestedAC3Is ==
  ASSUME ListedFormat(src), ~IsValidAC3(src), NEW w \in Wishes, NEW f \in SuggestedAC3(w),
         TagAllowed(w)
  PROVE  SuggestsAC3(f)
<1> DEFINE t    == TagOf(w)
           rate == (IF "USE64" \in dwFlags THEN 64 ELSE 96) * src.ch
           rows == {i \in Rows : kbps(i) = rate}
           unsized == Format(t, IF t = "AC3" THEN "none" ELSE "AC3", src.ch, src.rate,
                             IF src.rate = 44100 THEN Refined(0) ELSE 125 * rate, 0, 0)
<1>1. src.ch \in 1..6 /\ src.rate \in Rates
  BY ListedIs
<1>2. w.tag \in {"none", "PCM", "AC3", "EXTENSIBLE"}
  BY WishesAssumption
<1>3. t \in {"AC3", "EXTENSIBLE"}
  BY <1>2 DEF TagOf, SuggestedTag, TagAllowed
<1>4. f = unsized \/ \E i \in Rows : f = AC3Format(t, src.ch, src.rate, i)
  BY DEF SuggestedAC3
<1> HIDE DEF t, rate
<1>5. CASE f = unsized
  <2>1. /\ f.tag = t /\ f.ch = src.ch /\ f.rate = src.rate /\ f.align = 0 /\ f.bits = 0
        /\ f.sub = IF t = "AC3" THEN "none" ELSE "AC3"
    BY <1>5 DEF Format
  <2> HIDE DEF unsized
  <2>2. ~IsValidPCM(f)
    BY <2>1 DEF IsValidPCM, IsPcm16, IsValidPCMEX
  <2>3. ~IsValidAC3(f)
    BY <2>1 DEF IsValidAC3, IsValidAC3EX, IsAC3Sized
  <2> QED
    BY <1>3, <2>1, <2>2, <2>3 DEF SuggestsAC3
<1>6. ASSUME NEW i \in Rows, f = AC3Format(t, src.ch, src.rate, i)
      PROVE  SuggestsAC3(f)
  <2>1. Coded(f, t, i)
    BY <1>1, <1>6 DEF Coded
  <2>2. f.tag = t /\ ~IsValidPCM(f)
    BY <1>3, <2>1, CodedIsValid
  <2>3. f.ch = src.ch /\ f.rate = src.rate
    BY <1>6 DEF AC3Format, Format
  <2>4. ListedAC3(f)
    BY <1>3, <2>1 DEF ListedAC3
  <2> QED
    BY <1>3, <2>2, <2>3, <2>4 DEF SuggestsAC3
<1> QED
  BY <1>4, <1>5, <1>6

LEMMA SuggestedIs ==
  ASSUME ListedFormat(src), NEW w \in Wishes, NEW f \in format_suggest(w)
  PROVE  \/ IsValidAC3(src) /\ SuggestsPcm(w, f)
         \/ ~IsValidAC3(src) /\ IsValidPCM(src) /\ SuggestsAC3(f)
  BY SuggestedPcmIs, SuggestedAC3Is DEF format_suggest
------------------------------------------------------------------------------
Converting == {"encode", "decode"}

\* What stream_open makes of the two formats.
Opened ==
  /\ Encodes => stream = [kind |-> "encode",
                          framelen |-> EncoderFrame(src.rate, kbps(Min(BitrateRows(dst))))]
  /\ ~Encodes /\ Decodes => stream = [kind |-> "decode", framelen |-> ac3_framesize(src)]
  /\ ~Encodes /\ ~Decodes /\ Copies => stream = [kind |-> "copy", framelen |-> 0]
  /\ ~Encodes /\ ~Decodes /\ ~Copies => stream = [kind |-> "refused", framelen |-> 0]

Chosen ==
  \/ wish = <<>> /\ ListedFormat(dst)
  \/ wish \in Wishes /\ dst \in format_suggest(wish)

\* The last answer of stream_size.
Answered ==
  /\ stream.kind \in Converting
  /\ \/ \E n \in Nat :
          n > 0 /\ size = [query |-> "SOURCE", src |-> n, dst |-> DestinationFor(n)]
     \/ \E n \in Nat : \E m \in SourceFor(n) :
          n > 0 /\ size = [query |-> "DESTINATION", src |-> m, dst |-> n]

FBase ==
  /\ src # NoFormat => ListedFormat(src)
  /\ dst # NoFormat => src # NoFormat /\ Chosen
  /\ dst = NoFormat => stream = Closed /\ wish = <<>>
  /\ stream # Closed => Opened

\* What a stream has that was given the buffers it was promised: an encoding one has
\* nothing left over; a decoding one at most a block, and then so little of the next
\* frame that no source as small as one before completes it.
LeftOver(h, b, l) ==
  /\ stream.kind = "encode" => b = 0
  /\ stream.kind = "decode" => b \in {0, 1} /\ (b = 1 => h + l < Unit)

FHeld ==
  /\ held \in Nat /\ blocks \in Nat /\ least \in Nat /\ calls \in Nat
  /\ calls = 0 => blocks = 0
  /\ stream.kind \in Converting => held < Unit
  /\ kept => LeftOver(held, blocks, least)
\* Before a stream is open.
Nothing == held = 0 /\ blocks = 0 /\ least = 0 /\ calls = 0

FInv ==
  /\ FBase
  /\ stream = Closed => size = <<>> /\ Nothing
  /\ size # <<>> => Answered
  /\ FHeld

\* The source is 16 bit PCM, or AC-3 of a row.
LEMMA SourceIs ==
  ASSUME FBase, dst # NoFormat
  PROVE  /\ src.ch \in 1..6 /\ src.rate \in Rates
         /\ IsValidPCM(src) => src.align = 2 * src.ch /\ ~IsValidAC3(src)
         /\ IsValidAC3(src) => \E i \in Rows : Coded(src, "AC3", i)
<1>1. ListedFormat(src)
  BY DEF FBase
<1> QED
  BY <1>1, ListedIs

LEMMA DestinationIs ==
  ASSUME FBase, dst # NoFormat
  PROVE  /\ dst.ch \in 1..6 /\ dst.rate \in Rates
         /\ IsValidPCM(dst) => dst.align = 2 * dst.ch /\ ~IsValidAC3(dst)
         /\ IsValidAC3(dst) => \E i \in Rows : Coded(dst, "AC3", i)
<1>1. ListedFormat(src)
  BY DEF FBase
<1>2. CASE ListedFormat(dst)
  BY <1>2, ListedIs
<1>3. CASE \E w \in Wishes : dst \in format_suggest(w)
  <2>1. PICK w \in Wishes : dst \in format_suggest(w)
    BY <1>3
  <2>2. src.ch \in 1..6 /\ src.rate \in Rates
    BY <1>1, ListedIs
  <2>3. CASE SuggestsPcm(w, dst)
    BY <2>2, <2>3 DEF SuggestsPcm
  <2>4. CASE SuggestsAC3(dst)
    <3>1. CASE ~IsValidAC3(dst)
      BY <2>2, <2>4, <3>1 DEF SuggestsAC3
    <3>2. CASE ListedAC3(dst)
      <4>1. ListedFormat(dst)
        BY <3>2 DEF ListedFormat
      <4> QED
        BY <1>2, <4>1
    <3> QED
      BY <2>4, <3>1, <3>2 DEF SuggestsAC3
  <2> QED
    BY <1>1, <2>1, <2>3, <2>4, SuggestedIs
<1> QED
  BY <1>2, <1>3 DEF FBase, Chosen

\* A row's format that the encoder or the decoder takes for a frame.
LEMMA CodedFrameIs ==
  ASSUME NEW f, NEW i \in Rows, Coded(f, "AC3", i)
  PROVE  /\ Min(BitrateRows(f)) = i /\ BitrateRows(f) = {i} /\ f.rate \in Rates
         /\ f.align = HeaderFrame(f.rate, i) /\ f.align \in Nat /\ f.align >= 128
         /\ f.align = EncoderFrame(f.rate, kbps(i))
         /\ f.align = ac3_framesize(f)
         /\ f.align = ac3_framesize([f EXCEPT !.align = 0])
<1>1. BitrateRows(f) = {i}
  BY BitrateRowsAre
<1>2. i \in Int
  BY DEF Rows
<1>3. Min(BitrateRows(f)) = i
  BY <1>1, <1>2, LeastOfOne, Zenon
<1>4. f.rate \in Rates
  BY CodedIsValid
<1>5. /\ f.align = HeaderFrame(f.rate, i) /\ f.align \in Nat /\ f.align >= 128
  BY AlignIs
<1>6. f.align = ac3_framesize(f) /\ f.align = ac3_framesize([f EXCEPT !.align = 0])
  BY FramesizeIs
<1>7. EncoderFrame(f.rate, kbps(i)) = HeaderFrame(f.rate, i)
  BY <1>4, EncoderFrameIs
<1> QED
  BY <1>1, <1>3, <1>4, <1>5, <1>6, <1>7

\* All mean the same frame.
LEMMA Lengths == ASSUME FBase PROVE FrameLengthsAgree
<1>1. CASE stream.kind = "decode"
  <2>1. stream # Closed /\ dst # NoFormat
    BY <1>1 DEF FBase, Closed
  <2>2. IsValidAC3(src) /\ stream.framelen = ac3_framesize(src)
    BY <1>1, <2>1 DEF FBase, Opened, Decodes
  <2>3. PICK i \in Rows : Coded(src, "AC3", i)
    BY <2>1, <2>2, SourceIs
  <2> QED
    BY <1>1, <2>2, <2>3, CodedFrameIs DEF FrameLengthsAgree
<1>2. CASE stream.kind = "encode"
  <2>1. stream # Closed /\ dst # NoFormat
    BY <1>2 DEF FBase, Closed
  <2>2. /\ IsValidAC3(dst) /\ src.rate = dst.rate
        /\ stream.framelen = EncoderFrame(src.rate, kbps(Min(BitrateRows(dst))))
    BY <1>2, <2>1 DEF FBase, Opened, Encodes
  <2>3. PICK i \in Rows : Coded(dst, "AC3", i)
    BY <2>1, <2>2, DestinationIs
  <2> QED
    BY <1>2, <2>2, <2>3, CodedFrameIs DEF FrameLengthsAgree
<1> QED
  BY <1>1, <1>2 DEF FrameLengthsAgree
------------------------------------------------------------------------------
\* stream_open, by the kinds of its formats.
LEMMA EncodesIs ==
  ASSUME src.rate \in Rates, ~IsValidAC3(src), IsValidPCM(src), NEW i \in Rows,
         Coded(dst, "AC3", i)
  PROVE  Encodes <=> src.ch = dst.ch /\ src.rate = dst.rate
<1>1. IsValidAC3(dst) /\ BitrateRows(dst) = {i}
  BY BitrateRowsAre, CodedIsValid
<1>2. src.rate >= 32000
  BY DEF Rates
<1> QED
  BY <1>1, <1>2 DEF Encodes

LEMMA OpensListed == ASSUME FBase PROVE ListedOpens
<1> SUFFICES ASSUME stream # Closed, wish = <<>>, src.sub # "AC3", dst.sub # "AC3"
             PROVE  stream.kind # "refused" <=>
                      /\ src.rate = dst.rate
                      /\ \/ src.ch = dst.ch
                         \/ src.tag = "AC3" /\ dst.tag # "AC3" /\ dst.ch <= 2
  BY DEF ListedOpens
<1>1. ListedFormat(src) /\ dst # NoFormat
  BY DEF FBase
<1>2. ListedFormat(dst)
  <2>1. wish \notin Wishes
    <3>1. \A w \in Wishes : DOMAIN w # {}
      BY WishesAssumption
    <3> QED
      BY <3>1
  <2> QED
    BY <1>1, <2>1 DEF FBase, Chosen
<1> DEFINE opened == Encodes \/ Decodes \/ Copies
<1>3. stream.kind # "refused" <=> opened
  BY DEF FBase, Opened
<1>4. dst.ch \in 1..6 /\ src.ch \in 1..6 /\ src.rate \in Rates
  BY <1>1, <1>2, ListedIs
<1>5. CASE IsValidPCM(src) /\ ~IsValidAC3(src) /\ src.tag \in {"PCM", "EXTENSIBLE"}
  <2>1. CASE ListedPcm(dst) /\ IsValidPCM(dst) /\ ~IsValidAC3(dst)
    <3>1. MultichannelAllowed
      BY <1>4, <2>1 DEF ListedPcm, MultichannelAllowed
    <3> QED
      BY <1>3, <1>5, <2>1, <3>1 DEF Encodes, Decodes, Copies
  <2>2. CASE \E i \in Rows : Coded(dst, "AC3", i) /\ IsValidAC3(dst) /\ ~IsValidPCM(dst)
    <3>1. Encodes <=> src.ch = dst.ch /\ src.rate = dst.rate
      BY <1>4, <1>5, <2>2, EncodesIs
    <3>2. ~Decodes /\ ~Copies
      BY <1>5, <2>2 DEF Decodes, Copies
    <3> QED
      BY <1>3, <1>5, <3>1, <3>2
  <2> QED
    BY <1>2, <2>1, <2>2, ListedIs
<1>6. CASE IsValidAC3(src) /\ ~IsValidPCM(src) /\ src.tag = "AC3"
  <2>1. CASE ListedPcm(dst) /\ dst.tag \in {"PCM", "EXTENSIBLE"} /\ IsValidPCM(dst)
             /\ ~IsValidAC3(dst)
    <3>1. MultichannelAllowed
      BY <1>4, <2>1 DEF ListedPcm, MultichannelAllowed
    <3>2. MapTab(src.ch, dst.ch) <=> src.ch = dst.ch \/ dst.ch <= 2
      BY <1>4 DEF MapTab
    <3> QED
      BY <1>3, <1>6, <2>1, <3>1, <3>2 DEF Encodes, Decodes, Copies
  <2>2. CASE IsValidAC3(dst) /\ ~IsValidPCM(dst) /\ dst.tag = "AC3"
    BY <1>3, <1>6, <2>2 DEF Encodes, Decodes, Copies
  <2> QED
    BY <1>2, <2>1, <2>2, ListedIs
<1> QED
  BY <1>1, <1>5, <1>6, ListedIs

LEMMA OpensSuggested == ASSUME FBase PROVE SuggestedOpens
<1> SUFFICES ASSUME stream.kind = "refused", wish # <<>>, dst.align # 0, dst.sub # "AC3",
                    dst.tag = "EXTENSIBLE" => dst.mask = dst.ch,
                    wish.tag = "EXTENSIBLE" => Extensible
             PROVE  FALSE
  BY DEF SuggestedOpens
<1>1. /\ stream # Closed /\ dst # NoFormat /\ ListedFormat(src)
      /\ wish \in Wishes /\ dst \in format_suggest(wish)
  BY DEF FBase, Chosen, Closed
<1>2. ~Encodes /\ ~Decodes /\ ~Copies
  BY <1>1 DEF FBase, Opened
<1>3. src.ch \in 1..6 /\ src.rate \in Rates
  BY <1>1, ListedIs
<1>4. CASE IsValidAC3(src) /\ SuggestsPcm(wish, dst)
  <2>1. IsValidPCM(dst)
    BY <1>4 DEF SuggestsPcm
  <2>2. MultichannelAllowed /\ MapTab(src.ch, dst.ch) /\ src.rate = dst.rate
    BY <1>3, <1>4 DEF SuggestsPcm, MultichannelAllowed, MapTab
  <2> QED
    BY <1>2, <1>4, <2>1, <2>2 DEF Decodes
<1>5. CASE ~IsValidAC3(src) /\ IsValidPCM(src) /\ SuggestsAC3(dst)
  <2>1. ListedFormat(dst) /\ dst.ch = src.ch /\ dst.rate = src.rate /\ ~IsValidPCM(dst)
    BY <1>5 DEF SuggestsAC3, ListedFormat
  <2>2. \E i \in Rows : Coded(dst, "AC3", i)
    BY <2>1, ListedIs
  <2> QED
    BY <1>2, <1>3, <1>5, <2>1, <2>2, EncodesIs
<1> QED
  BY <1>1, <1>4, <1>5, SuggestedIs
------------------------------------------------------------------------------
\* The bytes of a frame on either side.
LEMMA UnitsAre ==
  ASSUME FBase, stream.kind \in Converting
  PROVE  /\ Unit \in Nat /\ Unit > 0 /\ Out \in Nat /\ Out > 0
         /\ stream.framelen \in Nat
         /\ stream.kind = "encode" =>
              /\ dst.rate # 44100 => CodedFrame = {Out}
              /\ CodedFrame = {} \/ \E c \in Nat : c > 0 /\ CodedFrame = {c}
<1>1. stream # Closed /\ dst # NoFormat
  BY DEF FBase, Closed, Converting
<1>2. CASE stream.kind = "decode"
  <2>1. /\ IsValidAC3(src) /\ IsValidPCM(dst)
        /\ stream.framelen = ac3_framesize(src)
    BY <1>1, <1>2 DEF FBase, Opened, Decodes
  <2>2. PICK i \in Rows : Coded(src, "AC3", i)
    BY <1>1, <2>1, SourceIs
  <2>3. dst.align = 2 * dst.ch /\ dst.ch \in 1..6
    BY <1>1, <2>1, DestinationIs
  <2>4. ac3_framesize(src) \in Nat /\ ac3_framesize(src) >= 128
    BY <2>2, CodedFrameIs
  <2>5. Unit = stream.framelen /\ Out = 1536 * dst.align
    BY <1>2 DEF Unit, Out
  <2> QED
    BY <1>2, <2>1, <2>3, <2>4, <2>5
<1>3. CASE stream.kind = "encode"
  <2>1. /\ IsValidAC3(dst) /\ IsValidPCM(src) /\ src.rate = dst.rate
        /\ stream.framelen = EncoderFrame(src.rate, kbps(Min(BitrateRows(dst))))
    BY <1>1, <1>3 DEF FBase, Opened, Encodes
  <2>2. PICK i \in Rows : Coded(dst, "AC3", i)
    BY <1>1, <2>1, DestinationIs
  <2>3. src.align = 2 * src.ch /\ src.ch \in 1..6
    BY <1>1, <2>1, SourceIs
  <2>4. /\ stream.framelen = dst.align /\ dst.align \in Nat /\ dst.align >= 128
        /\ BitrateRows(dst) = {i} /\ dst.rate \in Rates
    BY <2>1, <2>2, CodedFrameIs
  <2>5. Unit = 1536 * src.align /\ Out = stream.framelen
    BY <1>3 DEF Unit, Out
  <2> DEFINE exact == {j \in Rows : kbps(j) = dst.avg \div 125}
             more  == IF dst.rate = 44100 THEN 2 ELSE 0
             coded(j) == FrameBytes(j, dst.rate) + more
  <2>6. CodedFrame = {coded(j) : j \in exact}
    BY DEF CodedFrame
  <2>7. \A j \in exact : j \in Rows /\ coded(j) \in Nat /\ coded(j) > 0
    <3> TAKE j \in exact
    <3> DEFINE b == FrameBytes(j, dst.rate)
    <3>1. b = HeaderFrame(dst.rate, j)
      BY <2>4, FrameBytesAre
    <3>2. HeaderFrame(dst.rate, j) \in Nat /\ HeaderFrame(dst.rate, j) >= 128
      BY <2>4, HeaderFrameIs
    <3>3. b \in Nat /\ b > 0
      BY <3>1, <3>2
    <3> HIDE DEF b
    <3>4. coded(j) = b + more
      BY DEF b
    <3> QED
      BY <3>3, <3>4
  <2>8. exact = {} \/ \E j \in Rows : exact = {j}
    <3>1. \A j, l \in exact : j = l
      BY BitRatesApart
    <3> QED
      BY <3>1
  <2>9. BitrateRows(dst) =
          IF exact = {} /\ dst.rate = 44100
          THEN {j \in Rows : Refined(FrameBytes(j, 44100)) = dst.avg} ELSE exact
    BY DEF BitrateRows
  <2>10. ASSUME dst.rate # 44100 PROVE CodedFrame = {Out}
    <3>1. exact = {i}
      BY <2>4, <2>9, <2>10
    <3>2. FrameBytes(i, dst.rate) = dst.align
      BY <2>2, AlignIs
    <3>3. coded(i) = dst.align
      BY <2>4, <2>10, <3>2
    <3> HIDE DEF exact, coded
    <3>4. CodedFrame = {dst.align}
      BY <2>6, <3>1, <3>3
    <3> QED
      BY <2>4, <2>5, <3>4
  <2> HIDE DEF exact, coded
  <2>11. CodedFrame = {} \/ \E c \in Nat : c > 0 /\ CodedFrame = {c}
    BY <2>6, <2>7, <2>8
  <2> QED
    BY <1>3, <2>3, <2>4, <2>5, <2>10, <2>11
<1> QED
  BY <1>2, <1>3 DEF Converting

LEMMA GreatestOfOne == ASSUME NEW a \in Int PROVE Max({a}) = a
  BY DEF Max

\* Division, where the divisor is any.
LEMMA Divided ==
  ASSUME NEW n \in Nat, NEW u \in Nat, u > 0
  PROVE  /\ n \div u \in Nat /\ n % u \in Nat /\ n % u < u
         /\ n = u * (n \div u) + (n % u)
  OBVIOUS

LEMMA SameQuotient ==
  ASSUME NEW u \in Nat, u > 0, NEW a \in Nat, NEW q \in Nat, NEW r \in Nat, r < u,
         NEW t \in Nat, t < u, u * a + t = u * q + r
  PROVE  q = a
<1>1. CASE q < a
  <2>1. u * q + u <= u * a
    <3>1. u * (q + 1) <= u * a
      BY <1>1
    <3> QED
      BY <3>1
  <2> QED
    BY <2>1
<1>2. CASE q > a
  <2>1. u * a + u <= u * q
    <3>1. u * (a + 1) <= u * q
      BY <1>2
    <3> QED
      BY <3>1
  <2> QED
    BY <2>1
<1> QED
  BY <1>1, <1>2

LEMMA TimesOrdered ==
  ASSUME NEW a \in Nat, NEW b \in Nat, NEW c \in Nat, a <= b
  PROVE  a * c <= b * c /\ c * a <= c * b
  OBVIOUS

\* The frames that a buffer completes are not more than it is counted as.
LEMMA FramesCounted ==
  ASSUME NEW h \in Nat, NEW n \in Nat, NEW u \in Nat, u > 0, h < u
  PROVE  (h + n) \div u <= (n + u - 1) \div u
<1> DEFINE q == (h + n) \div u
           p == (n + u - 1) \div u
<1>1. q \in Nat /\ u * q <= h + n
  BY Divided
<1>2. n + u - 1 \in Nat
  OBVIOUS
<1>3. p \in Nat /\ n + u - 1 < u * p + u
  BY <1>2, Divided
<1> HIDE DEF q, p
<1> SUFFICES ASSUME p < q PROVE FALSE
  BY <1>1, <1>3 DEF q, p
<1>4. u * (p + 1) <= u * q
  BY <1>1, <1>3, TimesOrdered
<1>5. u * (p + 1) = u * p + u
  BY <1>3
<1> QED
  BY <1>1, <1>3, <1>4, <1>5

\* At least one.
LEMMA AtLeastOne ==
  ASSUME NEW n \in Nat
  PROVE  Max({n, 1}) \in Nat /\ Max({n, 1}) >= n /\ (n >= 1 => Max({n, 1}) = n)
<1>1. Max({n, 1}) = IF n >= 1 THEN n ELSE 1
  BY Extremes
<1> QED
  BY <1>1

LEMMA ProductInNat == ASSUME NEW a \in Nat, NEW b \in Nat PROVE a * b \in Nat
  OBVIOUS

LEMMA SourceForIs ==
  ASSUME FBase, stream.kind \in Converting, NEW n \in Nat, NEW m \in SourceFor(n)
  PROVE  m \in Nat
<1>1. /\ Unit \in Nat /\ Unit > 0 /\ Out \in Nat /\ Out > 0 /\ stream.framelen \in Nat
  BY UnitsAre
<1>2. CASE stream.kind = "encode"
  <2> DEFINE k == IF CodedFrame = {} THEN 1 ELSE Max({n \div Max(CodedFrame), 1})
  <2>1. m = Unit * k
    BY <1>2 DEF SourceFor
  <2>2. k \in Nat
    <3>1. CASE CodedFrame = {}
      BY <3>1
    <3>2. CASE CodedFrame # {}
      <4>1. PICK c \in Nat : c > 0 /\ CodedFrame = {c}
        BY <1>2, <3>2, UnitsAre
      <4>2. Max(CodedFrame) = c
        BY <4>1, GreatestOfOne
      <4>3. n \div c \in Nat
        BY <4>1, Divided
      <4> QED
        BY <3>2, <4>2, <4>3, AtLeastOne
    <3> QED
      BY <3>1, <3>2
  <2> HIDE DEF k
  <2> QED
    BY <1>1, <2>1, <2>2, ProductInNat
<1>3. CASE stream.kind = "decode"
  <2> DEFINE k == Max({n \div Out, 1})
  <2>1. m = k * (stream.framelen + 2)
    BY <1>3 DEF SourceFor
  <2>2. n \div Out \in Nat
    BY <1>1, Divided
  <2>3. k \in Nat
    BY <2>2, AtLeastOne
  <2>4. stream.framelen + 2 \in Nat
    BY <1>1
  <2> HIDE DEF k
  <2> QED
    BY <2>1, <2>3, <2>4, ProductInNat
<1> QED
  BY <1>2, <1>3 DEF Converting

\* What is delivered at once, and how often for a frame.
LEMMA PiecesAre ==
  ASSUME FBase, stream.kind \in Converting
  PROVE  /\ Piece \in Nat /\ Piece > 0 /\ Pieces \in Nat /\ Pieces > 0
         /\ stream.kind = "encode" => Piece = 1 /\ Pieces = stream.framelen /\ Pieces = Out
         /\ stream.kind = "decode" => Piece = 256 * dst.align /\ Pieces = 6 /\ Out = 6 * Piece
<1>1. Out \in Nat /\ Out > 0
  BY UnitsAre
<1>2. CASE stream.kind = "encode"
  BY <1>1, <1>2 DEF Piece, Pieces, Out
<1>3. CASE stream.kind = "decode"
  <2>1. stream # Closed /\ dst # NoFormat
    BY <1>3 DEF FBase, Closed
  <2>2. IsValidPCM(dst)
    BY <1>3, <2>1 DEF FBase, Opened, Decodes
  <2>3. dst.align = 2 * dst.ch /\ dst.ch \in 1..6
    BY <2>1, <2>2, DestinationIs
  <2> QED
    BY <1>3, <2>3 DEF Piece, Pieces, Out
<1> QED
  BY <1>2, <1>3 DEF Converting

\* No answer is without room.
LEMMA RoomIs ==
  ASSUME FBase, Answered
  PROVE  /\ size.src \in Nat /\ Room \in Nat /\ Room >= 1 /\ Limit \in Int
         /\ stream.kind = "encode" => Room = size.dst
<1>1. /\ stream.kind \in Converting
      /\ Unit \in Nat /\ Unit > 0 /\ Out \in Nat /\ Out > 0
  BY UnitsAre DEF Answered
<1>2. /\ Piece \in Nat /\ Piece > 0 /\ (stream.kind = "encode" => Piece = 1)
      /\ stream.kind = "decode" => Piece = 256 * dst.align /\ Out = 6 * Piece
  BY <1>1, PiecesAre
<1>3. size.src \in Nat /\ size.dst \in Nat /\ size.dst >= Piece
  <2>1. ASSUME NEW n \in Nat, n > 0,
               size = [query |-> "SOURCE", src |-> n, dst |-> DestinationFor(n)]
        PROVE  size.src \in Nat /\ size.dst \in Nat /\ size.dst >= Piece
    <3> DEFINE q == (n + Unit - 1) \div Unit
               c == FramesOf(n)
    <3>1. n + Unit - 1 \in Nat
      BY <1>1
    <3>2. q \in Nat
      BY <1>1, <3>1, Divided
    <3>3. c \in Nat /\ c >= 1
      <4>1. c = Max({q, 1})
        BY DEF FramesOf
      <4>2. Max({q, 1}) = IF q >= 1 THEN q ELSE 1
        BY <3>2, Extremes
      <4> HIDE DEF q, c
      <4> QED
        BY <3>2, <4>1, <4>2
    <3> HIDE DEF q, c
    <3>4. CASE stream.kind = "decode"
      <4>1. size.dst = c * Out
        BY <2>1, <3>4 DEF DestinationFor, c
      <4>2. 1 * Out <= c * Out /\ c * Out \in Nat
        BY <1>1, <3>3, TimesOrdered, ProductInNat
      <4> QED
        BY <1>2, <2>1, <3>4, <4>1, <4>2
    <3>5. CASE stream.kind = "encode" /\ CodedFrame = {}
      BY <1>2, <2>1, <3>5 DEF DestinationFor
    <3>6. CASE stream.kind = "encode" /\ CodedFrame # {}
      <4>1. PICK f \in Nat : f > 0 /\ CodedFrame = {f}
        BY <1>1, <3>6, UnitsAre
      <4>2. size.dst = c * f
        BY <2>1, <3>6, <4>1, GreatestOfOne DEF DestinationFor, c
      <4>3. 1 * f <= c * f /\ c * f \in Nat
        BY <3>3, <4>1, TimesOrdered, ProductInNat
      <4> QED
        BY <1>2, <2>1, <3>6, <4>1, <4>2, <4>3
    <3> QED
      BY <1>1, <3>4, <3>5, <3>6 DEF Converting
  <2>2. ASSUME NEW n \in Nat, NEW m \in SourceFor(n), n > 0,
               size = [query |-> "DESTINATION", src |-> m, dst |-> n]
        PROVE  size.src \in Nat /\ size.dst \in Nat /\ size.dst >= Piece
    <3>1. m \in Nat
      BY <1>1, SourceForIs
    <3>2. stream.kind = "decode" => n >= Piece
      <4> SUFFICES ASSUME stream.kind = "decode", n < Piece PROVE FALSE
        BY <1>2
      <4>1. SourceFor(n) = {}
        BY <1>2 DEF SourceFor
      <4> QED
        BY <2>2, <4>1
    <3> QED
      BY <1>1, <1>2, <2>2, <3>1, <3>2 DEF Converting
  <2> QED
    BY <2>1, <2>2 DEF Answered
<1>4. Room \in Nat /\ Room >= 1
  <2> DEFINE d == size.dst
             p == Piece
             r == d \div p
  <2>1. d \in Nat /\ p \in Nat /\ p > 0 /\ p <= d
    BY <1>2, <1>3
  <2>2. Room = r
    BY DEF Room
  <2> HIDE DEF d, p
  <2>3. r \in Nat /\ d % p \in Nat /\ d % p < p /\ d = p * r + (d % p)
    BY <2>1, Divided
  <2> HIDE DEF r
  <2>4. r # 0
    BY <2>1, <2>3
  <2> QED
    BY <2>2, <2>3, <2>4
<1>5. stream.kind = "encode" => Room = size.dst
  BY <1>2, <1>3 DEF Room
<1> QED
  BY <1>3, <1>4, <1>5 DEF Limit

\* What a call wants to deliver is what is left over and what it completes.
LEMMA WantedIs ==
  ASSUME FBase, Answered, NEW h \in Nat, NEW b \in Nat, h < Unit
  PROVE  /\ Completed(h) \in Nat /\ (h + size.src) % Unit \in Nat
         /\ (h + size.src) % Unit < Unit
         /\ h + size.src = Unit * Completed(h) + ((h + size.src) % Unit)
         /\ Completed(h) * Pieces \in Nat /\ Wanted(h, b) \in Int /\ Wanted(h, b) >= b
         /\ Wanted(h, b) <= b + Completed(h) * Pieces
         /\ PutOff(h) => stream.kind = "decode" /\ ((h + size.src) % Unit) + size.src < Unit
<1>1. /\ stream.kind \in Converting /\ size.src \in Nat /\ Unit \in Nat /\ Unit > 0
      /\ Pieces \in Nat /\ Pieces > 0
  BY UnitsAre, PiecesAre, RoomIs DEF Answered
<1> DEFINE n == size.src
           u == Unit
           k == (h + n) \div u
           r == (h + n) % u
           p == Pieces
<1>2. Completed(h) = k
  BY DEF Completed
<1>3. n \in Nat /\ u \in Nat /\ u > 0 /\ h < u /\ h + n \in Nat
  BY <1>1
<1> HIDE DEF n, u
<1>4. k \in Nat /\ r \in Nat /\ r < u /\ h + n = u * k + r
  BY <1>3, Divided
<1>5. Wanted(h, b) = b + k * p - (IF PutOff(h) THEN 1 ELSE 0)
  BY <1>2 DEF Wanted
<1>6. PutOff(h) <=> stream.kind = "decode" /\ k > 0 /\ 2 * n - (k * u - h) < u
  BY <1>2 DEF PutOff, n, u
<1> HIDE DEF k, r, p
<1>7. k * p \in Nat /\ (k > 0 => k * p >= 1)
  <2>1. p \in Nat /\ p > 0
    BY <1>1 DEF p
  <2>2. k * p \in Nat
    BY <1>4, <2>1, ProductInNat
  <2>3. ASSUME k > 0 PROVE 1 * p <= k * p
    BY <1>4, <2>1, <2>3, TimesOrdered
  <2> QED
    BY <2>1, <2>2, <2>3
<1>8. Wanted(h, b) \in Int /\ Wanted(h, b) >= b /\ Wanted(h, b) <= b + k * p
  BY <1>4, <1>5, <1>6, <1>7
<1>9. PutOff(h) => stream.kind = "decode" /\ r + n < u
  <2>1. k * u = u * k /\ u * k \in Nat
    BY <1>3, <1>4, ProductInNat
  <2> QED
    BY <1>3, <1>4, <1>6, <2>1
<1> QED
  BY <1>2, <1>4, <1>7, <1>8, <1>9 DEF n, u, r, p

\* The frames that a call completes are not more than its source was counted as.
LEMMA DecodeRoom ==
  ASSUME FBase, Answered, Promised, stream.kind = "decode", NEW h \in Nat, h < Unit
  PROVE  \E c \in Nat : c >= 1 /\ Room = 6 * c /\ Completed(h) <= c
<1>1. /\ Unit \in Nat /\ Unit > 0 /\ Piece \in Nat /\ Piece > 0 /\ Out = 6 * Piece
  BY UnitsAre, PiecesAre DEF Answered
<1>2. PICK n \in Nat : size = [query |-> "SOURCE", src |-> n, dst |-> DestinationFor(n)]
  BY DEF Answered, Promised
<1> DEFINE q == (n + Unit - 1) \div Unit
           k == (h + n) \div Unit
           c == FramesOf(n)
<1>3. n + Unit - 1 \in Nat /\ h + n \in Nat
  BY <1>1
<1>4. q \in Nat /\ k \in Nat /\ k <= q
  BY <1>1, <1>3, Divided, FramesCounted
<1>5. c \in Nat /\ c >= q /\ c >= 1
  <2>1. c = Max({q, 1})
    BY DEF FramesOf
  <2>2. Max({q, 1}) = IF q >= 1 THEN q ELSE 1
    BY <1>4, Extremes
  <2> HIDE DEF q, c
  <2> QED
    BY <1>4, <2>1, <2>2
<1>6. Completed(h) = k
  BY <1>2 DEF Completed
<1>7. Room = (c * Out) \div Piece
  BY <1>2 DEF Room, DestinationFor
<1> HIDE DEF c, k, q
<1>8. Room = 6 * c
  <2> DEFINE p == Piece
             x == c * Out
  <2>1. x = p * (6 * c) /\ p \in Nat /\ p > 0
    BY <1>1, <1>5
  <2>2. x \in Nat
    BY <1>1, <1>5, ProductInNat
  <2>3. Room = x \div p
    BY <1>7
  <2> HIDE DEF x, p
  <2>4. x \div p \in Nat /\ x % p \in Nat /\ x % p < p /\ x = p * (x \div p) + (x % p)
    BY <2>1, <2>2, Divided
  <2>5. x \div p = 6 * c
    <3> DEFINE q1 == x \div p
               r1 == x % p
               c1 == 6 * c
    <3>1. /\ q1 \in Nat /\ r1 \in Nat /\ r1 < p /\ c1 \in Nat
          /\ p * c1 + 0 = p * q1 + r1
      BY <1>5, <2>1, <2>2, <2>4
    <3> HIDE DEF q1, r1, c1
    <3>2. q1 = c1
      BY <2>1, <3>1, SameQuotient
    <3> QED
      BY <3>2 DEF q1, c1
  <2> QED
    BY <2>3, <2>5
<1> QED
  BY <1>4, <1>5, <1>6, <1>8

LEMMA EncodeRoom ==
  ASSUME FBase, Answered, Promised, stream.kind = "encode", NEW h \in Nat, h < Unit
  PROVE  Completed(h) * Pieces <= Room
<1>1. /\ Unit \in Nat /\ Unit > 0 /\ Out \in Nat /\ Out > 0 /\ CodedFrame = {Out}
  BY UnitsAre DEF Answered, Promised
<1>2. Max(CodedFrame) = Out
  BY <1>1, GreatestOfOne
<1>3. Pieces = Out /\ Room = size.dst /\ Out = stream.framelen
  BY PiecesAre, RoomIs DEF Answered
<1>4. ASSUME NEW n \in Nat, size = [query |-> "SOURCE", src |-> n, dst |-> DestinationFor(n)]
      PROVE  Completed(h) * Out <= size.dst
  <2> DEFINE q == (n + Unit - 1) \div Unit
             k == (h + n) \div Unit
             c == FramesOf(n)
  <2>1. n + Unit - 1 \in Nat /\ h + n \in Nat
    BY <1>1
  <2>2. q \in Nat /\ k \in Nat /\ k <= q
    BY <1>1, <2>1, Divided, FramesCounted
  <2>3. c \in Nat /\ c >= q
    BY <2>2, AtLeastOne DEF FramesOf
  <2>4. size.dst = c * Out
    BY <1>1, <1>2, <1>4 DEF DestinationFor
  <2>5. Completed(h) = k
    BY <1>4 DEF Completed
  <2> HIDE DEF q, k, c
  <2>6. k <= c
    BY <2>2, <2>3
  <2> QED
    BY <1>1, <2>2, <2>3, <2>4, <2>5, <2>6, TimesOrdered
<1>5. ASSUME NEW n \in Nat, NEW m \in SourceFor(n),
             size = [query |-> "DESTINATION", src |-> m, dst |-> n]
      PROVE  Completed(h) * Out <= size.dst
  <2> DEFINE k == n \div Out
  <2>1. n >= Out
    BY <1>3, <1>5 DEF Promised
  <2>2. k \in Nat /\ n % Out \in Nat /\ n = Out * k + (n % Out) /\ n % Out < Out
    BY <1>1, Divided
  <2>3. k >= 1
    <3> HIDE DEF k
    <3> SUFFICES ASSUME k = 0 PROVE FALSE
      BY <2>2
    <3> QED
      BY <1>1, <2>1, <2>2
  <2>4. m = Unit * k
    <3>1. m = Unit * Max({k, 1})
      BY <1>1, <1>2, <1>5 DEF SourceFor
    <3>2. Max({k, 1}) = k
      BY <2>2, <2>3, AtLeastOne
    <3> QED
      BY <3>1, <3>2
  <2>5. Completed(h) = (h + m) \div Unit /\ size.dst = n
    BY <1>5 DEF Completed
  <2> DEFINE d == (h + m) \div Unit
             r == (h + m) % Unit
  <2> HIDE DEF k
  <2>6. m \in Nat /\ h + m \in Nat
    BY <1>1, <2>2, <2>4, ProductInNat
  <2>7. d \in Nat /\ r \in Nat /\ r < Unit /\ h + m = Unit * d + r
    BY <1>1, <2>6, Divided
  <2> HIDE DEF d, r
  <2>8. d <= k
    <3> SUFFICES ASSUME k < d PROVE FALSE
      BY <2>2, <2>7
    <3>1. k + 1 <= d /\ k + 1 \in Nat
      BY <2>2, <2>7
    <3>2. Unit * (k + 1) <= Unit * d
      BY <1>1, <2>7, <3>1, TimesOrdered
    <3>3. Unit * (k + 1) = Unit * k + Unit
      BY <1>1, <2>2
    <3> QED
      BY <1>1, <2>4, <2>6, <2>7, <3>2, <3>3
  <2>9. d * Out <= k * Out /\ k * Out = Out * k
    BY <1>1, <2>2, <2>7, <2>8, TimesOrdered
  <2>10. k * Out \in Nat /\ d * Out \in Nat
    BY <1>1, <2>2, <2>7, ProductInNat
  <2> QED
    BY <2>2, <2>5, <2>9, <2>10 DEF d
<1> QED
  BY <1>3, <1>4, <1>5 DEF Answered

\* The room, for a stream that was given what it was promised.
LEMMA RoomIsEnough ==
  ASSUME FBase, Answered, Promised, NEW h \in Nat, NEW b \in Nat, NEW l \in Nat, h < Unit,
         LeftOver(h, b, l)
  PROVE  /\ stream.kind = "encode" => Wanted(h, b) <= Room
         /\ stream.kind = "decode" => Wanted(h, b) <= Room + 1
         /\ stream.kind = "decode" /\ (b = 0 \/ size.src <= l) => Wanted(h, b) <= Room
<1>1. /\ Completed(h) \in Nat /\ Wanted(h, b) \in Int
      /\ Completed(h) * Pieces \in Nat /\ Wanted(h, b) <= b + Completed(h) * Pieces
  BY WantedIs
<1>2. Room \in Nat /\ Room >= 1 /\ size.src \in Nat
  BY RoomIs
<1>3. CASE stream.kind = "encode"
  <2>1. Completed(h) * Pieces <= Room /\ b = 0
    BY <1>3, EncodeRoom DEF LeftOver
  <2> QED
    BY <1>1, <1>2, <1>3, <2>1
<1>4. CASE stream.kind = "decode"
  <2>1. PICK c \in Nat : c >= 1 /\ Room = 6 * c /\ Completed(h) <= c
    BY <1>4, DecodeRoom
  <2>2. Pieces = 6
    BY <1>4, PiecesAre DEF Converting
  <2>3. b \in {0, 1} /\ (b = 1 => h + l < Unit)
    BY <1>4 DEF LeftOver
  <2>4. Wanted(h, b) <= b + Completed(h) * 6
    BY <1>1, <2>2
  <2>5. Wanted(h, b) <= Room + b
    <3> DEFINE k == Completed(h)
               w == Wanted(h, b)
    <3>1. k \in Nat /\ w \in Int /\ w <= b + k * 6 /\ k <= c
      BY <1>1, <2>1, <2>4
    <3> HIDE DEF k, w
    <3>2. k * 6 <= 6 * c
      BY <2>1, <3>1
    <3>3. w <= 6 * c + b
      BY <2>1, <2>3, <3>1, <3>2
    <3>4. w <= Room + b
      BY <2>1, <3>3
    <3> QED
      BY <3>4 DEF w
  <2>6. ASSUME size.src <= l, b = 1 PROVE Wanted(h, b) <= Room
    <3>1. h + size.src < Unit
      <4>1. Unit \in Nat
        BY <1>4, UnitsAre DEF Converting
      <4> QED
        BY <1>2, <2>3, <2>6, <4>1
    <3>2. Completed(h) = 0
      <4>1. /\ h + size.src = Unit * Completed(h) + ((h + size.src) % Unit)
            /\ (h + size.src) % Unit \in Nat
        BY WantedIs
      <4>2. Unit \in Nat /\ Unit > 0
        BY <1>4, UnitsAre DEF Converting
      <4> DEFINE k == Completed(h)
                 r == (h + size.src) % Unit
                 x == h + size.src
      <4>3. k \in Nat /\ r \in Nat /\ x = Unit * k + r /\ x < Unit /\ x \in Nat
        BY <1>1, <1>2, <3>1, <4>1
      <4> HIDE DEF k, r, x
      <4>4. ASSUME k >= 1 PROVE FALSE
        <5>1. Unit * 1 <= Unit * k
          BY <4>2, <4>3, <4>4, TimesOrdered
        <5>2. Unit * k \in Nat
          BY <4>2, <4>3, ProductInNat
        <5> QED
          BY <4>2, <4>3, <5>1, <5>2
      <4> QED
        BY <4>3, <4>4 DEF k
    <3> QED
      BY <1>1, <1>2, <2>4, <2>6, <3>2
  <2> QED
    BY <1>1, <1>2, <1>4, <2>3, <2>5, <2>6
<1> QED
  BY <1>3, <1>4 DEF Answered, Converting

\* What a call leaves, takes and delivers, in each of its three ends.
LEMMA ConvertedIs ==
  ASSUME FBase, Answered, NEW h \in Nat, NEW b \in Nat, h < Unit
  PROVE  /\ b > Limit => Converted(h, b) =
              [held |-> h, blocks |-> b - Room, used |-> 0, given |-> Room]
         /\ b <= Limit /\ Wanted(h, b) > Limit => \E q \in Nat, r \in Nat :
              /\ r < Pieces /\ Limit - b = Pieces * q + r
              /\ Converted(h, b) =
                   [held |-> 0, blocks |-> b + (q + 1) * Pieces - Room,
                    used |-> (q + 1) * Unit - h, given |-> Room]
         /\ Wanted(h, b) <= Limit => Converted(h, b) =
              [held |-> (h + size.src) % Unit, blocks |-> IF PutOff(h) THEN 1 ELSE 0,
               used |-> size.src, given |-> Wanted(h, b)]
<1>1. Limit \in Int /\ Wanted(h, b) \in Int /\ Wanted(h, b) >= b
  BY RoomIs, WantedIs
<1>2. Pieces \in Nat /\ Pieces > 0
  BY PiecesAre DEF Answered
<1>3. ASSUME b > Limit
      PROVE  Converted(h, b) = [held |-> h, blocks |-> b - Room, used |-> 0, given |-> Room]
  <2>1. ~(b <= Limit) /\ ~(Wanted(h, b) <= Limit)
    BY <1>1, <1>3
  <2> QED
    BY <1>3, <2>1 DEF Converted
<1>4. ASSUME b <= Limit, Wanted(h, b) > Limit
      PROVE  \E q \in Nat, r \in Nat :
               /\ r < Pieces /\ Limit - b = Pieces * q + r
               /\ Converted(h, b) = [held |-> 0, blocks |-> b + (q + 1) * Pieces - Room,
                                     used |-> (q + 1) * Unit - h, given |-> Room]
  <2> DEFINE x == Limit - b
             p == Pieces
             q == x \div p
             r == x % p
  <2>1. x \in Nat /\ p \in Nat /\ p > 0
    BY <1>1, <1>2, <1>4
  <2>2. ~(b > Limit) /\ ~(Wanted(h, b) <= Limit)
    BY <1>1, <1>4
  <2>3. Converted(h, b) = [held |-> 0, blocks |-> b + (q + 1) * Pieces - Room,
                           used |-> (q + 1) * Unit - h, given |-> Room]
    BY <1>4, <2>2 DEF Converted
  <2> HIDE DEF x, p
  <2>4. q \in Nat /\ r \in Nat /\ r < p /\ x = p * q + r
    BY <2>1, Divided
  <2> HIDE DEF q, r
  <2> QED
    BY <2>3, <2>4 DEF x, p
<1>5. ASSUME Wanted(h, b) <= Limit
      PROVE  Converted(h, b) =
               [held |-> (h + size.src) % Unit, blocks |-> IF PutOff(h) THEN 1 ELSE 0,
                used |-> size.src, given |-> Wanted(h, b)]
  <2>1. ~(b > Limit) /\ ~(Wanted(h, b) > Limit)
    BY <1>1, <1>5
  <2> QED
    BY <1>5, <2>1 DEF Converted
<1> QED
  BY <1>3, <1>4, <1>5

\* Whatever the stream has: less than a frame of the source and no negative number
\* of blocks remain, and the call goes on.
LEMMA ConvertedGoesOn ==
  ASSUME FBase, Answered, NEW h \in Nat, NEW b \in Nat, h < Unit
  PROVE  /\ Converted(h, b).held \in Nat /\ Converted(h, b).held < Unit
         /\ Converted(h, b).blocks \in Nat
         /\ Converted(h, b).used = size.src \/ Converted(h, b).given > 0
<1>1. Limit \in Int /\ Wanted(h, b) \in Int /\ Room \in Nat /\ Room >= 1
  BY RoomIs, WantedIs
<1>2. Limit = Room \/ Limit = Room - 1
  BY DEF Limit
<1>3. CASE b > Limit
  <2>1. b - Room \in Nat
    BY <1>1, <1>2, <1>3
  <2> QED
    BY <1>1, <1>3, <2>1, ConvertedIs
<1>4. CASE b <= Limit /\ Wanted(h, b) > Limit
  <2>1. PICK q \in Nat, r \in Nat :
          /\ r < Pieces /\ Limit - b = Pieces * q + r
          /\ Converted(h, b) = [held |-> 0, blocks |-> b + (q + 1) * Pieces - Room,
                                used |-> (q + 1) * Unit - h, given |-> Room]
    BY <1>4, ConvertedIs
  <2>2. Pieces \in Nat /\ Unit \in Nat /\ Unit > 0
    BY PiecesAre, UnitsAre DEF Answered
  <2>3. (q + 1) * Pieces = Pieces * q + Pieces /\ Pieces * q \in Nat
    BY <2>2, ProductInNat
  <2>4. b + (q + 1) * Pieces - Room \in Nat
    <3> DEFINE x == Pieces * q
               y == (q + 1) * Pieces
    <3>1. x \in Nat /\ y = x + Pieces /\ Limit - b = x + r
      BY <2>1, <2>3
    <3> HIDE DEF x, y
    <3>2. b + y - Room \in Nat
      BY <1>1, <1>2, <2>1, <2>2, <3>1
    <3> QED
      BY <3>2 DEF y
  <2> QED
    BY <1>1, <2>1, <2>2, <2>4
<1>5. CASE Wanted(h, b) <= Limit
  <2>1. (h + size.src) % Unit \in Nat /\ (h + size.src) % Unit < Unit
    BY WantedIs
  <2> QED
    BY <1>5, <2>1, ConvertedIs
<1> QED
  BY <1>1, <1>3, <1>4, <1>5

\* And with the buffers it was promised, no more than it had.
LEMMA ConvertedKeeps ==
  ASSUME FBase, Answered, Promised, NEW h \in Nat, NEW b \in Nat, NEW l \in Nat, h < Unit,
         LeftOver(h, b, l), NEW m \in Nat, m <= size.src, b = 1 => m <= l
  PROVE  LeftOver(Converted(h, b).held, Converted(h, b).blocks, m)
<1>1. /\ Limit \in Int /\ Wanted(h, b) \in Int /\ Room \in Nat /\ Room >= 1 /\ size.src \in Nat
      /\ Completed(h) \in Nat
  BY RoomIs, WantedIs
<1>2. Pieces \in Nat /\ Pieces > 0 /\ Unit \in Nat /\ Unit > 0
  BY PiecesAre, UnitsAre DEF Answered
<1>3. CASE stream.kind = "encode"
  <2>1. b = 0 /\ ~PutOff(h) /\ Limit = Room - 1
    BY <1>3 DEF LeftOver, PutOff, Limit
  <2>2. Wanted(h, b) = Completed(h) * Pieces /\ Wanted(h, b) <= Room
    <3>1. Completed(h) * Pieces \in Nat
      BY <1>1, <1>2, ProductInNat
    <3>2. Wanted(h, b) = b + Completed(h) * Pieces - 0
      BY <2>1 DEF Wanted
    <3> QED
      BY <1>3, <2>1, <3>1, <3>2, RoomIsEnough
  <2>3. CASE Wanted(h, b) > Limit
    <3>1. PICK q \in Nat, r \in Nat :
            /\ r < Pieces /\ Limit - b = Pieces * q + r
            /\ Converted(h, b) = [held |-> 0, blocks |-> b + (q + 1) * Pieces - Room,
                                  used |-> (q + 1) * Unit - h, given |-> Room]
      <4>1. b <= Limit
        BY <1>1, <2>1
      <4> QED
        BY <2>3, <4>1, ConvertedIs
    <3> DEFINE k == Completed(h)
               p == Pieces
    <3>2. k \in Nat /\ p \in Nat /\ p > 0 /\ r < p /\ Room = k * p /\ Room - 1 = p * q + r
      BY <1>1, <1>2, <2>1, <2>2, <2>3, <3>1
    <3>3. Converted(h, b).blocks = (q + 1) * p - Room
      BY <1>1, <1>2, <2>1, <3>1
    <3> HIDE DEF k, p
    <3>4. k >= 1 /\ k - 1 \in Nat
      <4> SUFFICES ASSUME k = 0 PROVE FALSE
        BY <3>2
      <4>1. k * p = 0
        BY <3>2
      <4> QED
        BY <1>1, <3>2, <4>1
    <3>5. p * (k - 1) + (p - 1) = p * q + r
      BY <3>2, <3>4
    <3>6. q = k - 1
      <4> DEFINE a == k - 1
      <4>1. a \in Nat /\ p * a + (p - 1) = p * q + r
        BY <3>4, <3>5
      <4> HIDE DEF a
      <4>2. q = a
        BY <3>2, <4>1, SameQuotient
      <4> QED
        BY <4>2 DEF a
    <3>7. (q + 1) * p - Room = 0
      BY <3>2, <3>4, <3>6
    <3> QED
      BY <1>3, <3>3, <3>7 DEF LeftOver
  <2>4. CASE Wanted(h, b) <= Limit
    BY <1>3, <2>1, <2>4, ConvertedIs DEF LeftOver
  <2> QED
    BY <1>1, <2>3, <2>4
<1>4. CASE stream.kind = "decode"
  <2>1. PICK c \in Nat : c >= 1 /\ Room = 6 * c /\ Completed(h) <= c
    BY <1>4, DecodeRoom
  <2>2. Pieces = 6 /\ Limit = Room /\ b \in {0, 1} /\ (b = 1 => h + l < Unit)
    BY <1>4, PiecesAre DEF Converting, LeftOver, Limit
  <2>3. CASE Wanted(h, b) > Limit
    <3>1. b = 1 /\ m < Unit
      BY <1>1, <1>2, <1>4, <2>2, <2>3, RoomIsEnough
    <3>2. PICK q \in Nat, r \in Nat :
            /\ r < Pieces /\ Limit - b = Pieces * q + r
            /\ Converted(h, b) = [held |-> 0, blocks |-> b + (q + 1) * Pieces - Room,
                                  used |-> (q + 1) * Unit - h, given |-> Room]
      <4>1. b <= Limit
        BY <1>1, <2>1, <2>2
      <4> QED
        BY <2>3, <4>1, ConvertedIs
    <3>3. 6 * c - 1 = 6 * q + r /\ r < 6
      BY <2>1, <2>2, <3>1, <3>2
    <3>4. q = c - 1
      BY <2>1, <3>3
    <3>5. b + (q + 1) * Pieces - Room = 1
      BY <2>1, <2>2, <3>1, <3>4
    <3>6. Converted(h, b).blocks = 1 /\ Converted(h, b).held = 0
      BY <3>2, <3>5
    <3> QED
      BY <1>4, <3>1, <3>6 DEF LeftOver
  <2>4. CASE Wanted(h, b) <= Limit
    <3>1. /\ Converted(h, b).held = (h + size.src) % Unit
          /\ Converted(h, b).blocks = IF PutOff(h) THEN 1 ELSE 0
      BY <2>4, ConvertedIs
    <3>2. (h + size.src) % Unit \in Nat
      BY WantedIs
    <3>3. PutOff(h) => ((h + size.src) % Unit) + size.src < Unit
      BY WantedIs
    <3>4. PutOff(h) => ((h + size.src) % Unit) + m < Unit
      BY <1>1, <1>2, <3>2, <3>3
    <3> QED
      BY <1>4, <3>1, <3>4 DEF LeftOver
  <2> QED
    BY <1>1, <2>3, <2>4
<1> QED
  BY <1>3, <1>4 DEF Answered, Converting
------------------------------------------------------------------------------
\* The tests of two formats depend on nothing but them and the settings.
LEMMA SameTests ==
  ASSUME UNCHANGED <<dwFlags, src, dst>>
  PROVE  /\ ListedFormat(src)' = ListedFormat(src) /\ ListedFormat(dst)' = ListedFormat(dst)
         /\ Encodes' = Encodes /\ Decodes' = Decodes /\ Copies' = Copies
<1>1. /\ IsValidPCM(src)' = IsValidPCM(src) /\ IsValidAC3(src)' = IsValidAC3(src)
      /\ IsValidPCM(dst)' = IsValidPCM(dst) /\ IsValidAC3(dst)' = IsValidAC3(dst)
  BY DEF IsValidPCM, IsValidAC3, Extensible
<1>2. /\ ListedFormat(src)' = ListedFormat(src) /\ ListedFormat(dst)' = ListedFormat(dst)
  BY DEF ListedFormat, ListedPcm, Extensible
<1>3. MultichannelAllowed' = MultichannelAllowed
  BY DEF MultichannelAllowed
<1> QED
  BY <1>1, <1>2, <1>3 DEF Encodes, Decodes, Copies

LEMMA SameSuggestions ==
  ASSUME UNCHANGED <<dwFlags, src>>, NEW w, wish' = w
  PROVE  format_suggest(wish)' = format_suggest(w)
<1>1. IsValidPCM(src)' = IsValidPCM(src) /\ IsValidAC3(src)' = IsValidAC3(src)
  BY DEF IsValidPCM, IsValidAC3, Extensible
<1>2. TagOf(wish)' = TagOf(w) /\ TagAllowed(wish)' = TagAllowed(w)
  BY <1>1 DEF TagOf, SuggestedTag, TagAllowed, Extensible
<1>3. SuggestedPcm(wish)' = SuggestedPcm(w)
  BY <1>2 DEF SuggestedPcm
<1>4. SuggestedAC3(wish)' = SuggestedAC3(w)
  BY <1>2 DEF SuggestedAC3
<1> QED
  BY <1>1, <1>2, <1>3, <1>4 DEF format_suggest

LEMMA SameChosen ==
  ASSUME Chosen, UNCHANGED <<dwFlags, src, dst, wish>>
  PROVE  Chosen'
<1>1. ListedFormat(dst)' = ListedFormat(dst)
  BY SameTests
<1>2. PICK w : w = wish
  OBVIOUS
<1>3. format_suggest(wish)' = format_suggest(wish)
  BY <1>2, SameSuggestions
<1> QED
  BY <1>1, <1>3 DEF Chosen

LEMMA SameBase ==
  ASSUME FBase, UNCHANGED <<dwFlags, src, dst, wish, stream>>
  PROVE  FBase'
<1>1. ListedFormat(src)' = ListedFormat(src)
  BY SameTests
<1>2. dst # NoFormat => Chosen'
  BY SameChosen DEF FBase
<1>3. Opened' = Opened
  BY SameTests DEF Opened
<1> QED
  BY <1>1, <1>2, <1>3 DEF FBase

LEMMA SameSizes ==
  ASSUME UNCHANGED <<src, dst, stream>>
  PROVE  /\ Unit' = Unit /\ Out' = Out
         /\ \A n : DestinationFor(n)' = DestinationFor(n) /\ SourceFor(n)' = SourceFor(n)
<1>1. Unit' = Unit /\ Out' = Out /\ CodedFrame' = CodedFrame
  BY DEF Unit, Out, CodedFrame
<1> QED
  BY <1>1 DEF DestinationFor, SourceFor, FramesOf

\* Only stream_convert changes what a stream has.
LEMMA SameHeld ==
  ASSUME FHeld, UNCHANGED <<src, dst, stream, held_vars, calls>>
  PROVE  FHeld'
<1>1. held' = held /\ blocks' = blocks /\ least' = least /\ kept' = kept /\ calls' = calls
  BY DEF held_vars
<1>2. Unit' = Unit /\ stream' = stream
  BY SameSizes
<1>3. LeftOver(held, blocks, least)' <=> LeftOver(held, blocks, least)
  BY <1>1, <1>2 DEF LeftOver
<1> QED
  BY <1>1, <1>2, <1>3 DEF FHeld

LEMMA NothingHeld ==
  ASSUME FBase, Nothing
  PROVE  FHeld
<1>1. stream.kind \in Converting => Unit \in Nat /\ Unit > 0
  BY UnitsAre
<1> QED
  BY <1>1 DEF FHeld, LeftOver, Nothing
------------------------------------------------------------------------------
\* The steps.
LEMMA InitFInv == Init => FInv
<1> SUFFICES ASSUME Init PROVE FInv
  OBVIOUS
<1>1. FBase /\ Nothing /\ stream = Closed /\ size = <<>>
  BY DEF Init, FBase, Nothing, Closed
<1> QED
  BY <1>1, NothingHeld DEF FInv

LEMMA StillNothing ==
  ASSUME Nothing, UNCHANGED <<held_vars, calls>>, FBase'
  PROVE  FHeld' /\ Nothing'
<1>1. Nothing'
  BY DEF Nothing, held_vars
<1>2. (FBase /\ Nothing => FHeld)'
  BY NothingHeld, PTL
<1> QED
  BY <1>1, <1>2

LEMMA ListSourceFInv == ASSUME FInv, ListSource PROVE FInv'
<1>1. PICK s \in Sources : Listed(s[1], s[2]) /\ src' = format_details(s[1], s[2])
  BY DEF ListSource
<1>2. s[1] \in {"PCM", "AC3", "EXTENSIBLE"} /\ s[2] \in Nat
  <2>1. \A i \in 1..3 : Tags[i] \in {"PCM", "AC3", "EXTENSIBLE"}
    BY DEF Tags
  <2> QED
    BY <2>1, ListsAssumption
<1>3. ListedFormat(format_details(s[1], s[2]))
  BY <1>1, <1>2, DetailsAreListed
<1> DEFINE f == format_details(s[1], s[2])
<1> HIDE DEF f
<1>4. ListedFormat(src)'
  BY <1>1, <1>3 DEF ListSource, f, ListedFormat, ListedPcm, Extensible
<1>5. /\ dst' = NoFormat /\ stream' = Closed /\ wish' = <<>> /\ size' = <<>>
      /\ Nothing /\ UNCHANGED <<held_vars, calls>>
  BY DEF ListSource, FInv, FBase
<1>6. FBase'
  BY <1>4, <1>5 DEF FBase, Closed
<1> QED
  BY <1>5, <1>6, StillNothing DEF FInv

LEMMA ListDestinationFInv == ASSUME FInv, ListDestination PROVE FInv'
<1>1. PICK d \in Destinations : Listed(d[1], d[2]) /\ dst' = format_details(d[1], d[2])
  BY DEF ListDestination
<1>2. d[1] \in {"PCM", "AC3", "EXTENSIBLE"} /\ d[2] \in Nat
  <2>1. \A i \in 1..3 : Tags[i] \in {"PCM", "AC3", "EXTENSIBLE"}
    BY DEF Tags
  <2> QED
    BY <2>1, ListsAssumption
<1>3. ListedFormat(format_details(d[1], d[2]))
  BY <1>1, <1>2, DetailsAreListed
<1> DEFINE f == format_details(d[1], d[2])
<1> HIDE DEF f
<1>4. ListedFormat(dst)'
  BY <1>1, <1>3 DEF ListDestination, f, ListedFormat, ListedPcm, Extensible
<1>5. ListedFormat(src)' /\ src' # NoFormat
  BY DEF ListDestination, FInv, FBase, ListedFormat, ListedPcm, Extensible
<1>6. /\ stream' = Closed /\ wish' = <<>> /\ size' = <<>>
      /\ Nothing /\ UNCHANGED <<held_vars, calls>>
  BY DEF ListDestination, FInv, FBase
<1>7. FBase'
  BY <1>4, <1>5, <1>6 DEF FBase, Chosen, Closed
<1> QED
  BY <1>6, <1>7, StillNothing DEF FInv

LEMMA SuggestFInv == ASSUME FInv, Suggest PROVE FInv'
<1>1. PICK w \in Wishes : dst' \in format_suggest(w) /\ wish' = w
  BY DEF Suggest
<1>2. PICK f : f = dst'
  OBVIOUS
<1>3. f.tag # "none"
  <2>1. ListedFormat(src)
    BY DEF Suggest, FInv, FBase
  <2> QED
    BY <1>1, <1>2, <2>1, SuggestedIs DEF SuggestsPcm, SuggestsAC3
<1>4. dst' # NoFormat
  BY <1>2, <1>3 DEF NoFormat, Format
<1>5. Chosen'
  BY <1>1, SameSuggestions DEF Chosen, Suggest
<1>6. ListedFormat(src)' /\ src' # NoFormat
  BY DEF Suggest, FInv, FBase, ListedFormat, ListedPcm, Extensible
<1>7. /\ stream' = Closed /\ size' = <<>> /\ Nothing /\ UNCHANGED <<held_vars, calls>>
  BY DEF Suggest, FInv, FBase
<1>8. FBase'
  BY <1>4, <1>5, <1>6, <1>7 DEF FBase, Closed
<1> QED
  BY <1>7, <1>8, StillNothing DEF FInv

LEMMA stream_openFInv == ASSUME FInv, stream_open PROVE FInv'
<1>1. /\ UNCHANGED <<dwFlags, src, dst, wish>> /\ dst # NoFormat
      /\ size' = <<>> /\ Nothing /\ UNCHANGED <<held_vars, calls>>
  BY DEF stream_open, FInv
<1>2. Encodes' = Encodes /\ Decodes' = Decodes /\ Copies' = Copies
  BY <1>1, SameTests
<1>3. Opened'
  <2> DEFINE e == EncoderFrame(src.rate, kbps(Min(BitrateRows(dst))))
             d == ac3_framesize(src)
  <2>1. e' = e /\ d' = d
    BY <1>1
  <2>2. stream' = CASE Encodes -> [kind |-> "encode", framelen |-> e]
                    [] Decodes -> [kind |-> "decode", framelen |-> d]
                    [] Copies  -> [kind |-> "copy", framelen |-> 0]
                    [] OTHER   -> [kind |-> "refused", framelen |-> 0]
    BY DEF stream_open
  <2>3. Opened' <=>
          /\ Encodes' => stream' = [kind |-> "encode", framelen |-> e']
          /\ ~Encodes' /\ Decodes' => stream' = [kind |-> "decode", framelen |-> d']
          /\ ~Encodes' /\ ~Decodes' /\ Copies' => stream' = [kind |-> "copy", framelen |-> 0]
          /\ ~Encodes' /\ ~Decodes' /\ ~Copies' => stream' = [kind |-> "refused", framelen |-> 0]
    BY DEF Opened
  <2>4. ~(Encodes /\ Decodes) /\ ~(Encodes /\ Copies) /\ ~(Decodes /\ Copies)
    BY DEF Encodes, Decodes, Copies
  <2> HIDE DEF e, d
  <2>5. /\ Encodes => stream' = [kind |-> "encode", framelen |-> e]
        /\ Decodes => stream' = [kind |-> "decode", framelen |-> d]
        /\ Copies  => stream' = [kind |-> "copy", framelen |-> 0]
        /\ ~Encodes /\ ~Decodes /\ ~Copies => stream' = [kind |-> "refused", framelen |-> 0]
    BY <2>2, <2>4
  <2> QED
    BY <1>2, <2>1, <2>3, <2>5
<1>4. FBase'
  <2>1. ListedFormat(src)' /\ Chosen' /\ src # NoFormat
    BY <1>1, SameTests, SameChosen DEF FInv, FBase
  <2> QED
    BY <1>1, <1>3, <2>1 DEF FBase
<1> QED
  BY <1>1, <1>4, StillNothing DEF FInv

LEMMA stream_sizeFInv == ASSUME FInv, stream_size PROVE FInv'
<1>1. /\ UNCHANGED <<dwFlags, src, dst, wish, stream, held_vars, calls>>
      /\ stream.kind \in Converting
  BY DEF stream_size, Converting
<1>2. FBase'
  BY <1>1, SameBase DEF FInv
<1>3. Unit \in Nat /\ Out \in Nat
  BY <1>1, UnitsAre DEF FInv
<1>4. PICK p \in Buffers :
        LET Bytes(frame) == ((p[1] * frame) \div 6) + p[2] IN
        \/ /\ Bytes(Unit) > 0
           /\ size' = [query |-> "SOURCE", src |-> Bytes(Unit), dst |-> DestinationFor(Bytes(Unit))]
        \/ /\ Bytes(Out) > 0
           /\ \E m \in SourceFor(Bytes(Out)) :
                size' = [query |-> "DESTINATION", src |-> m, dst |-> Bytes(Out)]
  BY DEF stream_size
<1> DEFINE Bytes(frame) == ((p[1] * frame) \div 6) + p[2]
<1>5. Bytes(Unit) \in Int /\ Bytes(Out) \in Int
  <2>1. ASSUME NEW a \in Nat, NEW c \in Int, NEW f \in Nat PROVE ((a * f) \div 6) + c \in Int
    OBVIOUS
  <2>2. p[1] \in Nat /\ p[2] \in Int
    BY BuffersAssumption
  <2> QED
    BY <1>3, <2>1, <2>2
<1>6. \/ /\ Bytes(Unit) > 0
         /\ size' = [query |-> "SOURCE", src |-> Bytes(Unit), dst |-> DestinationFor(Bytes(Unit))]
      \/ /\ Bytes(Out) > 0
         /\ \E m \in SourceFor(Bytes(Out)) :
              size' = [query |-> "DESTINATION", src |-> m, dst |-> Bytes(Out)]
  BY <1>4
<1> HIDE DEF Bytes
<1>7. \A n : DestinationFor(n)' = DestinationFor(n) /\ SourceFor(n)' = SourceFor(n)
  BY <1>1, SameSizes
<1>8. Answered'
  <2>1. CASE /\ Bytes(Unit) > 0
             /\ size' = [query |-> "SOURCE", src |-> Bytes(Unit),
                         dst |-> DestinationFor(Bytes(Unit))]
    <3>1. PICK n \in Nat : n = Bytes(Unit)
      BY <1>5, <2>1
    <3>2. n > 0 /\ size' = [query |-> "SOURCE", src |-> n, dst |-> DestinationFor(n)']
      BY <1>7, <2>1, <3>1
    <3> QED
      BY <1>1, <3>2 DEF Answered
  <2>2. CASE /\ Bytes(Out) > 0
             /\ \E m \in SourceFor(Bytes(Out)) :
                  size' = [query |-> "DESTINATION", src |-> m, dst |-> Bytes(Out)]
    <3>1. PICK n \in Nat : n = Bytes(Out)
      BY <1>5, <2>2
    <3>2. n > 0 /\ \E m \in SourceFor(n)' : size' = [query |-> "DESTINATION", src |-> m, dst |-> n]
      BY <1>7, <2>2, <3>1
    <3> QED
      BY <1>1, <3>2 DEF Answered
  <2> QED
    BY <1>6, <2>1, <2>2
<1>9. FHeld'
  BY <1>1, SameHeld DEF FInv
<1> QED
  BY <1>1, <1>2, <1>8, <1>9 DEF FInv, Closed, Converting

LEMMA stream_convertFInv == ASSUME FInv, stream_convert PROVE FInv'
<1>1. /\ UNCHANGED <<dwFlags, src, dst, wish, stream>> /\ FBase /\ FHeld /\ Answered
      /\ size' = <<>> /\ calls' = calls + 1
  BY DEF stream_convert, FInv
<1>2. FBase' /\ Unit' = Unit
  BY <1>1, SameBase, SameSizes
<1>3. stream.kind \in Converting /\ stream # Closed /\ Unit \in Nat /\ Unit > 0
  BY <1>1, UnitsAre DEF Answered, Closed, Converting
<1>4. size.src \in Nat
  BY <1>1, RoomIs
<1>5. PICK start \in BOOLEAN :
        /\ held' = Converted(Held(start), Pending(start)).held
        /\ blocks' = Converted(Held(start), Pending(start)).blocks
        /\ least' = IF start \/ calls = 0 THEN size.src ELSE Min({least, size.src})
        /\ kept' = (Promised /\ (start \/ kept))
  BY DEF stream_convert
<1>6. PICK h \in Nat, b \in Nat :
        /\ h = Held(start) /\ b = Pending(start)
        /\ h < Unit /\ (calls = 0 => b = 0) /\ (start => h = 0 /\ b = 0)
        /\ ~start => h = held /\ b = blocks
  BY <1>1, <1>3 DEF Held, Pending, FHeld
<1>7. held' = Converted(h, b).held /\ blocks' = Converted(h, b).blocks
  BY <1>5, <1>6
<1>8. held' \in Nat /\ held' < Unit /\ blocks' \in Nat
  BY <1>1, <1>6, <1>7, ConvertedGoesOn
<1>9. least' \in Nat /\ least' <= size.src /\ (~start /\ calls # 0 => least' <= least)
  <2>1. least \in Nat
    BY <1>1 DEF FHeld
  <2>2. least \in Int /\ size.src \in Int
    BY <1>4, <2>1
  <2>3. Min({least, size.src}) = IF least <= size.src THEN least ELSE size.src
    BY <2>2, Extremes
  <2> QED
    BY <1>4, <1>5, <2>1, <2>3
<1>10. ASSUME kept' PROVE LeftOver(held', blocks', least')
  <2>1. Promised /\ (start \/ kept)
    BY <1>5, <1>10
  <2>2. PICK l \in Nat : LeftOver(h, b, l) /\ (b = 1 => least' <= l)
    <3>1. CASE b = 0
      BY <1>9, <3>1 DEF LeftOver
    <3>2. CASE b # 0
      <4>1. ~start /\ calls # 0 /\ kept /\ h = held /\ b = blocks
        BY <1>6, <2>1, <3>2
      <4> QED
        BY <1>1, <1>9, <4>1 DEF FHeld
    <3> QED
      BY <3>1, <3>2
  <2>3. PICK m \in Nat : m = least'
    BY <1>9
  <2>4. m <= size.src /\ (b = 1 => m <= l)
    BY <1>9, <2>2, <2>3
  <2>5. LeftOver(Converted(h, b).held, Converted(h, b).blocks, m)
    BY <1>1, <1>6, <2>1, <2>2, <2>4, ConvertedKeeps
  <2> QED
    BY <1>7, <2>3, <2>5
<1>11. LeftOver(held, blocks, least)' <=> LeftOver(held', blocks', least')
  BY <1>1, <1>2 DEF LeftOver
<1>12. calls' \in Nat /\ calls' # 0
  BY <1>1 DEF FHeld
<1>13. FHeld'
  BY <1>2, <1>8, <1>9, <1>10, <1>11, <1>12 DEF FHeld
<1> QED
  BY <1>1, <1>2, <1>3, <1>13 DEF FInv

LEMMA SameFInv == ASSUME FInv, UNCHANGED vars PROVE FInv'
<1>1. UNCHANGED <<dwFlags, src, dst, wish, stream, size, held_vars, calls>>
  BY DEF vars
<1>2. FBase' /\ FHeld' /\ Unit' = Unit /\ Out' = Out
  BY <1>1, SameBase, SameSizes, SameHeld DEF FInv
<1>3. Answered => Answered'
  BY <1>1, <1>2, SameSizes DEF Answered
<1>4. Nothing => Nothing'
  BY <1>1 DEF Nothing, held_vars
<1> QED
  BY <1>1, <1>2, <1>3, <1>4 DEF FInv

LEMMA Inductive == Spec => []FInv
<1>1. FInv /\ [Next]_vars => FInv'
  BY ListSourceFInv, ListDestinationFInv, SuggestFInv, stream_openFInv, stream_sizeFInv,
     stream_convertFInv, SameFInv DEF Next
<1> QED
  BY <1>1, InitFInv, PTL DEF Spec
------------------------------------------------------------------------------
\* Whatever formats and wishes: the list, the decoding stream, with or without
\* nBlockAlign, the encoder and the header of a frame mean the same bytes by a
\* frame of a listed format.
THEOREM FramesAgree == Spec => []FrameLengthsAgree
<1>1. FInv => FrameLengthsAgree
  BY Lengths DEF FInv
<1> QED
  BY <1>1, Inductive, PTL

\* stream_open converts between any two listed formats that the driver claims to
\* convert, and refuses all others.
THEOREM ListsAreOpened == Spec => []ListedOpens
<1>1. FInv => ListedOpens
  BY OpensListed DEF FInv
<1> QED
  BY <1>1, Inductive, PTL

\* stream_open accepts what format_suggest answers, whatever the client prescribed,
\* but for the four kinds of answers that SuggestedOpens names.
THEOREM SuggestionsAreOpened == Spec => []SuggestedOpens
<1>1. FInv => SuggestedOpens
  BY OpensSuggested DEF FInv
<1> QED
  BY <1>1, Inductive, PTL

\* Whatever bytes of source and destination a client asks stream_size about, and
\* whatever calls came before, with START or without: for a stream that was given the
\* buffers of such answers since it was opened or started, stream_size names room for
\* all that a stream_convert call delivers, the block that the call before put off
\* included; when decoding, for a block less where RoomSuffices says so.
THEOREM BuffersSuffice == Spec => []RoomSuffices
<1>1. FInv => RoomSuffices
  <2> SUFFICES ASSUME FInv, size # <<>>, Promised, NEW start \in BOOLEAN, start \/ kept
               PROVE  LET wanted == Wanted(Held(start), Pending(start)) IN
                      /\ stream.kind = "encode" => wanted <= Room
                      /\ stream.kind = "decode" => wanted <= Room + 1
                      /\ stream.kind = "decode" /\ (start \/ size.src <= least) => wanted <= Room
    BY DEF RoomSuffices
  <2>1. FBase /\ FHeld /\ Answered
    BY DEF FInv
  <2>2. Unit \in Nat /\ Unit > 0
    BY <2>1, UnitsAre DEF Answered
  <2>3. PICK h \in Nat, b \in Nat, l \in Nat :
          /\ h = Held(start) /\ b = Pending(start) /\ h < Unit /\ LeftOver(h, b, l)
          /\ start => b = 0
          /\ ~start => l = least
    <3>1. CASE start
      <4>1. Held(start) = 0 /\ Pending(start) = 0
        BY <3>1 DEF Held, Pending
      <4>2. LeftOver(0, 0, 0)
        BY DEF LeftOver
      <4>3. 0 < Unit
        BY <2>2
      <4> QED
        BY <3>1, <4>1, <4>2, <4>3
    <3>2. CASE ~start
      BY <2>1, <3>2 DEF Held, Pending, FHeld, Answered
    <3> QED
      BY <3>1, <3>2
  <2>4. /\ stream.kind = "encode" => Wanted(h, b) <= Room
        /\ stream.kind = "decode" => Wanted(h, b) <= Room + 1
        /\ stream.kind = "decode" /\ (b = 0 \/ size.src <= l) => Wanted(h, b) <= Room
    BY <2>1, <2>3, RoomIsEnough
  <2> QED
    BY <2>3, <2>4
<1> QED
  BY <1>1, Inductive, PTL

\* Whatever a stream is left with, by rooms that were too small or by those of other
\* queries: no call with the buffers of an answer of stream_size leaves both its source
\* and its destination as they were.
THEOREM CallsGoOn == Spec => []CallsProgress
<1>1. FInv => CallsProgress
  <2> SUFFICES ASSUME FInv, size # <<>>, NEW start \in BOOLEAN
               PROVE  LET c == Converted(Held(start), Pending(start)) IN
                      c.used = size.src \/ c.given > 0
    BY DEF CallsProgress
  <2>1. FBase /\ FHeld /\ Answered
    BY DEF FInv
  <2>2. Unit \in Nat /\ Unit > 0
    BY <2>1, UnitsAre DEF Answered
  <2>3. PICK h \in Nat, b \in Nat : h = Held(start) /\ b = Pending(start) /\ h < Unit
    BY <2>1, <2>2 DEF Held, Pending, FHeld, Answered
  <2>4. Converted(h, b).used = size.src \/ Converted(h, b).given > 0
    BY <2>1, <2>3, ConvertedGoesOn
  <2> QED
    BY <2>3, <2>4
<1> QED
  BY <1>1, Inductive, PTL
==============================================================================
