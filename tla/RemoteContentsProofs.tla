------------------------- MODULE RemoteContentsProofs -------------------------
(***************************************************************************)
(* What a record says, for every record, line, network and address: what   *)
(* is drawn beside a code, what the code is drawn as, and what is read of  *)
(* what was meant.                                                         *)
(***************************************************************************)
EXTENDS RemoteContents, RemoteCodecProofs

(***************************************************************************)
(* The screen is always the composition of the state it is shown for, tag  *)
(* and lock included, though it is composed in two steps.                  *)
(***************************************************************************)
ScreenIsComposed == screen = Compose(display)

LEMMA ScreenInvariant == Spec => []ScreenIsComposed
<1>1. Init => ScreenIsComposed
  BY DEF Init, ScreenIsComposed
<1>2. \A state : Recompose(state) => ScreenIsComposed'
  <2> SUFFICES ASSUME NEW state, Recompose(state) PROVE ScreenIsComposed'
    OBVIOUS
  <2> QED
    BY DEF Recompose, ScreenIsComposed
<1>3. ScreenIsComposed /\ [Next]_vars => ScreenIsComposed'
  <2> SUFFICES ASSUME ScreenIsComposed, [Next]_vars PROVE ScreenIsComposed'
    OBVIOUS
  <2>1. CASE Deliver
    BY <2>1, <1>2 DEF Deliver
  <2>2. CASE ToggleLock
    BY <2>2, <1>2 DEF ToggleLock
  <2>3. CASE LoseLink
    BY <2>3, <1>2 DEF LoseLink
  <2>4. CASE UNCHANGED <<display, screen>>
    BY <2>4 DEF ScreenIsComposed
  <2>5. Mean \/ Draft \/ Send \/ Babble \/ Damage \/ Discard \/ UNCHANGED vars
          => UNCHANGED <<display, screen>>
    BY DEF Mean, Draft, Send, Babble, Damage, Discard, vars
  <2> QED
    BY <2>1, <2>2, <2>3, <2>4, <2>5 DEF Next
<1> QED
  BY <1>1, <1>3, PTL DEF Spec

-----------------------------------------------------------------------------
(* Every text and shape of a page with a code stands beside it, whatever   *)
(* the record's values are.                                                *)
ColumnTexts(state) ==
  LET locked == state.screen_locked
  IN  {ColumnText(9, "Primary", locked, IF locked THEN "LOCKED" ELSE "StopBath"),
       ColumnText(23, "Primary", FALSE, IF state.page = "WIFI" THEN "WiFi" ELSE "Gallery"),
       ColumnText(34, "Secondary", FALSE,
                  IF state.page = "WIFI" THEN "page_1_of_2" ELSE "page_2_of_2"),
       ColumnText(45, "Secondary", FALSE, StatusLine(state.status)),
       ColumnText(61, "Secondary", TRUE, state.error),
       Text(HeaderRightX, 9, "Secondary", "RIGHT", locked, 24, "NFC"),
       Placed(ColumnX, 56, "Secondary", "LEFT", FALSE, ColumnWidth, "delivered",
              DeliveredWidth(state.delivered))}

ColumnBands == {ColumnBand(0, HeaderHeight), ColumnBand(ErrorBandY, 12)}

LEMMA PartsOfACodePage ==
  ASSUME NEW state, ShowsACode(state), CodeFits(state), ShowsTheRecord(state)
  PROVE  /\ Whole(state).texts \in Seq(ColumnTexts(state))
         /\ Whole(state).shapes \in Seq(ColumnBands)
<1> DEFINE T == ColumnTexts(state)
           header == ColumnHeader(state.screen_locked, state.nfc_presenting)
           band   == ErrorBand(state, ShowsACode(state))
           page   == CodePage(state)
<1>1. Header(state) = header
  BY DEF Header
<1>2. RecordBody(state) = page
  BY DEF RecordBody, ShowsACode, Active
<1>3. Whole(state) = Then(header, Then(page, band))
  BY <1>1, <1>2 DEF Whole
<1>4. header.texts \in Seq(T) /\ header.shapes \in Seq(ColumnBands)
  <2>1. NfcMarker(state.screen_locked, state.nfc_presenting) \in Seq(T)
    <3>1. Text(HeaderRightX, 9, "Secondary", "RIGHT", state.screen_locked, 24, "NFC") \in T
      BY DEF ColumnTexts
    <3> HIDE DEF T
    <3>2. <<Text(HeaderRightX, 9, "Secondary", "RIGHT", state.screen_locked, 24, "NFC")>> \in Seq(T)
      BY <3>1, SingletonIsASeq
    <3> QED
      BY <3>2, EmptySeq DEF NfcMarker
  <2>2. <<ColumnText(9, "Primary", state.screen_locked,
            IF state.screen_locked THEN "LOCKED" ELSE "StopBath")>> \in Seq(T)
    BY DEF ColumnTexts
  <2>3. header.shapes \in Seq(ColumnBands)
    <3>1. header.shapes = <<ColumnBand(0, HeaderHeight)>> \/ header.shapes = <<>>
      BY DEF ColumnHeader, Part
    <3>2. ColumnBand(0, HeaderHeight) \in ColumnBands
      BY DEF ColumnBands
    <3> HIDE DEF header
    <3> QED
      BY <3>1, <3>2, EmptySeq, SingletonIsASeq
  <2>4. header.texts = <<ColumnText(9, "Primary", state.screen_locked,
                           IF state.screen_locked THEN "LOCKED" ELSE "StopBath")>>
                       \o NfcMarker(state.screen_locked, state.nfc_presenting)
    BY DEF ColumnHeader, Part
  <2> HIDE DEF T
  <2> QED
    BY <2>1, <2>2, <2>3, <2>4, ConcatProperties
<1>5. page.texts \in Seq(T) /\ page.shapes \in Seq(ColumnBands)
  <2>1. DeliveredLine(state) \in Seq(T)
    <3> DEFINE delivered == Placed(ColumnX, 56, "Secondary", "LEFT", FALSE, ColumnWidth,
                                   "delivered", DeliveredWidth(state.delivered))
    <3>1. delivered \in T
      BY DEF ColumnTexts
    <3>2. DeliveredLine(state) = <<delivered>> \/ DeliveredLine(state) = <<>>
      BY DEF DeliveredLine
    <3> HIDE DEF T, delivered
    <3> QED
      BY <3>1, <3>2, EmptySeq, SingletonIsASeq
  <2>2. <<ColumnText(23, "Primary", FALSE, IF state.page = "WIFI" THEN "WiFi" ELSE "Gallery"),
          ColumnText(34, "Secondary", FALSE,
                     IF state.page = "WIFI" THEN "page_1_of_2" ELSE "page_2_of_2"),
          ColumnText(45, "Secondary", FALSE, StatusLine(state.status))>> \in Seq(T)
    BY DEF ColumnTexts
  <2> QED
    BY ZenonT(30), <2>1, <2>2, ConcatProperties, EmptySeq DEF CodePage, Then, Part, Nothing
<1>6. band.texts \in Seq(T) /\ band.shapes \in Seq(ColumnBands)
  <2>1. CASE state.error = "NONE"
    BY <2>1, EmptySeq DEF ErrorBand, Part, Nothing
  <2>2. CASE state.error # "NONE"
    <3>1. /\ band.shapes = <<ColumnBand(ErrorBandY, 12)>>
          /\ band.texts = <<ColumnText(61, "Secondary", TRUE, state.error)>>
      BY <2>2 DEF ErrorBand, Part
    <3>2. ColumnBand(ErrorBandY, 12) \in ColumnBands
      BY DEF ColumnBands
    <3>3. ColumnText(61, "Secondary", TRUE, state.error) \in T
      BY DEF ColumnTexts
    <3> HIDE DEF T, band
    <3> QED
      BY <3>1, <3>2, <3>3, SingletonIsASeq
  <2> QED
    BY <2>1, <2>2
<1> HIDE DEF T, header, band, page
<1>7. Then(page, band).texts \in Seq(T) /\ Then(page, band).shapes \in Seq(ColumnBands)
  BY <1>5, <1>6, ConcatProperties DEF Then, Part
<1>8. Then(header, Then(page, band)).texts \in Seq(T)
      /\ Then(header, Then(page, band)).shapes \in Seq(ColumnBands)
  BY <1>4, <1>7, ConcatProperties DEF Then, Part
<1> QED
  BY <1>3, <1>8 DEF T

LEMMA TextsStandBeside ==
  ASSUME NEW state, NEW text \in ColumnTexts(state)
  PROVE  Apart(TextBox(text), CodeBox)
<1>1. CodeBox.right = 58
  BY DEF CodeBox, QrX, CodeSize
<1>2. CASE text.anchor = "LEFT" /\ text.x = ColumnX
  BY <1>1, <1>2 DEF TextBox, Apart, ColumnX
<1>3. CASE text = Text(HeaderRightX, 9, "Secondary", "RIGHT", state.screen_locked, 24, "NFC")
  <2>1. text.anchor = "RIGHT" /\ text.x = 126 /\ text.width = 18
    BY <1>3 DEF Text, Placed, HeaderRightX, DisplayWidth, Advance, SecondaryAdvance
  <2>2. TextBox(text).left = 108
    BY <2>1 DEF TextBox
  <2> QED
    BY <1>1, <2>2 DEF Apart
<1>4. \A y, font, inverted, label :
        LET t == ColumnText(y, font, inverted, label) IN t.anchor = "LEFT" /\ t.x = ColumnX
  BY DEF ColumnText, Text, Placed
<1>5. LET t == Placed(ColumnX, 56, "Secondary", "LEFT", FALSE, ColumnWidth, "delivered",
                      DeliveredWidth(state.delivered))
      IN  t.anchor = "LEFT" /\ t.x = ColumnX
  BY DEF Placed
<1>6. \/ \E y, font, inverted, label : text = ColumnText(y, font, inverted, label)
      \/ text = Text(HeaderRightX, 9, "Secondary", "RIGHT", state.screen_locked, 24, "NFC")
      \/ text = Placed(ColumnX, 56, "Secondary", "LEFT", FALSE, ColumnWidth, "delivered",
                       DeliveredWidth(state.delivered))
  BY Zenon DEF ColumnTexts
<1> QED
  BY <1>2, <1>3, <1>4, <1>5, <1>6

LEMMA BandsStandBeside ==
  ASSUME NEW shape \in ColumnBands
  PROVE  Apart(ShapeBox(shape), CodeBox)
  BY DEF ColumnBands, ColumnBand, FilledBox, ShapeBox, CodeBox, Apart, ColumnBandX, ColumnX, QrX,
         CodeSize

(* A prefix within a limit has only elements of the whole.                 *)
LEMMA PrefixIsASeq ==
  ASSUME NEW S, NEW s \in Seq(S), NEW limit \in Nat
  PROVE  FirstOf(s, limit) \in Seq(S)
<1> DEFINE n == IF Len(s) < limit THEN Len(s) ELSE limit
<1>1. n \in Nat /\ n <= Len(s)
  BY LenProperties
<1>2. \A i \in 1 .. n : s[i] \in S
  BY <1>1, ElementOfSeq
<1> HIDE DEF n
<1>3. SubSeq(s, 1, n) \in Seq(S)
  BY <1>1, <1>2, SubSeqProperties
<1> QED
  BY <1>3 DEF FirstOf, n

LEMMA ComposedBesideTheCode ==
  ASSUME NEW state, Compose(state).qr_area_shown
  PROVE  /\ Compose(state).texts \in Seq(ColumnTexts(state))
         /\ Compose(state).shapes \in Seq(ColumnBands)
<1>1. ShowsACode(state) /\ CodeFits(state) /\ ShowsTheRecord(state)
  BY DEF Compose
<1>2. Whole(state).texts \in Seq(ColumnTexts(state)) /\ Whole(state).shapes \in Seq(ColumnBands)
  BY <1>1, PartsOfACodePage
<1>3. MaxTexts \in Nat /\ MaxShapes \in Nat
  BY DEF MaxTexts, MaxShapes
<1> QED
  BY <1>2, <1>3, PrefixIsASeq DEF Compose

(***************************************************************************)
(* No text, no band and no frame is ever drawn over a code: whatever the   *)
(* record says, even with a page, a count or an error outside the tables,  *)
(* and whatever the lock and the tag are.                                  *)
(***************************************************************************)
THEOREM CodeIsNeverCovered == Spec => []NothingCoversTheCode
<1>1. ScreenIsComposed => NothingCoversTheCode
  <2> SUFFICES ASSUME ScreenIsComposed, screen.qr_area_shown
               PROVE  NothingCoversTheCode
    BY DEF NothingCoversTheCode
  <2>1. screen.texts \in Seq(ColumnTexts(display)) /\ screen.shapes \in Seq(ColumnBands)
    BY ComposedBesideTheCode DEF ScreenIsComposed
  <2>2. \A k \in DOMAIN screen.texts : screen.texts[k] \in ColumnTexts(display)
    BY <2>1, ElementOfSeq, LenProperties
  <2>3. \A k \in DOMAIN screen.shapes : screen.shapes[k] \in ColumnBands
    BY <2>1, ElementOfSeq, LenProperties
  <2>4. \A k \in DOMAIN screen.texts : Apart(TextBox(screen.texts[k]), CodeBox)
    BY <2>2, TextsStandBeside
  <2>5. \A k \in DOMAIN screen.shapes : Apart(ShapeBox(screen.shapes[k]), CodeBox)
    BY <2>3, BandsStandBeside
  <2> QED
    BY <2>4, <2>5 DEF NothingCoversTheCode, TextBoxes, ShapeBoxes
<1> QED
  BY <1>1, ScreenInvariant, PTL

-----------------------------------------------------------------------------
(* The packing of pixels into bytes keeps them apart, in a row's bytes.    *)
LEMMA BitsAreApart ==
  ASSUME NEW x \in 0 .. CodeSize - 1, NEW y \in 0 .. CodeSize - 1,
         NEW u \in 0 .. CodeSize - 1, NEW v \in 0 .. CodeSize - 1,
         BitAt(x, y) = BitAt(u, v)
  PROVE  x = u /\ y = v
<1>1. x % 8 = u % 8 /\ y * 8 + x \div 8 = v * 8 + u \div 8
  BY DEF BitAt, XbmRowBytes, CodeSize
<1>2. x \div 8 \in 0 .. 7 /\ u \div 8 \in 0 .. 7
  BY DEF CodeSize
<1>3. y = v /\ x \div 8 = u \div 8
  BY <1>1, <1>2 DEF CodeSize
<1>4. x = 8 * (x \div 8) + (x % 8) /\ u = 8 * (u \div 8) + (u % 8)
  BY DEF CodeSize
<1> QED
  BY <1>1, <1>3, <1>4

(* Modules of a code, as columns and rows.                                 *)
Modules(version) == (0 .. SideOf(version) - 1) \X (0 .. SideOf(version) - 1)

(* The pixels of a module are within the bitmap.                           *)
LEMMA ModulesFit ==
  ASSUME NEW version \in Versions, NEW n \in 0 .. SideOf(version) - 1, NEW d \in 0 .. 1
  PROVE  /\ Origin(SideOf(version)) \in Nat
         /\ Origin(SideOf(version)) + n * PixelsPerModule + d \in 0 .. CodeSize - 1
<1>1. \/ version = 1 /\ SideOf(version) = 21 /\ Origin(SideOf(version)) = 8
      \/ version = 2 /\ SideOf(version) = 25 /\ Origin(SideOf(version)) = 4
      \/ version = 3 /\ SideOf(version) = 29 /\ Origin(SideOf(version)) = 0
  <2>1. version = 1 \/ version = 2 \/ version = 3
    BY DEF Versions, QrMaxVersion
  <2> QED
    BY <2>1 DEF SideOf, Origin, CodeSize, PixelsPerModule
<1> QED
  BY <1>1 DEF CodeSize, PixelsPerModule

(***************************************************************************)
(* The bitmap shows the code that was encoded, whatever its modules are: a *)
(* pixel is dark exactly when it is one of the four of a dark module, none *)
(* is set by another, and the rest, the quiet zone with it, is light.      *)
(***************************************************************************)
THEOREM BitmapShowsTheCode ==
  ASSUME NEW version \in Versions, NEW dark \in SUBSET Modules(version),
         NEW x \in 0 .. CodeSize - 1, NEW y \in 0 .. CodeSize - 1
  PROVE  BitmapPixelIsDark(RenderBitmap(SideOf(version), dark), x, y)
         <=> \E module \in dark :
               /\ x - Origin(SideOf(version)) - module[1] * PixelsPerModule \in 0 .. PixelsPerModule - 1
               /\ y - Origin(SideOf(version)) - module[2] * PixelsPerModule \in 0 .. PixelsPerModule - 1
<1> DEFINE origin == Origin(SideOf(version))
           at(n, d) == origin + n * PixelsPerModule + d
<1>1. BitmapPixelIsDark(RenderBitmap(SideOf(version), dark), x, y)
      <=> \E module \in dark, dx \in 0 .. 1, dy \in 0 .. 1 :
            BitAt(x, y) = BitAt(at(module[1], dx), at(module[2], dy))
  BY DEF BitmapPixelIsDark, RenderBitmap, PixelsPerModule
<1>2. ASSUME NEW module \in dark
      PROVE  /\ module[1] \in 0 .. SideOf(version) - 1
             /\ module[2] \in 0 .. SideOf(version) - 1
  BY DEF Modules
<1>3. ASSUME NEW module \in dark, NEW dx \in 0 .. 1, NEW dy \in 0 .. 1
      PROVE  /\ at(module[1], dx) \in 0 .. CodeSize - 1 /\ at(module[2], dy) \in 0 .. CodeSize - 1
             /\ origin \in Nat
  BY <1>2, ModulesFit
<1>4. ASSUME NEW module \in dark, NEW dx \in 0 .. 1, NEW dy \in 0 .. 1
      PROVE  BitAt(x, y) = BitAt(at(module[1], dx), at(module[2], dy))
             <=> x = at(module[1], dx) /\ y = at(module[2], dy)
  BY <1>3, BitsAreApart
<1> HIDE DEF origin
<1>5. ASSUME NEW module \in dark
      PROVE  (\E dx \in 0 .. 1, dy \in 0 .. 1 : x = at(module[1], dx) /\ y = at(module[2], dy))
             <=> /\ x - origin - module[1] * PixelsPerModule \in 0 .. PixelsPerModule - 1
                 /\ y - origin - module[2] * PixelsPerModule \in 0 .. PixelsPerModule - 1
  <2>1. origin \in Nat /\ module[1] \in Int /\ module[2] \in Int
    BY <1>2, <1>3
  <2>2. ASSUME NEW z \in 0 .. CodeSize - 1, NEW n \in Int
        PROVE  (\E d \in 0 .. 1 : z = at(n, d))
               <=> z - origin - n * PixelsPerModule \in 0 .. PixelsPerModule - 1
    BY <2>1 DEF PixelsPerModule, CodeSize
  <2> QED
    BY <2>1, <2>2
<1> QED
  BY <1>1, <1>4, <1>5 DEF origin

-----------------------------------------------------------------------------
(* The data codewords of a version, level by level.                        *)
Codewords == <<<<19, 16, 13, 9>>, <<34, 28, 22, 16>>, <<55, 44, 34, 26>>>>

(* The tables of the encoder give those codewords.                         *)
LEMMA CodewordsOfTheTables ==
  ASSUME NEW version \in Versions, NEW level \in Levels
  PROVE  DataCodewords(version, level) = Codewords[version][level + 1]
<1>1. /\ version = 1 => RawDataModules(version) = 208
      /\ version = 2 => RawDataModules(version) = 359
      /\ version = 3 => RawDataModules(version) = 567
  BY DEF RawDataModules
<1>2. version \in {1, 2, 3} /\ level \in {0, 1, 2, 3}
  BY DEF Versions, QrMaxVersion, Levels
<1>3. CASE level = 0
  BY <1>1, <1>2, <1>3
  DEF DataCodewords, EccCodewordsPerBlock, ErrorCorrectionBlocks, Levels, Codewords
<1>4. CASE level = 1
  BY <1>1, <1>2, <1>4
  DEF DataCodewords, EccCodewordsPerBlock, ErrorCorrectionBlocks, Levels, Codewords
<1>5. CASE level = 2
  BY <1>1, <1>2, <1>5
  DEF DataCodewords, EccCodewordsPerBlock, ErrorCorrectionBlocks, Levels, Codewords
<1>6. CASE level = 3
  BY <1>1, <1>2, <1>6
  DEF DataCodewords, EccCodewordsPerBlock, ErrorCorrectionBlocks, Levels, Codewords
<1> QED
  BY <1>2, <1>3, <1>4, <1>5, <1>6

(* A version holds at a level what the standard says it does.              *)
LEMMA HoldsWhatTheStandardSays ==
  ASSUME NEW kind \in CodeKind, NEW length \in Nat, NEW version \in Versions, NEW level \in Levels
  PROVE  Holds(version, level, kind, length)
         <=> length <= StandardCapacity(kind)[version][level + 1]
<1>1. DataCodewords(version, level) = Codewords[version][level + 1]
  BY CodewordsOfTheTables
<1>2. version \in {1, 2, 3} /\ level \in {0, 1, 2, 3}
  BY DEF Versions, QrMaxVersion, Levels
<1>3. 2 ^ 8 = 256 /\ 2 ^ 9 = 512 /\ 2 ^ 10 = 1024
  OBVIOUS
<1>4. CASE kind = "NUMERIC"
  <2>1. Holds(version, level, kind, length)
        <=> length < 1024 /\ 14 + (10 * length + 2) \div 3 <= 8 * Codewords[version][level + 1]
    BY <1>1, <1>3, <1>4 DEF Holds, TotalBits, CharCountBits, SegmentBits
  <2> QED
    BY <1>2, <1>4, <2>1 DEF StandardCapacity, Codewords
<1>5. CASE kind = "ALPHANUMERIC"
  <2>1. Holds(version, level, kind, length)
        <=> length < 512 /\ 13 + (11 * length + 1) \div 2 <= 8 * Codewords[version][level + 1]
    BY <1>1, <1>3, <1>5 DEF Holds, TotalBits, CharCountBits, SegmentBits
  <2> QED
    BY <1>2, <1>5, <2>1 DEF StandardCapacity, Codewords
<1>6. CASE kind = "BYTE"
  <2>1. Holds(version, level, kind, length)
        <=> length < 256 /\ 12 + 8 * length <= 8 * Codewords[version][level + 1]
    BY <1>1, <1>3, <1>6 DEF Holds, TotalBits, CharCountBits, SegmentBits
  <2> QED
    BY <1>2, <1>6, <2>1 DEF StandardCapacity, Codewords
<1> QED
  BY <1>4, <1>5, <1>6 DEF CodeKind

(* A code of the third version has room for its data in the buffer.        *)
LEMMA TheBufferIsLargeEnough ==
  ASSUME NEW kind \in CodeKind, NEW length \in Nat, length <= StandardCapacity(kind)[3][1]
  PROVE  FitsBuffer(kind, length)
<1>1. BufferLength(QrMaxVersion) = 107
  BY DEF BufferLength, QrMaxVersion, SideOf
<1>2. CASE kind = "NUMERIC"
  BY <1>1, <1>2 DEF FitsBuffer, SegmentBits, StandardCapacity
<1>3. CASE kind = "ALPHANUMERIC"
  BY <1>1, <1>3 DEF FitsBuffer, SegmentBits, StandardCapacity
<1>4. CASE kind = "BYTE"
  BY <1>1, <1>4 DEF FitsBuffer, SegmentBits, StandardCapacity
<1> QED
  BY <1>2, <1>3, <1>4 DEF CodeKind

(* A larger version holds more, and a more robust level less.              *)
LEMMA CapacitiesGrow ==
  ASSUME NEW kind \in CodeKind
  PROVE  /\ \A v \in 1 .. 3, l \in 1 .. 4 : StandardCapacity(kind)[v][l] \in Nat
         /\ \A l \in 1 .. 4 : /\ StandardCapacity(kind)[1][l] < StandardCapacity(kind)[2][l]
                              /\ StandardCapacity(kind)[2][l] < StandardCapacity(kind)[3][l]
         /\ \A v \in 1 .. 3 : /\ StandardCapacity(kind)[v][1] > StandardCapacity(kind)[v][2]
                              /\ StandardCapacity(kind)[v][2] > StandardCapacity(kind)[v][3]
                              /\ StandardCapacity(kind)[v][3] > StandardCapacity(kind)[v][4]
<1>2. CASE kind = "NUMERIC"
  BY <1>2 DEF StandardCapacity
<1>3. CASE kind = "ALPHANUMERIC"
  BY <1>3 DEF StandardCapacity
<1>4. CASE kind = "BYTE"
  BY <1>4 DEF StandardCapacity
<1> QED
  BY <1>2, <1>3, <1>4 DEF CodeKind

(* The version chosen is the least of those that hold the data.            *)
LEMMA VersionIsSmallest ==
  ASSUME NEW kind \in CodeKind, NEW length \in Nat, length <= StandardCapacity(kind)[3][1]
  PROVE  /\ SmallestVersion(kind, length) \in Versions
         /\ length <= StandardCapacity(kind)[SmallestVersion(kind, length)][1]
         /\ SmallestVersion(kind, length)
              = Min({v \in 1 .. 3 : length <= StandardCapacity(kind)[v][1]})
<1> DEFINE capacity == StandardCapacity(kind)
           version == SmallestVersion(kind, length)
           large == {v \in 1 .. 3 : length <= capacity[v][1]}
<1>1. \A v \in 1 .. 3 : Holds(v, 0, kind, length) <=> length <= capacity[v][1]
  BY HoldsWhatTheStandardSays DEF Versions, QrMaxVersion, Levels
<1>2. /\ \A v \in 1 .. 3 : capacity[v][1] \in Nat
      /\ capacity[1][1] < capacity[2][1] /\ capacity[2][1] < capacity[3][1]
  BY CapacitiesGrow
<1>3. version \in Versions /\ Holds(version, 0, kind, length)
      /\ \A smaller \in 1 .. version - 1 : ~Holds(smaller, 0, kind, length)
  <2> SUFFICES \E v \in Versions : /\ Holds(v, 0, kind, length)
                                   /\ \A smaller \in 1 .. v - 1 : ~Holds(smaller, 0, kind, length)
    BY DEF SmallestVersion
  <2>0. length <= capacity[3][1]
    OBVIOUS
  <2> HIDE DEF capacity
  <2>1. CASE length <= capacity[1][1]
    BY <1>1, <2>1 DEF Versions, QrMaxVersion
  <2>2. CASE ~(length <= capacity[1][1]) /\ length <= capacity[2][1]
    <3>1. \A smaller \in 1 .. 2 - 1 : ~Holds(smaller, 0, kind, length)
      BY <1>1, <2>2
    <3> QED
      BY <1>1, <2>2, <3>1 DEF Versions, QrMaxVersion
  <2>3. CASE ~(length <= capacity[2][1])
    <3>1. \A smaller \in 1 .. 3 - 1 : ~Holds(smaller, 0, kind, length)
      BY <1>1, <1>2, <2>3
    <3> QED
      BY <1>1, <2>0, <3>1 DEF Versions, QrMaxVersion
  <2> QED
    BY <2>1, <2>2, <2>3
<1> HIDE DEF capacity, version
<1>4. version \in large
  BY <1>1, <1>3 DEF Versions, QrMaxVersion
<1>5. \A v \in large : version <= v
  <2> SUFFICES ASSUME NEW v \in 1 .. 3, length <= capacity[v][1] PROVE version <= v
    OBVIOUS
  <2>1. v \notin 1 .. version - 1
    BY <1>1, <1>3
  <2> QED
    BY <1>3, <2>1 DEF Versions, QrMaxVersion
<1>6. Min(large) = version
  <2>1. large \in SUBSET Int
    OBVIOUS
  <2> HIDE DEF large
  <2> QED
    BY <1>4, <1>5, <2>1, LeastIs
<1> QED
  BY <1>3, <1>4, <1>6 DEF capacity, version

(* And the level is the most robust that still holds it.                   *)
LEMMA LevelIsGreatest ==
  ASSUME NEW kind \in CodeKind, NEW length \in Nat, NEW version \in Versions,
         length <= StandardCapacity(kind)[version][1]
  PROVE  BoostedLevel(version, kind, length) + 1
           = Max({l \in 1 .. 4 : length <= StandardCapacity(kind)[version][l]})
<1> DEFINE capacity == StandardCapacity(kind)[version]
           level == BoostedLevel(version, kind, length)
           robust == {l \in 1 .. 4 : length <= capacity[l]}
           Best(l) == /\ l > 0 => Holds(version, l, kind, length)
                      /\ \A higher \in l + 1 .. 3 : ~Holds(version, higher, kind, length)
<1>0. version \in 1 .. 3 /\ length <= capacity[1]
  BY DEF Versions, QrMaxVersion
<1>1. \A l \in 0 .. 3 : Holds(version, l, kind, length) <=> length <= capacity[l + 1]
  BY HoldsWhatTheStandardSays DEF Levels
<1>2. /\ \A l \in 1 .. 4 : capacity[l] \in Nat
      /\ capacity[1] > capacity[2] /\ capacity[2] > capacity[3] /\ capacity[3] > capacity[4]
  BY <1>0, CapacitiesGrow
<1> HIDE DEF capacity
<1>3. level \in 0 .. 3 /\ Best(level)
  <2> SUFFICES \E l \in Levels : Best(l)
    BY DEF BoostedLevel, Levels
  <2>1. CASE length <= capacity[4]
    <3>1. Best(3)
      BY <1>1, <2>1
    <3> QED
      BY <3>1 DEF Levels
  <2>2. CASE ~(length <= capacity[4]) /\ length <= capacity[3]
    <3>1. Best(2)
      BY <1>1, <2>2
    <3> QED
      BY <3>1 DEF Levels
  <2>3. CASE ~(length <= capacity[3]) /\ length <= capacity[2]
    <3>1. Best(1)
      BY <1>1, <1>2, <2>3
    <3> QED
      BY <3>1 DEF Levels
  <2>4. CASE ~(length <= capacity[2])
    <3>1. Best(0)
      BY <1>1, <1>2, <2>4
    <3> QED
      BY <3>1 DEF Levels
  <2> QED
    BY <2>1, <2>2, <2>3, <2>4
<1> HIDE DEF level
<1>4. level + 1 \in robust
  BY <1>0, <1>1, <1>3
<1>5. \A l \in robust : level + 1 >= l
  <2> SUFFICES ASSUME NEW l \in 1 .. 4, length <= capacity[l] PROVE level + 1 >= l
    OBVIOUS
  <2>1. l - 1 \in 0 .. 3 /\ (l - 1) + 1 = l
    OBVIOUS
  <2>2. Holds(version, l - 1, kind, length)
    BY <1>1, <2>1
  <2>3. l - 1 \notin level + 1 .. 3
    BY <1>3, <2>2
  <2> QED
    BY <1>3, <2>1, <2>3
<1>6. Max(robust) = level + 1
  <2>1. robust \in SUBSET Int
    OBVIOUS
  <2> HIDE DEF robust
  <2> QED
    BY <1>4, <1>5, <2>1, GreatestIs
<1> QED
  BY <1>6 DEF capacity, level
(* remote_qr_encode finds a code when there is one, and then the smallest. *)
LEMMA CodeFound ==
  ASSUME NEW kind \in CodeKind, NEW length \in Nat \ {0}
  PROVE  /\ QrCanEncode(kind, length) <=> length <= StandardCapacity(kind)[3][1]
         /\ QrCanEncode(kind, length) =>
              QrEncode(kind, length)
                = LET version == SmallestVersion(kind, length)
                  IN  [version |-> version, level |-> BoostedLevel(version, kind, length),
                       side |-> SideOf(version)]
<1> DEFINE capacity == StandardCapacity(kind)
           version == SmallestVersion(kind, length)
           code == [version |-> version, level |-> BoostedLevel(version, kind, length),
                    side |-> SideOf(version)]
           none == \A v \in Versions : ~Holds(v, 0, kind, length)
<1>1. \A v \in 1 .. 3 : Holds(v, 0, kind, length) <=> length <= capacity[v][1]
  BY HoldsWhatTheStandardSays DEF Versions, QrMaxVersion, Levels
<1>2. /\ \A v \in 1 .. 3 : capacity[v][1] \in Nat
      /\ capacity[1][1] < capacity[2][1] /\ capacity[2][1] < capacity[3][1]
  BY CapacitiesGrow
<1>3. none <=> ~(length <= capacity[3][1])
  <2> HIDE DEF capacity
  <2> QED
    BY <1>1, <1>2 DEF Versions, QrMaxVersion
<1>4. length <= capacity[3][1] => FitsBuffer(kind, length)
  BY TheBufferIsLargeEnough
<1>5. QrEncode(kind, length) = IF ~(length <= capacity[3][1]) THEN NoCode ELSE code
  <2> HIDE DEF capacity
  <2> QED
    BY <1>3, <1>4 DEF QrEncode
<1>6. length <= capacity[3][1] => version \in Versions
  BY VersionIsSmallest
<1>7. length <= capacity[3][1] => code # NoCode
  BY <1>6 DEF NoCode, Versions, QrMaxVersion
<1> QED
  BY <1>5, <1>7 DEF QrCanEncode

-----------------------------------------------------------------------------
(* Only decoded records have their values within the tables.               *)
LEMMA DecodedIsValid ==
  ASSUME NEW field, field.type \in {"INTEGER", "ENUMERATION"}, NEW raw,
         DecodeFieldValue(field, raw).error = "NONE"
  PROVE  IntegerIsValid(field, DecodeFieldValue(field, raw).value.integer)
<1>1. PICK value : DecodeFieldValue(field, raw) = DecodeInteger(field, value)
  BY DEF DecodeFieldValue
<1> QED
  BY <1>1 DEF DecodeInteger, Decoded, Refused

(* So a record that was received has every value within its table.         *)
LEMMA RecordsAreValid ==
  ASSUME NEW text, IsARecord(ReceiveLine(text)), NEW i \in {1, 2, 4, 5}
  PROVE  IntegerIsValid(Descriptors["DISPLAY"][i],
                        ReceiveLine(text).message.fields[i].integer)
<1> DEFINE tokens == Tokens(text)
           named == {verb \in Verbs : tokens[1] = <<Word(verb)>>}
           verb == CHOOSE v \in named : TRUE
           results == [k \in 2 .. Len(tokens) |-> DecodeTokenAt(verb, tokens, k)]
           TokenOf(n) == CHOOSE k \in DOMAIN results : FieldIndex(verb, tokens[k]) = n
           fields == DOMAIN Descriptors[verb]
           value == [n \in fields |-> results[TokenOf(n)].value]
           seen == {FieldIndex(verb, tokens[k]) : k \in DOMAIN results}
           faults == {k \in DOMAIN results : results[k].error # "NONE"}
<1>1. ReceiveLine(text) = ParseFields(verb, tokens) /\ ReceiveLine(text).kind = "MESSAGE"
      /\ ReceiveLine(text).message.verb = "DISPLAY"
  <2>1. ReceiveLine(text).kind = "MESSAGE" /\ ReceiveLine(text).message.verb = "DISPLAY"
    BY DEF IsARecord
  <2>2. \A error : ParseError(error).kind # "MESSAGE"
    BY DEF ParseError
  <2> QED
    BY <2>1, <2>2 DEF ReceiveLine, ParseLine
<1> HIDE DEF tokens, verb
<1>2. /\ faults = {} /\ fields \subseteq seen
      /\ ReceiveLine(text).message = [verb |-> verb, fields |-> value]
  <2>1. \A error : ParseError(error).kind # "MESSAGE"
    BY DEF ParseError
  <2>2. ParseFields(verb, tokens) =
          IF faults # {} THEN ParseError(results[Min(faults)].error)
          ELSE IF ~(fields \subseteq seen) THEN ParseError("NO_FIELD")
          ELSE [kind |-> "MESSAGE", message |-> [verb |-> verb, fields |-> value]]
    BY DEF ParseFields
  <2>3. ReceiveLine(text).kind = "MESSAGE" /\ ReceiveLine(text) = ParseFields(verb, tokens)
    BY <1>1
  <2> HIDE DEF faults, fields, seen, value, results
  <2>4. faults = {}
    BY <2>1, <2>2, <2>3
  <2>5. fields \subseteq seen
    BY <2>1, <2>2, <2>3, <2>4
  <2> QED
    BY <2>2, <2>3, <2>4, <2>5
<1>3. verb = "DISPLAY"
  BY <1>1, <1>2
<1>4. i \in fields
  BY <1>3 DEF Descriptors, VerbDescriptor, Verbs
<1>5. /\ TokenOf(i) \in DOMAIN results
      /\ FieldIndex(verb, tokens[TokenOf(i)]) = i
  <2>1. \E k \in DOMAIN results : FieldIndex(verb, tokens[k]) = i
    BY <1>2, <1>4
  <2> HIDE DEF results
  <2> QED
    BY <2>1
<1> DEFINE k == TokenOf(i)
<1>6. results[k].error = "NONE" /\ results[k] = DecodeTokenAt(verb, tokens, k)
  BY <1>2, <1>5
<1>7. ReceiveLine(text).message.fields[i] = results[k].value
  BY <1>2, <1>4
<1> HIDE DEF k, results
<1>8. \A error : error # "NONE" => Refused(error).error # "NONE"
  BY DEF Refused
<1>9. DecodeTokenAt(verb, tokens, k) = DecodeFieldValue(Descriptors[verb][i], ValueOf(tokens[k]))
  BY <1>5, <1>6, <1>8 DEF DecodeTokenAt, k
<1>10. Descriptors[verb][i].type \in {"INTEGER", "ENUMERATION"}
  BY <1>3 DEF Descriptors, VerbDescriptor, Verbs, EnumerationField, IntegerField
<1> QED
  BY <1>3, <1>6, <1>7, <1>9, <1>10, DecodedIsValid

(* The two checks spelt out.                                               *)
LEMMA WhatIsValid ==
  /\ \A name, values, n : IntegerIsValid(EnumerationField(name, values), n)
                           => n \in 0 .. Len(values) - 1
  /\ \A name, low, high, n : IntegerIsValid(IntegerField(name, low, high), n) => n \in low .. high
<1>1. ASSUME NEW name, NEW values, NEW n, IntegerIsValid(EnumerationField(name, values), n)
      PROVE  n \in 0 .. Len(values) - 1
  <2> DEFINE f == EnumerationField(name, values)
  <2>1. f.type = "ENUMERATION" /\ f.values = values
    BY DEF EnumerationField
  <2> HIDE DEF f
  <2>2. IntegerIsValid(f, n)
    BY <1>1 DEF f
  <2> QED
    BY <2>1, <2>2 DEF IntegerIsValid
<1>2. ASSUME NEW name, NEW low, NEW high, NEW n, IntegerIsValid(IntegerField(name, low, high), n)
      PROVE  n \in low .. high
  <2> DEFINE f == IntegerField(name, low, high)
  <2>1. f.type = "INTEGER" /\ f.minimum = low /\ f.maximum = high
    BY DEF IntegerField
  <2> HIDE DEF f
  <2>2. IntegerIsValid(f, n)
    BY <1>2 DEF f
  <2> QED
    BY <2>1, <2>2 DEF IntegerIsValid
<1> QED
  BY <1>1, <1>2

(* What a record can say on the screen.                                    *)
LEMMA RecordsNameTheirValues ==
  ASSUME NEW text, IsARecord(ReceiveLine(text))
  PROVE  LET field(i) == ReceiveLine(text).message.fields[i].integer
         IN  /\ StatusValues[field(1) + 1] \in Range(StatusValues)
             /\ PageValues[field(2) + 1] \in Range(PageValues)
             /\ field(4) \in 0 .. MaxDeliveredCount
             /\ ErrorValues[field(5) + 1] \in Range(ErrorValues)
<1> DEFINE field(i) == ReceiveLine(text).message.fields[i].integer
           descriptor(i) == Descriptors["DISPLAY"][i]
<1>1. \A i \in {1, 2, 4, 5} : IntegerIsValid(descriptor(i), field(i))
  BY RecordsAreValid
<1>2. /\ descriptor(1) = EnumerationField("status", StatusValues)
      /\ descriptor(2) = EnumerationField("page", PageValues)
      /\ descriptor(4) = IntegerField("delivered", 0, MaxDeliveredCount)
      /\ descriptor(5) = EnumerationField("error", ErrorValues)
  BY DEF Descriptors, VerbDescriptor, Verbs
<1> HIDE DEF field, descriptor
<1>3. field(1) \in 0 .. 4
  <2>1. field(1) \in 0 .. Len(StatusValues) - 1
    BY <1>1, <1>2, WhatIsValid
  <2> QED
    BY <2>1 DEF StatusValues
<1>4. field(2) \in 0 .. 2
  <2>1. field(2) \in 0 .. Len(PageValues) - 1
    BY <1>1, <1>2, WhatIsValid
  <2> QED
    BY <2>1 DEF PageValues
<1>5. field(4) \in 0 .. MaxDeliveredCount
  BY <1>1, <1>2, WhatIsValid
<1>6. field(5) \in 0 .. 16
  <2>1. field(5) \in 0 .. Len(ErrorValues) - 1
    BY <1>1, <1>2, WhatIsValid
  <2> QED
    BY <2>1 DEF ErrorValues
<1>7. StatusValues[field(1) + 1] \in Range(StatusValues)
  BY <1>3 DEF StatusValues, Range
<1>8. PageValues[field(2) + 1] \in Range(PageValues)
  BY <1>4 DEF PageValues, Range
<1>9. ErrorValues[field(5) + 1] \in Range(ErrorValues)
  BY <1>6 DEF ErrorValues, Range
<1> QED
  BY <1>5, <1>7, <1>8, <1>9 DEF field

-----------------------------------------------------------------------------
(* A state that can be shown: the values of a record are those of the      *)
(* tables, and a link is not both up and incompatible.                     *)
StateFields ==
  {"status", "page", "payload", "kind", "length", "delivered", "error", "link_connected",
   "link_connecting", "link_incompatible", "screen_locked", "nfc_presenting"}

CanBeShown(state) ==
  /\ DOMAIN state = StateFields
  /\ state.kind \in CodeKind /\ state.length \in Nat
  /\ state.status \in Range(StatusValues) /\ state.page \in Range(PageValues)
  /\ state.error \in Range(ErrorValues)
  /\ state.delivered \in 0 .. MaxDeliveredCount
  /\ state.screen_locked \in BOOLEAN
  /\ state.link_connected => ~state.link_incompatible

(* The state says that there is a tag when there is one, which is only     *)
(* beside a code.                                                          *)
ShownInv ==
  /\ CanBeShown(display)
  /\ display.nfc_presenting = (tag # NoMessage)
  /\ tag # NoMessage => ShowsTheRecord(display) /\ ShowsACode(display)

(* What is shown without a link, and of a record, can be shown.            *)
LEMMA WithoutLinkCanBeShown ==
  ASSUME NEW locked \in BOOLEAN
  PROVE  /\ CanBeShown(LinkDownDisplay(locked)) /\ LinkDownDisplay(locked).nfc_presenting = FALSE
         /\ \A state \in LinkStates :
              /\ CanBeShown(DisplayWithoutLink(state, locked))
              /\ DisplayWithoutLink(state, locked).nfc_presenting = FALSE
<1>1. "READY" \in Range(StatusValues) /\ "NONE" \in Range(PageValues) /\ "NONE" \in Range(ErrorValues)
  BY DEF Range, StatusValues, PageValues, ErrorValues
<1>2. 0 \in 0 .. MaxDeliveredCount /\ "BYTE" \in CodeKind
  BY CodecAssumption DEF CodeKind
<1> DEFINE down == LinkDownDisplay(locked)
<1>3. /\ DOMAIN down = StateFields /\ down.kind = "BYTE" /\ down.length = 0
      /\ down.status = "READY" /\ down.page = "NONE" /\ down.error = "NONE" /\ down.delivered = 0
      /\ down.screen_locked = locked /\ down.nfc_presenting = FALSE
      /\ down.link_connected = FALSE
  BY DEF LinkDownDisplay, StateFields
<1>4. CanBeShown(down)
  BY <1>1, <1>2, <1>3 DEF CanBeShown
<1>5. ASSUME NEW state \in LinkStates
      PROVE  /\ CanBeShown(DisplayWithoutLink(state, locked))
             /\ DisplayWithoutLink(state, locked).nfc_presenting = FALSE
  <2> DEFINE shown == DisplayWithoutLink(state, locked)
  <2>1. /\ DOMAIN shown = DOMAIN down
        /\ \A f \in DOMAIN down \ {"link_connecting", "link_incompatible"} : shown[f] = down[f]
    BY DEF DisplayWithoutLink
  <2> HIDE DEF down, shown
  <2>2. CanBeShown(shown) /\ shown.nfc_presenting = FALSE
    BY <1>1, <1>2, <1>3, <2>1 DEF CanBeShown, StateFields
  <2> QED
    BY <2>2 DEF shown
<1> QED
  BY <1>3, <1>4, <1>5

LEMMA RecordCanBeShown ==
  ASSUME NEW text, IsARecord(ReceiveLine(text)), NEW size \in PayloadSizes, NEW locked \in BOOLEAN
  PROVE  /\ CanBeShown(DisplayOf(ReceiveLine(text).message, size, locked))
         /\ DisplayOf(ReceiveLine(text).message, size, locked).nfc_presenting = FALSE
<1> DEFINE down == LinkDownDisplay(locked)
           record == ReceiveLine(text).message
           field(i) == record.fields[i]
           shown == DisplayOf(record, size, locked)
<1>1. size.kind \in CodeKind /\ size.length \in Nat
  BY ContentsAssumption
<1>2. /\ StatusValues[field(1).integer + 1] \in Range(StatusValues)
      /\ PageValues[field(2).integer + 1] \in Range(PageValues)
      /\ field(4).integer \in 0 .. MaxDeliveredCount
      /\ ErrorValues[field(5).integer + 1] \in Range(ErrorValues)
  BY RecordsNameTheirValues
<1>3. /\ DOMAIN down = StateFields
      /\ down.screen_locked = locked /\ down.nfc_presenting = FALSE
      /\ down.link_incompatible = FALSE
  BY DEF LinkDownDisplay, StateFields
<1> HIDE DEF down, record
<1>4. shown = [down EXCEPT
         !.link_connected = TRUE,
         !.status    = StatusValues[field(1).integer + 1],
         !.page      = PageValues[field(2).integer + 1],
         !.payload   = field(3).text,
         !.kind      = size.kind,
         !.length    = size.length,
         !.delivered = field(4).integer,
         !.error     = ErrorValues[field(5).integer + 1]]
  BY DEF DisplayOf, down
<1> HIDE DEF shown
<1>5. /\ DOMAIN shown = StateFields /\ shown.kind = size.kind /\ shown.length = size.length
      /\ shown.status = StatusValues[field(1).integer + 1]
      /\ shown.page = PageValues[field(2).integer + 1]
  BY <1>3, <1>4 DEF StateFields
<1>6. /\ shown.delivered = field(4).integer /\ shown.error = ErrorValues[field(5).integer + 1]
      /\ shown.screen_locked = locked /\ shown.nfc_presenting = FALSE
      /\ shown.link_incompatible = FALSE
  BY <1>3, <1>4 DEF StateFields
<1>7. CanBeShown(shown)
  BY <1>1, <1>2, <1>5, <1>6 DEF CanBeShown
<1> QED
  BY <1>6, <1>7 DEF shown, record

(* Composing a screen and its tag keeps the two in step.                   *)
LEMMA RecomposeShows ==
  ASSUME NEW state, CanBeShown(state), state.nfc_presenting = FALSE, Recompose(state)
  PROVE  ShownInv'
<1> DEFINE shown == [state EXCEPT !.nfc_presenting = TRUE]
<1>1. /\ tag' = TagFor(state, Compose(state))
      /\ display' = IF tag' = NoMessage THEN state ELSE shown
  BY DEF Recompose
<1>2. tag' # NoMessage => ShowsTheRecord(state) /\ ShowsACode(state)
  BY <1>1 DEF TagFor, Compose
<1>3. /\ DOMAIN shown = StateFields /\ shown.nfc_presenting = TRUE
      /\ \A f \in StateFields \ {"nfc_presenting"} : shown[f] = state[f]
  BY DEF CanBeShown, StateFields
<1> HIDE DEF shown
<1>4. CanBeShown(shown)
  BY <1>3 DEF CanBeShown, StateFields
<1>5. ShowsTheRecord(shown) = ShowsTheRecord(state)
  BY <1>3 DEF ShowsTheRecord, StateFields
<1>6. ShowsACode(shown) = ShowsACode(state)
  BY <1>3 DEF ShowsACode, Active, PageNamed, StateFields
<1>7. CASE tag' = NoMessage
  BY <1>1, <1>7 DEF ShownInv
<1>8. CASE tag' # NoMessage
  BY <1>1, <1>2, <1>3, <1>4, <1>5, <1>6, <1>8 DEF ShownInv
<1> QED
  BY <1>7, <1>8

LEMMA ShownBegins == Init => ShownInv
<1> SUFFICES ASSUME Init PROVE ShownInv
  OBVIOUS
<1>1. display = LinkDownDisplay(FALSE) /\ tag = NoMessage
  BY DEF Init
<1> QED
  BY <1>1, WithoutLinkCanBeShown DEF ShownInv

LEMMA ShownStep == ShownInv /\ [Next]_vars => ShownInv'
<1> SUFFICES ASSUME ShownInv, [Next]_vars PROVE ShownInv'
  OBVIOUS
<1>0. CanBeShown(display) /\ display.screen_locked \in BOOLEAN
  BY DEF ShownInv, CanBeShown
<1>1. CASE UNCHANGED <<display, tag>>
  BY <1>1 DEF ShownInv
<1>2. CASE Deliver
  <2>1. PICK size \in PayloadSizes :
          Recompose(DisplayOf(ReceiveLine(line).message, size, display.screen_locked))
    BY <1>2 DEF Deliver
  <2>2. IsARecord(ReceiveLine(line))
    BY <1>2 DEF Deliver
  <2> QED
    BY <1>0, <2>1, <2>2, RecordCanBeShown, RecomposeShows
<1>3. CASE ToggleLock
  <2> DEFINE state == [display EXCEPT !.screen_locked = ~@, !.nfc_presenting = FALSE]
  <2>1. Recompose(state)
    BY <1>3 DEF ToggleLock
  <2>2. /\ DOMAIN state = DOMAIN display /\ state.nfc_presenting = FALSE
        /\ state.screen_locked = ~display.screen_locked
        /\ \A f \in StateFields \ {"screen_locked", "nfc_presenting"} : state[f] = display[f]
    BY <1>0 DEF CanBeShown, StateFields
  <2> HIDE DEF state
  <2>3. CanBeShown(state)
    BY <1>0, <2>2 DEF CanBeShown, StateFields
  <2> QED
    BY <2>1, <2>2, <2>3, RecomposeShows
<1>4. CASE LoseLink
  <2>1. PICK state \in LinkStates : Recompose(DisplayWithoutLink(state, display.screen_locked))
    BY <1>4 DEF LoseLink
  <2> QED
    BY <1>0, <2>1, WithoutLinkCanBeShown, RecomposeShows
<1>5. Mean \/ Draft \/ Send \/ Babble \/ Damage \/ Discard \/ UNCHANGED vars
        => UNCHANGED <<display, tag>>
  BY DEF Mean, Draft, Send, Babble, Damage, Discard, vars
<1> QED
  BY <1>1, <1>2, <1>3, <1>4, <1>5 DEF Next

(* So every state is one that can be shown.                                *)
LEMMA ShownInvariant == Spec => []ShownInv
  BY ShownBegins, ShownStep, PTL DEF Spec

(***************************************************************************)
(* What the library chooses for any payload is what the standard's table   *)
(* says: a code when version 3 holds it, at the smallest version and the   *)
(* most robust level.                                                      *)
(***************************************************************************)
THEOREM CodeIsWhatTheStandardSays == Spec => []CodeIsTheSmallest
<1>1. ScreenIsComposed /\ ShownInv => CodeIsTheSmallest
  <2> SUFFICES ASSUME ScreenIsComposed, ShownInv, screen.code_page_active, display.length > 0
               PROVE  CodeIsTheSmallest
    BY DEF CodeIsTheSmallest
  <2> DEFINE kind == display.kind
             length == display.length
             capacity == StandardCapacity(kind)
             code == QrEncode(kind, length)
             version == SmallestVersion(kind, length)
  <2>1. kind \in CodeKind /\ length \in Nat \ {0}
    BY DEF ShownInv, CanBeShown
  <2>2. screen.qr_area_shown = CodeFits(display)
    <3> DEFINE active == ShowsTheRecord(display) /\ ShowsACode(display)
    <3>1. /\ screen.code_page_active = active
          /\ screen.qr_area_shown = (active /\ CodeFits(display))
      BY DEF ScreenIsComposed, Compose
    <3>2. active
      BY <3>1
    <3>3. CodeFits(display) \in BOOLEAN
      BY DEF CodeFits, QrCanEncode
    <3> HIDE DEF active
    <3> QED
      BY <3>1, <3>2, <3>3
  <2>3. CodeFits(display) <=> length <= capacity[3][1]
    BY <2>1, CodeFound DEF CodeFits
  <2>4. screen.qr_area_shown = (length <= capacity[3][1])
    BY <2>2, <2>3 DEF CodeFits, QrCanEncode
  <2>5. ASSUME screen.qr_area_shown
        PROVE  /\ code.version = Min({v \in 1 .. 3 : length <= capacity[v][1]})
               /\ code.level + 1 = Max({l \in 1 .. 4 : length <= capacity[code.version][l]})
    <3>1. length <= capacity[3][1]
      BY <2>4, <2>5
    <3>2. code.version = version /\ code.level = BoostedLevel(version, kind, length)
      BY <2>1, <3>1, CodeFound
    <3>3. /\ version \in Versions /\ length <= capacity[version][1]
          /\ version = Min({v \in 1 .. 3 : length <= capacity[v][1]})
      BY <2>1, <3>1, VersionIsSmallest
    <3>4. BoostedLevel(version, kind, length) + 1 = Max({l \in 1 .. 4 : length <= capacity[version][l]})
      BY <2>1, <3>3, LevelIsGreatest
    <3> HIDE DEF code, version, capacity
    <3> QED
      BY <3>2, <3>3, <3>4
  <2> HIDE DEF capacity, code
  <2> QED
    BY <2>4, <2>5 DEF CodeIsTheSmallest, capacity, code
<1> QED
  BY <1>1, ScreenInvariant, ShownInvariant, PTL

-----------------------------------------------------------------------------
(* Legibility, part by part.  A part keeps to a region of the screen; two  *)
(* parts in regions apart do not disturb each other.                       *)
Label == DOMAIN PrimaryAdvance \cup DOMAIN SecondaryAdvance

PlacedText ==
  [x : Int, y : Int, font : {"Primary", "Secondary"}, anchor : {"LEFT", "RIGHT", "CENTER"},
   inverted : BOOLEAN, label : Label, width : Int, whole : BOOLEAN]

Shape == [kind : {"BOX", "FRAME"}, x : Int, y : Int, width : Int, height : Int]

Region(left, right, top, bottom) == [left |-> left, right |-> right, top |-> top, bottom |-> bottom]
Box == [left : Int, right : Int, top : Int, bottom : Int]

IsAPart(part) == part.texts \in Seq(PlacedText) /\ part.shapes \in Seq(Shape)

KeepsTo(part, region) ==
  /\ \A k \in DOMAIN part.texts : Inside(TextBox(part.texts[k]), region)
  /\ \A k \in DOMAIN part.shapes :
       part.shapes[k].kind = "BOX" => Inside(ShapeBox(part.shapes[k]), region)

(* The texts of a part are clear of each other and of its bands, but for   *)
(* those that stand on one.                                                *)
IsClear(part) ==
  \A k \in DOMAIN part.texts :
    /\ \A j \in DOMAIN part.texts :
         j # k => Apart(TextBox(part.texts[k]), TextBox(part.texts[j]))
    /\ IF part.texts[k].inverted
       THEN \E b \in DOMAIN part.shapes :
              part.shapes[b].kind = "BOX" /\ Inside(TextBox(part.texts[k]), ShapeBox(part.shapes[b]))
       ELSE \A b \in DOMAIN part.shapes :
              part.shapes[b].kind = "BOX" => Apart(TextBox(part.texts[k]), ShapeBox(part.shapes[b]))

(* Texts and shapes cover regions; what lies in regions apart is apart.    *)
LEMMA BoxesAreBoxes ==
  /\ \A text \in PlacedText : TextBox(text) \in Box
  /\ \A shape \in Shape : ShapeBox(shape) \in Box
<1>1. ASSUME NEW text \in PlacedText PROVE TextBox(text) \in Box
  <2>1. /\ text.x \in Int /\ text.y \in Int /\ text.width \in Int
        /\ text.font \in {"Primary", "Secondary"} /\ text.anchor \in {"LEFT", "RIGHT", "CENTER"}
    BY DEF PlacedText
  <2>2. FontHeight[text.font] \in Int
    BY <2>1 DEF FontHeight
  <2> DEFINE left == CASE text.anchor = "LEFT"   -> text.x
                       [] text.anchor = "RIGHT"  -> text.x - text.width
                       [] text.anchor = "CENTER" -> text.x - text.width \div 2
  <2>3. left \in Int
    BY <2>1
  <2>4. TextBox(text) = [left |-> left, right |-> left + text.width,
                         top |-> text.y - FontHeight[text.font], bottom |-> text.y]
    BY DEF TextBox
  <2> HIDE DEF left
  <2> QED
    BY <2>1, <2>2, <2>3, <2>4 DEF Box
<1>2. ASSUME NEW shape \in Shape PROVE ShapeBox(shape) \in Box
  BY DEF Shape, ShapeBox, Box
<1> QED
  BY <1>1, <1>2

LEMMA InsideApart ==
  ASSUME NEW a \in Box, NEW b \in Box, NEW p \in Box, NEW q \in Box,
         Inside(a, p), Inside(b, q), Apart(p, q)
  PROVE  Apart(a, b) /\ Apart(b, a)
BY DEF Inside, Apart, Box

LEMMA InsideInside ==
  ASSUME NEW a \in Box, NEW p \in Box, NEW q \in Box, Inside(a, p), Inside(p, q)
  PROVE  Inside(a, q)
BY DEF Inside, Box

(* Two parts one after the other, in regions that are apart.               *)
LEMMA PartsTogether ==
  ASSUME NEW p, NEW q, IsAPart(p), IsAPart(q), NEW a \in Box, NEW b \in Box, NEW c \in Box,
         KeepsTo(p, a), KeepsTo(q, b), Apart(a, b), Inside(a, c), Inside(b, c),
         IsClear(p), IsClear(q)
  PROVE  IsAPart(Then(p, q)) /\ KeepsTo(Then(p, q), c) /\ IsClear(Then(p, q))
<1> DEFINE r == Then(p, q)
<1>1. r.texts = p.texts \o q.texts /\ r.shapes = p.shapes \o q.shapes
  BY DEF Then, Part
<1>2. /\ p.texts \in Seq(PlacedText) /\ q.texts \in Seq(PlacedText)
      /\ p.shapes \in Seq(Shape) /\ q.shapes \in Seq(Shape)
  BY DEF IsAPart
<1> HIDE DEF r
<1>3. IsAPart(r)
  BY <1>1, <1>2, ConcatProperties DEF IsAPart
<1>4. /\ \A k \in DOMAIN p.texts : p.texts[k] \in PlacedText
      /\ \A k \in DOMAIN q.texts : q.texts[k] \in PlacedText
      /\ \A k \in DOMAIN p.shapes : p.shapes[k] \in Shape
      /\ \A k \in DOMAIN q.shapes : q.shapes[k] \in Shape
  BY <1>2, ElementOfSeq, LenProperties
<1> DEFINE Of(u, v, w) ==
      /\ \A k \in DOMAIN u : k \in DOMAIN w /\ w[k] = u[k]
      /\ \A k \in DOMAIN v : Len(u) + k \in DOMAIN w /\ w[Len(u) + k] = v[k]
      /\ \A k \in DOMAIN w : \/ k \in DOMAIN u /\ w[k] = u[k]
                             \/ k - Len(u) \in DOMAIN v /\ w[k] = v[k - Len(u)]
<1>5. Of(p.texts, q.texts, r.texts) /\ Of(p.shapes, q.shapes, r.shapes)
  <2>1. ASSUME NEW S, NEW u \in Seq(S), NEW v \in Seq(S), NEW w, w = u \o v PROVE Of(u, v, w)
    BY <2>1, ElementsOfAJoin
  <2> HIDE DEF Of
  <2>2. Of(p.texts, q.texts, r.texts)
    BY <1>1, <1>2, <2>1
  <2>3. Of(p.shapes, q.shapes, r.shapes)
    BY <1>1, <1>2, <2>1
  <2> QED
    BY <2>2, <2>3
<1>6. /\ \A k \in DOMAIN p.texts : TextBox(p.texts[k]) \in Box /\ Inside(TextBox(p.texts[k]), a)
      /\ \A k \in DOMAIN q.texts : TextBox(q.texts[k]) \in Box /\ Inside(TextBox(q.texts[k]), b)
  BY <1>4, BoxesAreBoxes DEF KeepsTo
<1>7. /\ \A k \in DOMAIN p.shapes : /\ ShapeBox(p.shapes[k]) \in Box
                                    /\ p.shapes[k].kind = "BOX" => Inside(ShapeBox(p.shapes[k]), a)
      /\ \A k \in DOMAIN q.shapes : /\ ShapeBox(q.shapes[k]) \in Box
                                    /\ q.shapes[k].kind = "BOX" => Inside(ShapeBox(q.shapes[k]), b)
  BY <1>4, BoxesAreBoxes DEF KeepsTo
<1>8. KeepsTo(r, c)
  <2>1. \A k \in DOMAIN r.texts : Inside(TextBox(r.texts[k]), c)
    BY <1>5, <1>6, InsideInside
  <2>2. \A k \in DOMAIN r.shapes : r.shapes[k].kind = "BOX" => Inside(ShapeBox(r.shapes[k]), c)
    BY <1>5, <1>7, InsideInside
  <2> QED
    BY <2>1, <2>2 DEF KeepsTo
<1> DEFINE Clear(u, v, text, me) ==
      /\ \A j \in DOMAIN u : j # me => Apart(TextBox(text), TextBox(u[j]))
      /\ IF text.inverted
         THEN \E m \in DOMAIN v : v[m].kind = "BOX" /\ Inside(TextBox(text), ShapeBox(v[m]))
         ELSE \A m \in DOMAIN v : v[m].kind = "BOX" => Apart(TextBox(text), ShapeBox(v[m]))
<1>9. ASSUME NEW k \in DOMAIN p.texts, r.texts[k] = p.texts[k], k \in DOMAIN r.texts
      PROVE  Clear(r.texts, r.shapes, r.texts[k], k)
  <2> DEFINE text == p.texts[k]
  <2>1. Clear(p.texts, p.shapes, text, k)
    BY DEF IsClear
  <2>2. \A j \in DOMAIN q.texts : Apart(TextBox(text), TextBox(q.texts[j]))
    BY <1>6, InsideApart
  <2>3. \A m \in DOMAIN q.shapes : q.shapes[m].kind = "BOX" => Apart(TextBox(text), ShapeBox(q.shapes[m]))
    BY <1>6, <1>7, InsideApart
  <2>4. \A j \in DOMAIN r.texts : j # k => Apart(TextBox(text), TextBox(r.texts[j]))
    <3> SUFFICES ASSUME NEW j \in DOMAIN r.texts, j # k
                 PROVE  Apart(TextBox(text), TextBox(r.texts[j]))
      OBVIOUS
    <3>1. CASE j \in DOMAIN p.texts /\ r.texts[j] = p.texts[j]
      BY <2>1, <3>1
    <3>2. CASE j - Len(p.texts) \in DOMAIN q.texts /\ r.texts[j] = q.texts[j - Len(p.texts)]
      BY <2>2, <3>2
    <3> QED
      BY <1>5, <3>1, <3>2
  <2>5. CASE text.inverted
    <3>1. PICK m \in DOMAIN p.shapes :
            p.shapes[m].kind = "BOX" /\ Inside(TextBox(text), ShapeBox(p.shapes[m]))
      BY <2>1, <2>5
    <3>2. m \in DOMAIN r.shapes /\ r.shapes[m] = p.shapes[m]
      BY <1>5
    <3> QED
      BY <1>9, <2>4, <2>5, <3>1, <3>2
  <2>6. CASE ~text.inverted
    <3>1. \A m \in DOMAIN p.shapes : p.shapes[m].kind = "BOX" => Apart(TextBox(text), ShapeBox(p.shapes[m]))
      BY <2>1, <2>6
    <3>2. \A m \in DOMAIN r.shapes : r.shapes[m].kind = "BOX" => Apart(TextBox(text), ShapeBox(r.shapes[m]))
      BY <1>5, <2>3, <3>1
    <3> QED
      BY <1>9, <2>4, <2>6, <3>2
  <2> QED
    BY <2>5, <2>6
<1>10. ASSUME NEW k \in DOMAIN r.texts, k - Len(p.texts) \in DOMAIN q.texts,
              r.texts[k] = q.texts[k - Len(p.texts)]
       PROVE  Clear(r.texts, r.shapes, r.texts[k], k)
  <2> DEFINE text == q.texts[k - Len(p.texts)]
  <2>0. /\ k \in Int /\ Len(p.texts) \in Nat
        /\ DOMAIN r.texts = 1 .. Len(r.texts) /\ Len(r.texts) \in Nat
    BY <1>3, <1>2, LenProperties DEF IsAPart
  <2>1. Clear(q.texts, q.shapes, text, k - Len(p.texts))
    BY <1>10 DEF IsClear
  <2>2. \A j \in DOMAIN p.texts : Apart(TextBox(text), TextBox(p.texts[j]))
    BY <1>6, <1>10, InsideApart
  <2>3. \A m \in DOMAIN p.shapes : p.shapes[m].kind = "BOX" => Apart(TextBox(text), ShapeBox(p.shapes[m]))
    BY <1>6, <1>7, <1>10, InsideApart
  <2>4. \A j \in DOMAIN r.texts : j # k => Apart(TextBox(text), TextBox(r.texts[j]))
    <3> SUFFICES ASSUME NEW j \in DOMAIN r.texts, j # k
                 PROVE  Apart(TextBox(text), TextBox(r.texts[j]))
      OBVIOUS
    <3>1. CASE j \in DOMAIN p.texts /\ r.texts[j] = p.texts[j]
      BY <2>2, <3>1
    <3>2. CASE j - Len(p.texts) \in DOMAIN q.texts /\ r.texts[j] = q.texts[j - Len(p.texts)]
      <4>1. j - Len(p.texts) # k - Len(p.texts)
        BY <2>0
      <4> QED
        BY <2>1, <3>2, <4>1
    <3> QED
      BY <1>5, <3>1, <3>2
  <2>5. CASE text.inverted
    <3>1. PICK m \in DOMAIN q.shapes :
            q.shapes[m].kind = "BOX" /\ Inside(TextBox(text), ShapeBox(q.shapes[m]))
      BY <2>1, <2>5
    <3>2. Len(p.shapes) + m \in DOMAIN r.shapes /\ r.shapes[Len(p.shapes) + m] = q.shapes[m]
      BY <1>5
    <3> QED
      BY <1>10, <2>4, <2>5, <3>1, <3>2
  <2>6. CASE ~text.inverted
    <3>1. \A m \in DOMAIN q.shapes : q.shapes[m].kind = "BOX" => Apart(TextBox(text), ShapeBox(q.shapes[m]))
      BY <2>1, <2>6
    <3>2. \A m \in DOMAIN r.shapes : r.shapes[m].kind = "BOX" => Apart(TextBox(text), ShapeBox(r.shapes[m]))
      BY <1>5, <2>3, <3>1
    <3> QED
      BY <1>10, <2>4, <2>6, <3>2
  <2> QED
    BY <2>5, <2>6
<1>11. IsClear(r)
  <2> SUFFICES ASSUME NEW k \in DOMAIN r.texts PROVE Clear(r.texts, r.shapes, r.texts[k], k)
    BY DEF IsClear
  <2> QED
    BY <1>5, <1>9, <1>10
<1> QED
  BY <1>3, <1>8, <1>11 DEF r

(* What a part is asked: its texts stand clear in the region, of which the *)
(* labels outside of cut are whole, and it takes no more than its share of *)
(* the layout's arrays.                                                    *)
Tidy(part, region, shapes, texts, cut) ==
  /\ IsAPart(part) /\ KeepsTo(part, region) /\ IsClear(part)
  /\ Len(part.shapes) <= shapes /\ Len(part.texts) <= texts
  /\ \A k \in DOMAIN part.texts : part.texts[k].whole \/ part.texts[k].label \in cut

(* Regions are what Apart and Inside compare.                              *)
LEMMA RegionsAreBoxes ==
  ASSUME NEW l \in Int, NEW r \in Int, NEW t \in Int, NEW b \in Int
  PROVE  Region(l, r, t, b) \in Box
BY DEF Region, Box

(* The two parts together, and the smallest parts there are.               *)
LEMMA TidyTogether ==
  ASSUME NEW p, NEW q, NEW a \in Box, NEW b \in Box, NEW c \in Box,
         NEW m \in Int, NEW n \in Int, NEW i \in Int, NEW j \in Int, NEW cut,
         Tidy(p, a, m, i, cut), Tidy(q, b, n, j, cut),
         Apart(a, b), Inside(a, c), Inside(b, c)
  PROVE  Tidy(Then(p, q), c, m + n, i + j, cut)
<1> DEFINE r == Then(p, q)
<1>1. IsAPart(r) /\ KeepsTo(r, c) /\ IsClear(r)
  BY PartsTogether DEF Tidy
<1>2. r.texts = p.texts \o q.texts /\ r.shapes = p.shapes \o q.shapes
  BY DEF Then, Part
<1>3. /\ p.texts \in Seq(PlacedText) /\ q.texts \in Seq(PlacedText)
      /\ p.shapes \in Seq(Shape) /\ q.shapes \in Seq(Shape)
  BY DEF IsAPart, Tidy
<1>4. Len(p.texts) <= i /\ Len(q.texts) <= j /\ Len(p.shapes) <= m /\ Len(q.shapes) <= n
  BY DEF Tidy
<1> DEFINE Spared(text) == text.whole \/ text.label \in cut
<1>8. /\ \A k \in DOMAIN p.texts : Spared(p.texts[k])
      /\ \A k \in DOMAIN q.texts : Spared(q.texts[k])
  BY DEF Tidy
<1> HIDE DEF r
<1>5. Len(r.texts) = Len(p.texts) + Len(q.texts) /\ Len(r.shapes) = Len(p.shapes) + Len(q.shapes)
  BY <1>2, <1>3, ConcatProperties
<1>6. Len(r.texts) <= i + j /\ Len(r.shapes) <= m + n
  <2>1. /\ Len(p.texts) \in Nat /\ Len(q.texts) \in Nat
        /\ Len(p.shapes) \in Nat /\ Len(q.shapes) \in Nat
    BY <1>3, LenProperties
  <2> HIDE DEF r
  <2>2. ASSUME NEW u \in Nat, NEW v \in Nat, NEW w, w = u + v, NEW g \in Int, NEW h \in Int,
               u <= g, v <= h
        PROVE  w <= g + h
    BY <2>2
  <2>3. Len(r.texts) <= i + j
    BY <1>4, <1>5, <2>1, <2>2
  <2>4. Len(r.shapes) <= m + n
    BY <1>4, <1>5, <2>1, <2>2
  <2> QED
    BY <2>3, <2>4
<1>7. \A k \in DOMAIN r.texts : Spared(r.texts[k])
  <2> HIDE DEF Spared
  <2>1. ASSUME NEW S, NEW s \in Seq(S), NEW t \in Seq(S), NEW u, u = s \o t,
               \A k \in DOMAIN s : Spared(s[k]), \A k \in DOMAIN t : Spared(t[k])
        PROVE  \A k \in DOMAIN u : Spared(u[k])
    <3>1. \A k \in DOMAIN (s \o t) :
            \/ k \in DOMAIN s /\ (s \o t)[k] = s[k]
            \/ k - Len(s) \in DOMAIN t /\ (s \o t)[k] = t[k - Len(s)]
      BY ElementsOfAJoin
    <3> QED
      BY <2>1, <3>1
  <2> QED
    BY ZenonT(30), <1>2, <1>3, <1>8, <2>1
<1> QED
  BY <1>1, <1>6, <1>7 DEF Tidy, r

LEMMA TidyNothing ==
  ASSUME NEW region, NEW cut
  PROVE  Tidy(Nothing, region, 0, 0, cut)
BY EmptySeq DEF Tidy, Nothing, Part, IsAPart, KeepsTo, IsClear

LEMMA TidyFrame ==
  ASSUME NEW x \in Int, NEW y \in Int, NEW width \in Int, NEW height \in Int, NEW region, NEW cut
  PROVE  Tidy(Part(<<Frame(x, y, width, height)>>, <<>>), region, 1, 0, cut)
<1> DEFINE part == Part(<<Frame(x, y, width, height)>>, <<>>)
<1>1. part.texts = <<>> /\ part.shapes = <<Frame(x, y, width, height)>>
  BY DEF Part
<1>2. Frame(x, y, width, height) \in Shape /\ Frame(x, y, width, height).kind # "BOX"
  BY DEF Frame, Shape
<1> HIDE DEF part
<1>3. /\ Len(part.shapes) = 1 /\ DOMAIN part.shapes = {1} /\ part.shapes[1].kind # "BOX"
      /\ Len(part.texts) = 0 /\ DOMAIN part.texts = {}
  BY <1>1, <1>2
<1>4. IsAPart(part)
  BY <1>1, <1>2, EmptySeq, SingletonIsASeq DEF IsAPart
<1>5. KeepsTo(part, region) /\ IsClear(part)
  BY <1>3 DEF KeepsTo, IsClear
<1>6. Tidy(part, region, 1, 0, cut)
  BY <1>3, <1>4, <1>5 DEF Tidy
<1> QED
  BY <1>6 DEF part

LEMMA TidyText ==
  ASSUME NEW text \in PlacedText, NEW region, NEW cut, ~text.inverted,
         Inside(TextBox(text), region), text.whole \/ text.label \in cut
  PROVE  Tidy(Part(<<>>, <<text>>), region, 0, 1, cut)
<1> DEFINE part == Part(<<>>, <<text>>)
<1>1. part.texts = <<text>> /\ part.shapes = <<>>
  BY DEF Part
<1> HIDE DEF part
<1>2. /\ Len(part.shapes) = 0 /\ DOMAIN part.shapes = {} /\ Len(part.texts) = 1
      /\ DOMAIN part.texts = {1} /\ part.texts[1] = text
  BY <1>1
<1>3. IsAPart(part)
  BY <1>1, EmptySeq, SingletonIsASeq DEF IsAPart
<1>4. KeepsTo(part, region)
  BY <1>2 DEF KeepsTo
<1>5. IsClear(part)
  BY <1>2 DEF IsClear
<1>6. Tidy(part, region, 0, 1, cut)
  BY <1>2, <1>3, <1>4, <1>5 DEF Tidy
<1> QED
  BY <1>6 DEF part

(* One or two texts on a band.                                             *)
LEMMA TidyBand ==
  ASSUME NEW band \in Shape, NEW text \in PlacedText, NEW region, NEW cut, band.kind = "BOX",
         text.inverted, Inside(ShapeBox(band), region), Inside(TextBox(text), region),
         Inside(TextBox(text), ShapeBox(band)), text.whole \/ text.label \in cut
  PROVE  Tidy(Part(<<band>>, <<text>>), region, 1, 1, cut)
<1> DEFINE part == Part(<<band>>, <<text>>)
<1>1. part.texts = <<text>> /\ part.shapes = <<band>>
  BY DEF Part
<1> HIDE DEF part
<1>2. /\ Len(part.shapes) = 1 /\ DOMAIN part.shapes = {1} /\ part.shapes[1] = band
      /\ Len(part.texts) = 1 /\ DOMAIN part.texts = {1} /\ part.texts[1] = text
  BY <1>1
<1>3. IsAPart(part)
  BY <1>1, SingletonIsASeq DEF IsAPart
<1>4. KeepsTo(part, region)
  BY <1>2 DEF KeepsTo
<1>5. IsClear(part)
  BY <1>2 DEF IsClear
<1>6. Tidy(part, region, 1, 1, cut)
  BY <1>2, <1>3, <1>4, <1>5 DEF Tidy
<1> QED
  BY <1>6 DEF part

LEMMA TidyBandOfTwo ==
  ASSUME NEW band \in Shape, NEW text \in PlacedText, NEW other \in PlacedText,
         NEW region, NEW cut, band.kind = "BOX", text.inverted, other.inverted,
         Inside(ShapeBox(band), region),
         Inside(TextBox(text), region), Inside(TextBox(other), region),
         Inside(TextBox(text), ShapeBox(band)), Inside(TextBox(other), ShapeBox(band)),
         Apart(TextBox(text), TextBox(other)), Apart(TextBox(other), TextBox(text)),
         text.whole, other.whole
  PROVE  Tidy(Part(<<band>>, <<text, other>>), region, 1, 2, cut)
<1> DEFINE part == Part(<<band>>, <<text, other>>)
<1>1. part.texts = <<text, other>> /\ part.shapes = <<band>>
  BY DEF Part
<1> HIDE DEF part
<1>2. /\ Len(part.shapes) = 1 /\ DOMAIN part.shapes = {1} /\ part.shapes[1] = band
      /\ Len(part.texts) = 2 /\ DOMAIN part.texts = {1, 2}
      /\ part.texts[1] = text /\ part.texts[2] = other
  BY <1>1
<1>3. IsAPart(part)
  BY <1>1, SingletonIsASeq DEF IsAPart
<1>4. KeepsTo(part, region)
  BY <1>2 DEF KeepsTo
<1>5. IsClear(part)
  BY <1>2 DEF IsClear
<1>6. Tidy(part, region, 1, 2, cut)
  BY <1>2, <1>3, <1>4, <1>5 DEF Tidy
<1> QED
  BY <1>6 DEF part

-----------------------------------------------------------------------------
(* Where a text stands.                                                    *)
KeptWidth(width, limit) == IF width > limit THEN limit ELSE width
LeftOf(x, anchor, width) ==
  IF anchor = "LEFT" THEN x ELSE IF anchor = "RIGHT" THEN x - width ELSE x - width \div 2

Stands(text, left, right, y) == Inside(TextBox(text), Region(left, right, y - 8, y))

(* Where a text stands, by its anchor.                                     *)
LEMMA PlacedStands ==
  ASSUME NEW x \in Int, NEW y \in Int, NEW font \in {"Primary", "Secondary"},
         NEW anchor \in {"LEFT", "RIGHT", "CENTER"}, NEW inverted \in BOOLEAN,
         NEW limit \in Nat, NEW label \in Label, NEW width \in Nat
  PROVE  /\ Placed(x, y, font, anchor, inverted, limit, label, width) \in PlacedText
         /\ Stands(Placed(x, y, font, anchor, inverted, limit, label, width),
                   LeftOf(x, anchor, KeptWidth(width, limit)),
                   LeftOf(x, anchor, KeptWidth(width, limit)) + KeptWidth(width, limit), y)
<1> DEFINE text == Placed(x, y, font, anchor, inverted, limit, label, width)
           kept == KeptWidth(width, limit)
           left == LeftOf(x, anchor, kept)
<1>1. /\ text.x = x /\ text.y = y /\ text.font = font /\ text.anchor = anchor
      /\ text.width = kept
  BY DEF Placed, KeptWidth
<1>2. kept \in Int /\ left \in Int
  BY DEF KeptWidth, LeftOf
<1>3. text \in PlacedText
  BY <1>2 DEF PlacedText, Placed, KeptWidth
<1> HIDE DEF kept, text
<1>4. FontHeight[font] \in {7, 8}
  BY DEF FontHeight
<1>5. TextBox(text) = [left |-> left, right |-> left + kept,
                       top |-> y - FontHeight[font], bottom |-> y]
  BY <1>1 DEF TextBox, LeftOf
<1> HIDE DEF left
<1>6. Stands(text, left, left + kept, y)
  BY <1>2, <1>4, <1>5 DEF Stands, Inside, Region
<1> QED
  BY <1>3, <1>6 DEF kept, left, text

(* A column's text starts at the column, and a centred one is in the middle. *)
LEMMA LeftStands ==
  ASSUME NEW x \in Int, NEW y \in Int, NEW font \in {"Primary", "Secondary"},
         NEW inverted \in BOOLEAN, NEW limit \in Nat, NEW label \in Label, NEW width \in Nat
  PROVE  LET text == Placed(x, y, font, "LEFT", inverted, limit, label, width)
         IN  text \in PlacedText /\ Stands(text, x, x + KeptWidth(width, limit), y)
<1> DEFINE text == Placed(x, y, font, "LEFT", inverted, limit, label, width)
           kept == KeptWidth(width, limit)
           at == LeftOf(x, "LEFT", kept)
<1>1. text \in PlacedText /\ Stands(text, at, at + kept, y)
  <2>1. "LEFT" \in {"LEFT", "RIGHT", "CENTER"}
    OBVIOUS
  <2> QED
    BY <2>1, PlacedStands
<1>2. at = x
  BY DEF LeftOf
<1> HIDE DEF text, at
<1> QED
  BY <1>1, <1>2 DEF text

LEMMA RightStands ==
  ASSUME NEW x \in Int, NEW y \in Int, NEW font \in {"Primary", "Secondary"},
         NEW inverted \in BOOLEAN, NEW limit \in Nat, NEW label \in Label, NEW width \in Nat
  PROVE  LET text == Placed(x, y, font, "RIGHT", inverted, limit, label, width)
             kept == KeptWidth(width, limit)
             at   == LeftOf(x, "RIGHT", kept)
         IN  text \in PlacedText /\ Stands(text, at, at + kept, y)
BY PlacedStands

LEMMA WholeWithin ==
  ASSUME NEW x, NEW y, NEW font, NEW anchor, NEW inverted, NEW limit \in Int, NEW label,
         NEW width \in Int, width <= limit
  PROVE  Placed(x, y, font, anchor, inverted, limit, label, width).whole
BY DEF Placed

(* What a text no wider than its limit takes up around its middle.         *)
LEMMA CentredStands ==
  ASSUME NEW y \in Int, NEW font \in {"Primary", "Secondary"}, NEW inverted \in BOOLEAN,
         NEW label \in Label, NEW width \in Nat
  PROVE  LET text == Placed(64, y, font, "CENTER", inverted, 124, label, width)
             kept == KeptWidth(width, 124)
             at   == LeftOf(64, "CENTER", kept)
         IN  text \in PlacedText /\ Stands(text, at, at + kept, y)
BY PlacedStands

(* What stands in a stretch of a row stands in a longer one.               *)
LEMMA StandsWithin ==
  ASSUME NEW text \in PlacedText, NEW l \in Int, NEW r \in Int, NEW y \in Int,
         NEW left \in Int, NEW right \in Int, NEW top \in Int, NEW bottom \in Int,
         Stands(text, l, r, y), left <= l, r <= right, top <= y - 8, y <= bottom
  PROVE  Inside(TextBox(text), Region(left, right, top, bottom))
<1>1. Inside(TextBox(text), Region(l, r, y - 8, y))
  BY DEF Stands
<1>2. TextBox(text) \in Box /\ Region(l, r, y - 8, y) \in Box /\ Region(left, right, top, bottom) \in Box
  BY BoxesAreBoxes, RegionsAreBoxes
<1>3. Inside(Region(l, r, y - 8, y), Region(left, right, top, bottom))
  BY DEF Inside, Region
<1> QED
  BY <1>1, <1>2, <1>3, InsideInside

(* The widths of the labels, and those of the error codes: beside a code   *)
(* one of them alone is too wide for the column.                           *)
LEMMA PrimaryWidths ==
  /\ {"StopBath", "LOCKED", "Too_big", "Code", "WiFi", "Gallery"} \subseteq Label
  /\ Advance["Primary"]["StopBath"] = 46 /\ Advance["Primary"]["LOCKED"] = 42
  /\ Advance["Primary"]["Too_big"] = 37 /\ Advance["Primary"]["Code"] = 26
  /\ Advance["Primary"]["WiFi"] = 28 /\ Advance["Primary"]["Gallery"] = 36
  /\ \A label \in {"Incompatible", "Connecting", "Pi_disconnected", "Unknown_status", "Ready",
                   "Presenting", "Guest_joined", "Ending_session", "Recovery_needed"} :
       label \in Label /\ Advance["Primary"][label] \in 0 .. 124
BY DEF Advance, PrimaryAdvance, Label

LEMMA SecondaryWidths ==
  /\ {"NFC", "tap_to_join", "too_big", "delivered"} \subseteq Label
  /\ Advance["Secondary"]["NFC"] = 18
  /\ Advance["Secondary"]["tap_to_join"] = 42 /\ Advance["Secondary"]["too_big"] = 28
  /\ \A label \in {"page_1_of_2", "page_2_of_2", "Guest_joined", "Presenting", "Update_remote",
                   "Please_wait", "Reconnect_USB", "See_dashboard"} :
       label \in Label /\ Advance["Secondary"][label] \in 0 .. 66
BY DEF Advance, SecondaryAdvance, Label

LEMMA ErrorWidths ==
  ASSUME NEW error \in Range(ErrorValues), error # "NONE"
  PROVE  /\ error \in Label /\ Advance["Secondary"][error] \in 0 .. 124
         /\ error # "NOT_ALLOWED" => Advance["Secondary"][error] <= ColumnWidth
<1>1. error \in {"BAD_VERSION", "NO_HELLO", "MALFORMED", "BAD_VERB", "BAD_FIELD",
                 "NO_FIELD", "BAD_VALUE", "TOO_LONG", "RATE_LIMIT", "GUARD",
                 "ACTIVE", "NO_SESSION", "BAD_STATE", "NOT_ALLOWED", "START_FAIL", "END_FAIL"}
  BY DEF Range, ErrorValues
<1>2. /\ Advance["Secondary"][error] \in 0 .. 124
      /\ error # "NOT_ALLOWED" => Advance["Secondary"][error] <= 66
  BY <1>1 DEF Advance, SecondaryAdvance
<1>3. error \in Label
  BY <1>1 DEF Label, SecondaryAdvance
<1> QED
  BY <1>2, <1>3 DEF ColumnWidth

LEMMA DeliveredWidths ==
  ASSUME NEW count \in Nat
  PROVE  DeliveredWidth(count) \in 0 .. ColumnWidth
<1>1. \A digit \in Int : DigitAdvance(digit) \in 3 .. 6
  BY DEF DigitAdvance, SecondaryAdvance
<1>2. ASSUME NEW n \in 0 .. 999 PROVE CountWidth(n) \in 3 .. 18
  <2>1. n \div 100 \in Int /\ (n \div 10) % 10 \in Int /\ n % 10 \in Int
    OBVIOUS
  <2>2. /\ DigitAdvance(n \div 100) \in 3 .. 6 /\ DigitAdvance((n \div 10) % 10) \in 3 .. 6
        /\ DigitAdvance(n % 10) \in 3 .. 6
    BY <1>1, <2>1
  <2> DEFINE a == DigitAdvance(n \div 100)
             b == DigitAdvance((n \div 10) % 10)
             c == DigitAdvance(n % 10)
  <2>3. CountWidth(n) = (IF n >= 100 THEN a ELSE 0) + (IF n >= 10 THEN b ELSE 0) + c
    BY DEF CountWidth
  <2> HIDE DEF a, b, c
  <2> QED
    BY <2>2, <2>3 DEF a, b, c
<1>3. SecondaryAdvance["delivered"] = 40 /\ SecondaryAdvance["plus"] = 6
  BY DEF SecondaryAdvance
<1>4. CASE count > 999
  BY <1>2, <1>3, <1>4 DEF DeliveredWidth, DeliveredDisplayCap, ColumnWidth
<1>5. CASE count <= 999
  <2>0. count \in 0 .. 999
    BY <1>5
  <2>1. CountWidth(count) \in 3 .. 18
    BY ZenonT(30), <1>2, <2>0
  <2> QED
    BY <2>1, <1>3, <1>5 DEF DeliveredWidth, DeliveredDisplayCap, ColumnWidth
<1>6. count > 999 \/ count <= 999
  OBVIOUS
<1> QED
  BY <1>4, <1>5, <1>6

-----------------------------------------------------------------------------
(* A text of the column, and a centred one.                                *)
LEMMA ColumnTextOfAWidth ==
  ASSUME NEW y \in Int, NEW font \in {"Primary", "Secondary"}, NEW inverted \in BOOLEAN,
         NEW label \in Label, NEW width \in Nat, Advance[font][label] = width
  PROVE  LET text == ColumnText(y, font, inverted, label)
         IN  /\ text \in PlacedText /\ text.label = label /\ text.whole = (width <= 66)
             /\ Stands(text, 62, 62 + KeptWidth(width, 66), y)
<1> DEFINE text == ColumnText(y, font, inverted, label)
<1>1. text = Placed(62, y, font, "LEFT", inverted, 66, label, width)
  BY DEF ColumnText, Text, ColumnX, ColumnWidth
<1>2. text.label = label /\ text.whole = (width <= 66)
  BY <1>1 DEF Placed
<1> HIDE DEF text
<1>3. text \in PlacedText /\ Stands(text, 62, 62 + KeptWidth(width, 66), y)
  <2> DEFINE placed == Placed(62, y, font, "LEFT", inverted, 66, label, width)
  <2>1. placed \in PlacedText /\ Stands(placed, 62, 62 + KeptWidth(width, 66), y)
    BY LeftStands
  <2> QED
    BY <1>1, <2>1
<1> QED
  BY <1>2, <1>3 DEF text

LEMMA CentredTextOfAWidth ==
  ASSUME NEW y \in Int, NEW font \in {"Primary", "Secondary"}, NEW inverted \in BOOLEAN,
         NEW label \in Label, NEW width \in Nat, width <= 124, Advance[font][label] = width
  PROVE  LET text == CentredText(y, font, inverted, label)
         IN  /\ text \in PlacedText /\ text.label = label /\ text.whole
             /\ Stands(text, 64 - width \div 2, (64 - width \div 2) + width, y)
<1> DEFINE text == CentredText(y, font, inverted, label)
           left == 64 - width \div 2
<1>1. text = Placed(64, y, font, "CENTER", inverted, 124, label, width)
  BY DEF CentredText, Text, CentredX, DisplayWidth
<1>3. text.label = label /\ text.whole
  <2>1. text.label = label /\ text.whole = (width <= 124)
    BY <1>1 DEF Placed
  <2> QED
    BY <2>1
<1> HIDE DEF text
<1>4. text \in PlacedText /\ Stands(text, left, left + width, y)
  <2> DEFINE placed == Placed(64, y, font, "CENTER", inverted, 124, label, width)
             kept == KeptWidth(width, 124)
             at == LeftOf(64, "CENTER", kept)
  <2>2. placed \in PlacedText /\ Stands(placed, at, at + kept, y)
    BY CentredStands
  <2>3. at = left /\ kept = width
    BY DEF LeftOf, KeptWidth
  <2> HIDE DEF at, kept, left
  <2> QED
    BY <1>1, <2>2, <2>3
<1> QED
  BY <1>3, <1>4 DEF text

(* So a text of the column stays in it, a centred one on the screen.       *)
LEMMA ColumnTextStands ==
  ASSUME NEW y \in Int, NEW font \in {"Primary", "Secondary"}, NEW inverted \in BOOLEAN,
         NEW label \in Label, Advance[font][label] \in Nat
  PROVE  LET text == ColumnText(y, font, inverted, label)
         IN  /\ text \in PlacedText /\ text.label = label
             /\ text.whole = (Advance[font][label] <= 66)
             /\ Stands(text, 62, 62 + KeptWidth(Advance[font][label], 66), y)
<1> DEFINE text == ColumnText(y, font, inverted, label)
<1>1. ASSUME NEW width \in Nat, Advance[font][label] = width
      PROVE  /\ text \in PlacedText /\ text.label = label /\ text.whole = (width <= 66)
             /\ Stands(text, 62, 62 + KeptWidth(width, 66), y)
  BY <1>1, ColumnTextOfAWidth
<1> HIDE DEF text
<1> QED
  BY <1>1 DEF text

LEMMA CentredTextStands ==
  ASSUME NEW y \in Int, NEW font \in {"Primary", "Secondary"}, NEW inverted \in BOOLEAN,
         NEW label \in Label, Advance[font][label] \in 0 .. 124
  PROVE  LET text == CentredText(y, font, inverted, label)
         IN  text \in PlacedText /\ text.label = label /\ text.whole /\ Stands(text, 2, 126, y)
<1> DEFINE text == CentredText(y, font, inverted, label)
<1>1. ASSUME NEW width \in Nat, width <= 124, Advance[font][label] = width
      PROVE  text \in PlacedText /\ text.label = label /\ text.whole /\ Stands(text, 2, 126, y)
  <2> DEFINE at == 64 - width \div 2
  <2>1. text \in PlacedText /\ text.label = label /\ text.whole
    BY <1>1, CentredTextOfAWidth
  <2>2. Stands(text, at, at + width, y)
    BY <1>1, CentredTextOfAWidth
  <2>3. at \in Int /\ at + width \in Int /\ 2 <= at /\ at + width <= 126
    BY <1>1
  <2> HIDE DEF text, at
  <2>4. Inside(TextBox(text), Region(2, 126, y - 8, y))
    <3>1. \A top \in Int : top <= y - 8 => Inside(TextBox(text), Region(2, 126, top, y))
      BY <2>1, <2>2, <2>3, StandsWithin
    <3> QED
      BY <3>1
  <2> QED
    BY <2>1, <2>4 DEF Stands
<1> HIDE DEF text
<1> QED
  BY <1>1 DEF text

(* A part that is tidy is so in more room.                                 *)
LEMMA TidyWider ==
  ASSUME NEW p, NEW a \in Box, NEW c \in Box, NEW m \in Int, NEW i \in Int,
         NEW n \in Int, NEW j \in Int, NEW cut,
         Tidy(p, a, m, i, cut), Inside(a, c), m <= n, i <= j
  PROVE  Tidy(p, c, n, j, cut)
<1>1. /\ p.texts \in Seq(PlacedText) /\ p.shapes \in Seq(Shape)
  BY DEF Tidy, IsAPart
<1>2. /\ \A k \in DOMAIN p.texts : TextBox(p.texts[k]) \in Box
      /\ \A k \in DOMAIN p.shapes : ShapeBox(p.shapes[k]) \in Box
  BY <1>1, ElementOfSeq, LenProperties, BoxesAreBoxes
<1>3. KeepsTo(p, a)
  BY DEF Tidy
<1>4. KeepsTo(p, c)
  BY <1>2, <1>3, InsideInside DEF KeepsTo
<1>5. Len(p.shapes) <= n /\ Len(p.texts) <= j
  <2>1. Len(p.shapes) \in Nat /\ Len(p.texts) \in Nat
    BY <1>1, LenProperties
  <2>2. Len(p.shapes) <= m /\ Len(p.texts) <= i
    BY DEF Tidy
  <2> QED
    BY <2>1, <2>2
<1> QED
  BY <1>4, <1>5 DEF Tidy

(* The lines in the middle of the screen, and the header above them.       *)
LEMMA TidyCentredLine ==
  ASSUME NEW label \in Label, Advance["Primary"][label] \in 0 .. 124, NEW cut
  PROVE  Tidy(CentredLine(label), Region(0, 128, 12, 36), 0, 1, cut)
<1> DEFINE text == CentredText(34, "Primary", FALSE, label)
<1>1. text.inverted = FALSE
  BY DEF CentredText, Text, Placed
<1>2. text \in PlacedText /\ text.whole /\ Stands(text, 2, 126, 34)
  <2>1. ASSUME NEW flag \in BOOLEAN
        PROVE  LET t == CentredText(34, "Primary", flag, label)
               IN  t \in PlacedText /\ t.whole /\ Stands(t, 2, 126, 34)
    BY CentredTextStands
  <2> QED
    BY <2>1
<1> HIDE DEF text
<1>3. Inside(TextBox(text), Region(0, 128, 12, 36))
  BY <1>2, StandsWithin
<1>4. Tidy(Part(<<>>, <<text>>), Region(0, 128, 12, 36), 0, 1, cut)
  BY <1>1, <1>2, <1>3, TidyText
<1> QED
  BY <1>4 DEF CentredLine, text

LEMMA TidyCentredLines ==
  ASSUME NEW label \in Label, Advance["Primary"][label] \in 0 .. 124,
         NEW below \in Label, Advance["Secondary"][below] \in 0 .. 66, NEW cut
  PROVE  Tidy(CentredLines(label, below), Region(0, 128, 12, 50), 0, 2, cut)
<1> DEFINE text == CentredText(50, "Secondary", FALSE, below)
<1>1. text.inverted = FALSE
  BY DEF CentredText, Text, Placed
<1>2. text \in PlacedText /\ text.whole /\ Stands(text, 2, 126, 50)
  <2>1. ASSUME NEW flag \in BOOLEAN
        PROVE  LET t == CentredText(50, "Secondary", flag, below)
               IN  t \in PlacedText /\ t.whole /\ Stands(t, 2, 126, 50)
    BY CentredTextStands
  <2> QED
    BY <2>1
<1> HIDE DEF text
<1>3. Inside(TextBox(text), Region(0, 128, 36, 50))
  BY <1>2, StandsWithin
<1>4. Tidy(Part(<<>>, <<text>>), Region(0, 128, 36, 50), 0, 1, cut)
  BY <1>1, <1>2, <1>3, TidyText
<1>5. Tidy(CentredLine(label), Region(0, 128, 12, 36), 0, 1, cut)
  BY TidyCentredLine
<1>6. /\ Region(0, 128, 12, 36) \in Box /\ Region(0, 128, 36, 50) \in Box
      /\ Region(0, 128, 12, 50) \in Box
  BY RegionsAreBoxes
<1>7. /\ Apart(Region(0, 128, 12, 36), Region(0, 128, 36, 50))
      /\ Inside(Region(0, 128, 12, 36), Region(0, 128, 12, 50))
      /\ Inside(Region(0, 128, 36, 50), Region(0, 128, 12, 50))
  BY DEF Apart, Inside, Region
<1>8. Tidy(Then(CentredLine(label), Part(<<>>, <<text>>)), Region(0, 128, 12, 50), 0 + 0, 1 + 1, cut)
  BY <1>4, <1>5, <1>6, <1>7, TidyTogether
<1>9. CentredLines(label, below) = Then(CentredLine(label), Part(<<>>, <<text>>))
  BY DEF CentredLines, text
<1>10. 0 + 0 = 0 /\ 1 + 1 = 2
  OBVIOUS
<1> QED
  BY <1>8, <1>9, <1>10

LEMMA TidyFullWidthHeader ==
  ASSUME NEW locked \in BOOLEAN, NEW cut
  PROVE  Tidy(FullWidthHeader(locked), Region(0, 128, 0, 12), 1, 2, cut)
<1> DEFINE region == Region(0, 128, 0, 12)
           name == Text(2, 9, "Primary", "LEFT", locked, 70, "StopBath")
           lock == Text(HeaderRightX, 9, "Primary", "RIGHT", TRUE, 50, "LOCKED")
           band == FilledBox(0, 0, DisplayWidth, HeaderHeight)
<1>1. /\ name = Placed(2, 9, "Primary", "LEFT", locked, 70, "StopBath", 46)
      /\ lock = Placed(126, 9, "Primary", "RIGHT", TRUE, 50, "LOCKED", 42)
      /\ "StopBath" \in Label /\ "LOCKED" \in Label
  BY PrimaryWidths DEF Text, HeaderRightX, DisplayWidth
<1>2. name.inverted = locked /\ lock.inverted = TRUE
  BY DEF Text, Placed
<1>3. band \in Shape /\ band.kind = "BOX" /\ ShapeBox(band) = region
  BY DEF FilledBox, Shape, ShapeBox, Region, DisplayWidth, HeaderHeight
<1> HIDE DEF name, lock, band
<1>4. region \in Box /\ Inside(region, region)
  BY RegionsAreBoxes DEF Inside, Region
<1>5. name \in PlacedText /\ Stands(name, 2, 48, 9) /\ name.whole
  <2> DEFINE placed == Placed(2, 9, "Primary", "LEFT", locked, 70, "StopBath", 46)
  <2>1. placed \in PlacedText /\ Stands(placed, 2, 2 + KeptWidth(46, 70), 9)
    BY <1>1, LeftStands
  <2>2. 2 + KeptWidth(46, 70) = 48 /\ 46 <= 70
    BY DEF KeptWidth
  <2>3. placed.whole
    BY <2>2, WholeWithin
  <2> QED
    BY <1>1, <2>1, <2>2, <2>3
<1>6. lock \in PlacedText /\ Stands(lock, 84, 126, 9) /\ lock.whole
  <2> DEFINE placed == Placed(126, 9, "Primary", "RIGHT", TRUE, 50, "LOCKED", 42)
             kept == KeptWidth(42, 50)
             at == LeftOf(126, "RIGHT", kept)
  <2>4. ASSUME NEW flag PROVE Placed(126, 9, "Primary", "RIGHT", flag, 50, "LOCKED", 42).whole
    BY WholeWithin
  <2>1. placed \in PlacedText /\ Stands(placed, at, at + kept, 9)
    <3>1. ASSUME NEW flag \in BOOLEAN
          PROVE  LET t == Placed(126, 9, "Primary", "RIGHT", flag, 50, "LOCKED", 42)
                 IN  t \in PlacedText /\ Stands(t, at, at + kept, 9)
      BY <1>1, RightStands
    <3> QED
      BY <3>1
  <2>2. kept = 42 /\ at = 84 /\ at + kept = 126
    BY DEF KeptWidth, LeftOf
  <2>3. placed.whole
    BY <2>4
  <2> HIDE DEF at, kept
  <2> QED
    BY <1>1, <2>1, <2>2, <2>3
<1>7. Inside(TextBox(name), region) /\ Inside(TextBox(lock), region)
  BY <1>5, <1>6, StandsWithin
<1>8. CASE locked = FALSE
  <2>1. FullWidthHeader(locked) = Part(<<>>, <<name>>)
    BY <1>8 DEF FullWidthHeader, name
  <2> HIDE DEF region
  <2>2. Tidy(Part(<<>>, <<name>>), region, 0, 1, cut)
    BY <1>2, <1>5, <1>7, <1>8, TidyText
  <2> QED
    BY <1>4, <2>1, <2>2, TidyWider DEF region
<1>9. CASE locked = TRUE
  <2>1. FullWidthHeader(locked) = Part(<<band>>, <<name, lock>>)
    BY <1>9 DEF FullWidthHeader, name, lock, band
  <2>2. Apart(TextBox(name), TextBox(lock)) /\ Apart(TextBox(lock), TextBox(name))
    <3>1. Region(2, 48, 9 - 8, 9) \in Box /\ Region(84, 126, 9 - 8, 9) \in Box
      BY RegionsAreBoxes
    <3>2. Apart(Region(2, 48, 9 - 8, 9), Region(84, 126, 9 - 8, 9))
      BY DEF Apart, Region
    <3>3. TextBox(name) \in Box /\ TextBox(lock) \in Box
      BY <1>5, <1>6, BoxesAreBoxes
    <3> QED
      BY <1>5, <1>6, <3>1, <3>2, <3>3, InsideApart DEF Stands
  <2> HIDE DEF region
  <2>3. Tidy(Part(<<band>>, <<name, lock>>), region, 1, 2, cut)
    BY <1>2, <1>3, <1>4, <1>5, <1>6, <1>7, <1>9, <2>2, TidyBandOfTwo
  <2> QED
    BY <2>1, <2>3 DEF region
<1> QED
  BY <1>8, <1>9

(* The rows of the column are eleven pixels each.                          *)
LEMMA TidyColumnText ==
  ASSUME NEW y \in Int, NEW font \in {"Primary", "Secondary"}, NEW label \in Label,
         Advance[font][label] \in 0 .. 66, NEW top \in Int, top <= y - 8, NEW cut
  PROVE  Tidy(Part(<<>>, <<ColumnText(y, font, FALSE, label)>>), Region(60, 128, top, y), 0, 1, cut)
<1> DEFINE text == ColumnText(y, font, FALSE, label)
           width == Advance[font][label]
           right == 62 + KeptWidth(width, 66)
<1>1. text.inverted = FALSE
  BY DEF ColumnText, Text, Placed
<1>2. text \in PlacedText /\ text.whole = (width <= 66) /\ Stands(text, 62, right, y)
  <2>1. ASSUME NEW flag \in BOOLEAN
        PROVE  LET t == ColumnText(y, font, flag, label)
               IN  t \in PlacedText /\ t.whole = (width <= 66) /\ Stands(t, 62, right, y)
    BY SMTT(20), ColumnTextStands
  <2> QED
    BY <2>1
<1>3. right \in Int /\ right <= 128 /\ width <= 66
  BY DEF KeptWidth
<1>4. text.whole
  BY <1>2, <1>3
<1> HIDE DEF text, right
<1>6. Inside(TextBox(text), Region(60, 128, top, y))
  <2>1. \A t \in Int : t <= y - 8 => Inside(TextBox(text), Region(60, 128, t, y))
    BY <1>2, <1>3, StandsWithin
  <2> QED
    BY <2>1
<1>7. Tidy(Part(<<>>, <<text>>), Region(60, 128, top, y), 0, 1, cut)
  BY <1>1, <1>2, <1>4, <1>6, TidyText
<1> QED
  BY <1>7 DEF text

(* The header beside a code, with the lock and the marker.                 *)
LEMMA TidyColumnHeader ==
  ASSUME NEW locked \in BOOLEAN, NEW presenting, NEW cut
  PROVE  Tidy(ColumnHeader(locked, presenting), Region(60, 128, 0, 12), 1, 2, cut)
<1> DEFINE region == Region(60, 128, 0, 12)
           label == IF locked THEN "LOCKED" ELSE "StopBath"
           name == ColumnText(9, "Primary", locked, label)
           mark == Text(HeaderRightX, 9, "Secondary", "RIGHT", locked, 24, "NFC")
           band == ColumnBand(0, HeaderHeight)
<1>1. /\ mark = Placed(126, 9, "Secondary", "RIGHT", locked, 24, "NFC", 18)
      /\ "NFC" \in Label
  BY SecondaryWidths DEF Text, HeaderRightX, DisplayWidth
<1>2. name.inverted = locked /\ mark.inverted = locked
  BY DEF ColumnText, Text, Placed
<1>3. band \in Shape /\ band.kind = "BOX" /\ ShapeBox(band) = region
  BY DEF ColumnBand, FilledBox, Shape, ShapeBox, Region, DisplayWidth, HeaderHeight, ColumnBandX, ColumnX
<1>4. label \in Label /\ Advance["Primary"][label] \in 42 .. 46
  BY PrimaryWidths
<1>5. ColumnHeader(locked, presenting)
        = Part(IF locked THEN <<band>> ELSE <<>>, <<name>> \o (IF presenting THEN <<mark>> ELSE <<>>))
  BY DEF ColumnHeader, NfcMarker
<1> HIDE DEF name, mark, band, label
<1>6. region \in Box /\ Inside(region, region)
  BY RegionsAreBoxes DEF Inside, Region
<1>7. name \in PlacedText /\ Stands(name, 62, 108, 9) /\ name.whole
  <2> DEFINE width == Advance["Primary"][label]
             right == 62 + KeptWidth(width, 66)
  <2>1. name \in PlacedText /\ name.whole = (width <= 66) /\ Stands(name, 62, right, 9)
    BY <1>4, ColumnTextStands DEF name
  <2>2. right \in Int /\ right <= 108 /\ width <= 66
    BY <1>4 DEF KeptWidth
  <2>3. name.whole
    BY <2>1, <2>2
  <2> HIDE DEF right
  <2>4. Inside(TextBox(name), Region(62, 108, 1, 9))
    BY <2>1, <2>2, StandsWithin
  <2>5. 9 - 8 = 1
    OBVIOUS
  <2> QED
    BY <2>1, <2>3, <2>4, <2>5 DEF Stands
<1>8. mark \in PlacedText /\ Stands(mark, 108, 126, 9) /\ mark.whole
  <2> DEFINE placed == Placed(126, 9, "Secondary", "RIGHT", locked, 24, "NFC", 18)
             kept == KeptWidth(18, 24)
             at == LeftOf(126, "RIGHT", kept)
  <2>1. placed \in PlacedText /\ Stands(placed, at, at + kept, 9)
    BY <1>1, RightStands
  <2>2. kept = 18 /\ at = 108 /\ at + kept = 126
    BY DEF KeptWidth, LeftOf
  <2>3. placed.whole
    BY WholeWithin
  <2> HIDE DEF at, kept
  <2> QED
    BY <1>1, <2>1, <2>2, <2>3
<1>9. Inside(TextBox(name), region) /\ Inside(TextBox(mark), region)
  BY <1>7, <1>8, StandsWithin
<1>10. Apart(TextBox(name), TextBox(mark)) /\ Apart(TextBox(mark), TextBox(name))
  <2>1. Region(62, 108, 9 - 8, 9) \in Box /\ Region(108, 126, 9 - 8, 9) \in Box
    BY RegionsAreBoxes
  <2>2. Apart(Region(62, 108, 9 - 8, 9), Region(108, 126, 9 - 8, 9))
    BY DEF Apart, Region
  <2>3. TextBox(name) \in Box /\ TextBox(mark) \in Box
    BY <1>7, <1>8, BoxesAreBoxes
  <2> QED
    BY <1>7, <1>8, <2>1, <2>2, <2>3, InsideApart DEF Stands
<1> HIDE DEF region
<1>11. CASE locked /\ presenting
  <2>1. ColumnHeader(locked, presenting) = Part(<<band>>, <<name, mark>>)
    BY <1>5, <1>11, JoinOfOnes
  <2>2. Tidy(Part(<<band>>, <<name, mark>>), region, 1, 2, cut)
    BY <1>2, <1>3, <1>6, <1>7, <1>8, <1>9, <1>10, <1>11, TidyBandOfTwo
  <2> QED
    BY <2>1, <2>2 DEF region
<1>12. CASE locked /\ ~presenting
  <2>1. ColumnHeader(locked, presenting) = Part(<<band>>, <<name>>)
    BY <1>5, <1>12
  <2>2. Tidy(Part(<<band>>, <<name>>), region, 1, 1, cut)
    BY <1>2, <1>3, <1>6, <1>7, <1>9, <1>12, TidyBand
  <2> QED
    BY <1>6, <2>1, <2>2, TidyWider DEF region
<1>13. CASE ~locked /\ presenting
  <2>1. ColumnHeader(locked, presenting) = Then(Part(<<>>, <<name>>), Part(<<>>, <<mark>>))
    <3>1. <<>> \o <<>> = <<>>
      OBVIOUS
    <3> QED
      BY <1>5, <1>13, <3>1 DEF Then, Part
  <2>2. TextBox(name) \in Box /\ TextBox(mark) \in Box
    BY <1>7, <1>8, BoxesAreBoxes
  <2>3. Inside(TextBox(name), TextBox(name)) /\ Inside(TextBox(mark), TextBox(mark))
    BY <2>2 DEF Inside, Box
  <2>4. Tidy(Part(<<>>, <<name>>), TextBox(name), 0, 1, cut)
    BY <1>2, <1>7, <1>13, <2>3, TidyText
  <2>5. Tidy(Part(<<>>, <<mark>>), TextBox(mark), 0, 1, cut)
    BY <1>2, <1>8, <1>13, <2>3, TidyText
  <2>6. Tidy(Then(Part(<<>>, <<name>>), Part(<<>>, <<mark>>)), region, 0 + 0, 1 + 1, cut)
    BY <1>6, <1>9, <1>10, <2>2, <2>4, <2>5, TidyTogether
  <2>7. Tidy(ColumnHeader(locked, presenting), region, 0, 2, cut)
    BY <2>1, <2>6
  <2> QED
    BY <1>6, <2>7, TidyWider DEF region
<1>14. CASE ~locked /\ ~presenting
  <2>1. ColumnHeader(locked, presenting) = Part(<<>>, <<name>>)
    BY <1>5, <1>14
  <2>2. Tidy(Part(<<>>, <<name>>), region, 0, 1, cut)
    BY <1>2, <1>7, <1>9, <1>14, TidyText
  <2> QED
    BY <1>6, <2>1, <2>2, TidyWider DEF region
<1> QED
  BY <1>11, <1>12, <1>13, <1>14

(* A text of the code's place.                                             *)
LEMMA CodeAreaTextStands ==
  ASSUME NEW y \in Int, NEW font \in {"Primary", "Secondary"}, NEW label \in Label,
         NEW width \in Nat, width <= 54
  PROVE  LET text == Placed(29, y, font, "CENTER", FALSE, 54, label, width)
         IN  /\ text \in PlacedText /\ text.whole
             /\ Inside(TextBox(text), Region(0, 58, y - 8, y))
<1> DEFINE text == Placed(29, y, font, "CENTER", FALSE, 54, label, width)
           kept == KeptWidth(width, 54)
           at == LeftOf(29, "CENTER", kept)
<1>1. text \in PlacedText /\ Stands(text, at, at + kept, y)
  <2>1. ASSUME NEW flag \in BOOLEAN
        PROVE  LET t == Placed(29, y, font, "CENTER", flag, 54, label, width)
               IN  t \in PlacedText /\ Stands(t, at, at + kept, y)
    BY PlacedStands
  <2> QED
    BY <2>1
<1>2. text.whole
  <2>1. ASSUME NEW flag PROVE Placed(29, y, font, "CENTER", flag, 54, label, width).whole
    BY WholeWithin
  <2> QED
    BY <2>1
<1>3. kept = width /\ at = 29 - width \div 2
  BY DEF KeptWidth, LeftOf
<1>4. 29 - width \div 2 \in Int /\ 0 <= 29 - width \div 2 /\ (29 - width \div 2) + width <= 58
  OBVIOUS
<1> HIDE DEF at, kept, text
<1>5. at \in Int /\ 0 <= at /\ at + kept \in Int /\ at + kept <= 58
  BY <1>3, <1>4
<1>6. Inside(TextBox(text), Region(0, 58, y - 8, y))
  <2>1. \A top \in Int : top <= y - 8 => Inside(TextBox(text), Region(0, 58, top, y))
    BY <1>1, <1>5, StandsWithin
  <2> QED
    BY <2>1
<1> QED
  BY <1>1, <1>2, <1>6 DEF text

LEMMA TidyCodeAreaText ==
  ASSUME NEW y \in Int, NEW font \in {"Primary", "Secondary"}, NEW label \in Label,
         Advance[font][label] \in 0 .. 54, NEW cut
  PROVE  Tidy(Part(<<>>, <<CodeAreaText(y, font, label)>>), Region(0, 58, y - 8, y), 0, 1, cut)
<1> DEFINE text == CodeAreaText(y, font, label)
           width == Advance[font][label]
<1>1. text = Placed(29, y, font, "CENTER", FALSE, 54, label, width)
  BY DEF CodeAreaText, Text, QrX, CodeSize
<1>2. text.inverted = FALSE
  BY DEF CodeAreaText, Text, Placed
<1> HIDE DEF text
<1>3. text \in PlacedText /\ text.whole /\ Inside(TextBox(text), Region(0, 58, y - 8, y))
  <2> DEFINE placed(w) == Placed(29, y, font, "CENTER", FALSE, 54, label, w)
  <2>1. ASSUME NEW w \in Nat, w <= 54
        PROVE  /\ placed(w) \in PlacedText /\ placed(w).whole
               /\ Inside(TextBox(placed(w)), Region(0, 58, y - 8, y))
    BY <2>1, CodeAreaTextStands
  <2> HIDE DEF placed
  <2>2. width \in Nat /\ width <= 54
    OBVIOUS
  <2>3. text = placed(width)
    BY <1>1 DEF placed
  <2> HIDE DEF width
  <2> QED
    BY <2>1, <2>2, <2>3
<1>4. Tidy(Part(<<>>, <<text>>), Region(0, 58, y - 8, y), 0, 1, cut)
  BY <1>2, <1>3, TidyText
<1> QED
  BY <1>4 DEF text

(* The frame and the message in a code's place.                            *)
LEMMA TidyCodeUnavailable ==
  ASSUME NEW presenting, NEW cut
  PROVE  Tidy(CodeUnavailable(presenting), Region(0, 58, 12, 50), 1, 2, cut)
<1> DEFINE frame == Frame(QrX, QrY, CodeSize, CodeSize)
           above == IF presenting THEN "Too_big" ELSE "Code"
           below == IF presenting THEN "tap_to_join" ELSE "too_big"
           first == CodeAreaText(30, "Primary", above)
           second == CodeAreaText(44, "Secondary", below)
<1>1. CodeUnavailable(presenting) = Part(<<frame>>, <<first, second>>)
  BY DEF CodeUnavailable
<1>2. /\ above \in Label /\ Advance["Primary"][above] \in {26, 37}
      /\ below \in Label /\ Advance["Secondary"][below] \in {28, 42}
  BY PrimaryWidths, SecondaryWidths
<1>3. Tidy(Part(<<frame>>, <<>>), Region(0, 58, 50, 50), 1, 0, cut)
  BY TidyFrame DEF QrX, QrY, CodeSize
<1> HIDE DEF frame, above, below, first, second
<1>4. Tidy(Part(<<>>, <<first>>), Region(0, 58, 22, 30), 0, 1, cut)
  <2>1. Tidy(Part(<<>>, <<first>>), Region(0, 58, 30 - 8, 30), 0, 1, cut)
    BY <1>2, TidyCodeAreaText DEF first
  <2>2. 30 - 8 = 22
    OBVIOUS
  <2> QED
    BY <2>1, <2>2
<1>5. Tidy(Part(<<>>, <<second>>), Region(0, 58, 36, 44), 0, 1, cut)
  <2>1. Tidy(Part(<<>>, <<second>>), Region(0, 58, 44 - 8, 44), 0, 1, cut)
    BY <1>2, TidyCodeAreaText DEF second
  <2>2. 44 - 8 = 36
    OBVIOUS
  <2> QED
    BY <2>1, <2>2
<1>6. /\ Region(0, 58, 22, 30) \in Box /\ Region(0, 58, 36, 44) \in Box
      /\ Region(0, 58, 22, 44) \in Box /\ Region(0, 58, 50, 50) \in Box
      /\ Region(0, 58, 12, 50) \in Box
  BY RegionsAreBoxes
<1>7. /\ Apart(Region(0, 58, 22, 30), Region(0, 58, 36, 44))
      /\ Inside(Region(0, 58, 22, 30), Region(0, 58, 22, 44))
      /\ Inside(Region(0, 58, 36, 44), Region(0, 58, 22, 44))
  BY DEF Apart, Inside, Region
<1>8. /\ Apart(Region(0, 58, 50, 50), Region(0, 58, 22, 44))
      /\ Inside(Region(0, 58, 50, 50), Region(0, 58, 12, 50))
      /\ Inside(Region(0, 58, 22, 44), Region(0, 58, 12, 50))
  BY DEF Apart, Inside, Region
<1> DEFINE words == Then(Part(<<>>, <<first>>), Part(<<>>, <<second>>))
<1>9. Tidy(words, Region(0, 58, 22, 44), 0 + 0, 1 + 1, cut)
  BY <1>4, <1>5, <1>6, <1>7, TidyTogether
<1>10. Tidy(words, Region(0, 58, 22, 44), 0, 2, cut)
  BY <1>9
<1>11. words = Part(<<>>, <<first, second>>)
  <2>1. <<>> \o <<>> = <<>>
    OBVIOUS
  <2> QED
    BY <2>1, JoinOfOnes DEF Then, Part
<1> HIDE DEF words
<1>12. Tidy(Then(Part(<<frame>>, <<>>), words), Region(0, 58, 12, 50), 1 + 0, 0 + 2, cut)
  BY <1>3, <1>6, <1>8, <1>10, TidyTogether
<1>13. Then(Part(<<frame>>, <<>>), words) = Part(<<frame>>, <<first, second>>)
  <2>1. <<frame>> \o <<>> = <<frame>> /\ <<>> \o <<first, second>> = <<first, second>>
    OBVIOUS
  <2> QED
    BY <1>11, <2>1 DEF Then, Part
<1>14. 1 + 0 = 1 /\ 0 + 2 = 2
  OBVIOUS
<1> QED
  BY <1>1, <1>12, <1>13, <1>14

(* The count under the column, when there is no error to show there.       *)
CountShown(state) == state.delivered > 0 /\ state.error = "NONE"

LEMMA TidyDeliveredLine ==
  ASSUME NEW state, state.delivered \in Nat, NEW cut
  PROVE  Tidy(Part(<<>>, DeliveredLine(state)),
              Region(60, 128, 45, IF state.error = "NONE" THEN 56 ELSE 50),
              0, IF state.error = "NONE" THEN 1 ELSE 0, cut)
<1> DEFINE text == Placed(ColumnX, 56, "Secondary", "LEFT", FALSE, ColumnWidth, "delivered",
                          DeliveredWidth(state.delivered))
           width == DeliveredWidth(state.delivered)
<1>1. text.inverted = FALSE
  BY DEF Placed
<1>2. width \in 0 .. 66 /\ "delivered" \in Label
  BY DeliveredWidths, SecondaryWidths DEF ColumnWidth
<1>3. ASSUME NEW w \in Nat, w <= 66
      PROVE  LET t == Placed(62, 56, "Secondary", "LEFT", FALSE, 66, "delivered", w)
             IN  t \in PlacedText /\ t.whole /\ Inside(TextBox(t), Region(60, 128, 45, 56))
  <2> DEFINE t == Placed(62, 56, "Secondary", "LEFT", FALSE, 66, "delivered", w)
  <2>1. t \in PlacedText /\ Stands(t, 62, 62 + KeptWidth(w, 66), 56)
    <3>1. ASSUME NEW flag \in BOOLEAN
          PROVE  LET u == Placed(62, 56, "Secondary", "LEFT", flag, 66, "delivered", w)
                 IN  u \in PlacedText /\ Stands(u, 62, 62 + KeptWidth(w, 66), 56)
      BY <1>2, LeftStands
    <3> QED
      BY <3>1
  <2>2. t.whole
    <3>1. ASSUME NEW flag PROVE Placed(62, 56, "Secondary", "LEFT", flag, 66, "delivered", w).whole
      BY <1>3, WholeWithin
    <3> QED
      BY <3>1
  <2>3. KeptWidth(w, 66) = w
    BY <1>3 DEF KeptWidth
  <2>4. 62 + w \in Int /\ 62 + w <= 128
    BY <1>3
  <2> HIDE DEF t
  <2>5. Inside(TextBox(t), Region(60, 128, 45, 56))
    BY <2>1, <2>3, <2>4, StandsWithin
  <2> QED
    BY <2>1, <2>2, <2>5 DEF t
<1>4. text \in PlacedText /\ text.whole /\ Inside(TextBox(text), Region(60, 128, 45, 56))
  <2>1. width \in Nat /\ width <= 66
    BY <1>2
  <2> HIDE DEF width
  <2>2. LET t == Placed(62, 56, "Secondary", "LEFT", FALSE, 66, "delivered", width)
        IN  t \in PlacedText /\ t.whole /\ Inside(TextBox(t), Region(60, 128, 45, 56))
    BY <1>3, <2>1
  <2> QED
    BY <2>2 DEF width, ColumnX, ColumnWidth
<1> HIDE DEF text
<1>5. Tidy(Part(<<>>, <<text>>), Region(60, 128, 45, 56), 0, 1, cut)
  BY <1>1, <1>4, TidyText
<1>6. CASE CountShown(state)
  BY <1>5, <1>6 DEF CountShown, DeliveredLine, text
<1>7. CASE ~CountShown(state)
  <2>1. Part(<<>>, DeliveredLine(state)) = Nothing
    BY <1>7 DEF CountShown, DeliveredLine, Nothing
  <2>2. \A region : Tidy(Nothing, region, 0, 0, cut)
    BY TidyNothing
  <2>3. Region(60, 128, 45, 56) \in Box /\ Inside(Region(60, 128, 45, 56), Region(60, 128, 45, 56))
    BY RegionsAreBoxes DEF Inside, Region
  <2>4. Tidy(Nothing, Region(60, 128, 45, 56), 0, 1, cut)
    BY <2>2, <2>3, TidyWider
  <2> QED
    BY <2>1, <2>2, <2>4
<1> QED
  BY <1>6, <1>7

(* Where a code page ends, and an error band begins.                       *)
PageBottom(state) == IF state.error = "NONE" THEN 56 ELSE 50
CountTexts(state) == IF state.error = "NONE" THEN 1 ELSE 0

StatusLabels == {"Guest_joined", "Presenting"}

(* The labels of a status, and the column that they stand in.              *)
LEMMA StatusLineIs == ASSUME NEW status PROVE StatusLine(status) \in StatusLabels
  BY DEF StatusLine, StatusLabels

Column(state) ==
  LET wifi == state.page = "WIFI"
  IN  Part(<<>>,
        <<ColumnText(23, "Primary", FALSE, IF wifi THEN "WiFi" ELSE "Gallery"),
          ColumnText(34, "Secondary", FALSE, IF wifi THEN "page_1_of_2" ELSE "page_2_of_2"),
          ColumnText(45, "Secondary", FALSE, StatusLine(state.status))>>
        \o DeliveredLine(state))

(* The column's three lines.                                               *)
LEMMA TidyNames ==
  ASSUME NEW label \in Label, Advance["Primary"][label] \in 0 .. 66, NEW cut
  PROVE  Tidy(Part(<<>>, <<ColumnText(23, "Primary", FALSE, label)>>), Region(60, 128, 12, 23), 0, 1, cut)
<1>1. 12 <= 23 - 8 /\ 12 \in Int /\ 23 \in Int
  OBVIOUS
<1> QED
  BY <1>1, TidyColumnText

LEMMA TidyPages ==
  ASSUME NEW label \in Label, Advance["Secondary"][label] \in 0 .. 66, NEW cut
  PROVE  Tidy(Part(<<>>, <<ColumnText(34, "Secondary", FALSE, label)>>), Region(60, 128, 23, 34), 0, 1, cut)
<1>1. 23 <= 34 - 8 /\ 23 \in Int /\ 34 \in Int
  OBVIOUS
<1> QED
  BY <1>1, TidyColumnText

LEMMA TidyStatuses ==
  ASSUME NEW label \in Label, Advance["Secondary"][label] \in 0 .. 66, NEW cut
  PROVE  Tidy(Part(<<>>, <<ColumnText(45, "Secondary", FALSE, label)>>), Region(60, 128, 34, 45), 0, 1, cut)
<1>1. 34 <= 45 - 8 /\ 34 \in Int /\ 45 \in Int
  OBVIOUS
<1> QED
  BY <1>1, TidyColumnText

(* The column as a whole, then the page with its code or the message.      *)
LEMMA TidyColumn ==
  ASSUME NEW state, state.delivered \in Nat, NEW cut
  PROVE  Tidy(Column(state), Region(60, 128, 12, PageBottom(state)), 0, 3 + CountTexts(state), cut)
<1> DEFINE one == IF state.page = "WIFI" THEN "WiFi" ELSE "Gallery"
           two == IF state.page = "WIFI" THEN "page_1_of_2" ELSE "page_2_of_2"
           three == StatusLine(state.status)
           first == ColumnText(23, "Primary", FALSE, one)
           second == ColumnText(34, "Secondary", FALSE, two)
           third == ColumnText(45, "Secondary", FALSE, three)
           count == Part(<<>>, DeliveredLine(state))
           bottom == PageBottom(state)
           P(text) == Part(<<>>, <<text>>)
<1>1. one \in Label /\ Advance["Primary"][one] \in 0 .. 66
  BY PrimaryWidths
<1>2. two \in Label /\ Advance["Secondary"][two] \in 0 .. 66
  BY SecondaryWidths
<1>3. three \in Label /\ Advance["Secondary"][three] \in 0 .. 66
  BY SecondaryWidths, StatusLineIs DEF StatusLabels
<1>4. Column(state) = Part(<<>>, <<first, second, third>> \o DeliveredLine(state))
  BY DEF Column
<1> HIDE DEF one, two, three
<1>5. /\ Tidy(P(first), Region(60, 128, 12, 23), 0, 1, cut)
      /\ Tidy(P(second), Region(60, 128, 23, 34), 0, 1, cut)
      /\ Tidy(P(third), Region(60, 128, 34, 45), 0, 1, cut)
  BY <1>1, <1>2, <1>3, TidyNames, TidyPages, TidyStatuses
<1>6. Tidy(count, Region(60, 128, 45, bottom), 0, CountTexts(state), cut)
  BY TidyDeliveredLine DEF PageBottom, CountTexts
<1>7. bottom \in Int /\ bottom >= 50 /\ CountTexts(state) \in Int
  BY DEF PageBottom, CountTexts
<1> HIDE DEF first, second, third, count, bottom
<1>8. /\ Region(60, 128, 12, 23) \in Box /\ Region(60, 128, 23, 34) \in Box
      /\ Region(60, 128, 34, 45) \in Box /\ Region(60, 128, 12, 34) \in Box
      /\ Region(60, 128, 12, 45) \in Box
      /\ Region(60, 128, 45, bottom) \in Box /\ Region(60, 128, 12, bottom) \in Box
  BY <1>7, RegionsAreBoxes
<1> DEFINE pair == Then(P(first), P(second))
           column == Then(pair, P(third))
<1>9. Tidy(pair, Region(60, 128, 12, 34), 0, 2, cut)
  <2>1. /\ Apart(Region(60, 128, 12, 23), Region(60, 128, 23, 34))
        /\ Inside(Region(60, 128, 12, 23), Region(60, 128, 12, 34))
        /\ Inside(Region(60, 128, 23, 34), Region(60, 128, 12, 34))
    BY DEF Apart, Inside, Region
  <2>2. Tidy(pair, Region(60, 128, 12, 34), 0 + 0, 1 + 1, cut)
    BY <1>5, <1>8, <2>1, TidyTogether
  <2> QED
    BY <2>2
<1> HIDE DEF pair
<1>10. Tidy(column, Region(60, 128, 12, 45), 0, 3, cut)
  <2>1. /\ Apart(Region(60, 128, 12, 34), Region(60, 128, 34, 45))
        /\ Inside(Region(60, 128, 12, 34), Region(60, 128, 12, 45))
        /\ Inside(Region(60, 128, 34, 45), Region(60, 128, 12, 45))
    BY DEF Apart, Inside, Region
  <2>2. Tidy(column, Region(60, 128, 12, 45), 0 + 0, 2 + 1, cut)
    BY <1>5, <1>8, <1>9, <2>1, TidyTogether
  <2> QED
    BY <2>2
<1>11. column = Part(<<>>, <<first, second, third>>)
  <2>1. <<>> \o <<>> = <<>>
    OBVIOUS
  <2>2. pair = Part(<<>>, <<first, second>>)
    BY <2>1, JoinOfOnes DEF pair, Then, Part
  <2> QED
    BY <2>1, <2>2, JoinOfThree DEF Then, Part
<1> HIDE DEF column
<1>12. Tidy(Then(column, count), Region(60, 128, 12, bottom), 0, 3 + CountTexts(state), cut)
  <2>1. /\ Apart(Region(60, 128, 12, 45), Region(60, 128, 45, bottom))
        /\ Inside(Region(60, 128, 12, 45), Region(60, 128, 12, bottom))
        /\ Inside(Region(60, 128, 45, bottom), Region(60, 128, 12, bottom))
    BY <1>7 DEF Apart, Inside, Region
  <2>2. Tidy(Then(column, count), Region(60, 128, 12, bottom), 0 + 0, 3 + CountTexts(state), cut)
    BY <1>6, <1>7, <1>8, <1>10, <2>1, TidyTogether
  <2> QED
    BY <2>2
<1>13. Then(column, count) = Part(<<>>, <<first, second, third>> \o DeliveredLine(state))
  <2>1. <<>> \o <<>> = <<>>
    OBVIOUS
  <2> QED
    BY <1>11, <2>1 DEF Then, Part, count
<1> QED
  BY <1>4, <1>12, <1>13 DEF bottom

LEMMA TidyCodePage ==
  ASSUME NEW state, state.delivered \in Nat, NEW cut
  PROVE  Tidy(CodePage(state), Region(0, 128, 12, PageBottom(state)), 1, 5 + CountTexts(state), cut)
<1> DEFINE place == IF CodeFits(state) THEN Nothing ELSE CodeUnavailable(state.nfc_presenting)
           bottom == PageBottom(state)
           count == CountTexts(state)
<1>1. CodePage(state) = Then(place, Column(state))
  BY DEF CodePage, Column
<1>2. /\ Region(0, 58, 12, 50) \in Box /\ Inside(Region(0, 58, 12, 50), Region(0, 58, 12, 50))
  BY RegionsAreBoxes DEF Inside, Region
<1>3. Tidy(place, Region(0, 58, 12, 50), 1, 2, cut)
  <2>1. Tidy(Nothing, Region(0, 58, 12, 50), 1, 2, cut)
    BY <1>2, TidyNothing, TidyWider
  <2>2. Tidy(CodeUnavailable(state.nfc_presenting), Region(0, 58, 12, 50), 1, 2, cut)
    BY TidyCodeUnavailable
  <2> QED
    BY <2>1, <2>2
<1>4. bottom \in Int /\ bottom >= 50 /\ count \in Int
  BY DEF PageBottom, CountTexts
<1>5. Tidy(Column(state), Region(60, 128, 12, bottom), 0, 3 + count, cut)
  BY TidyColumn
<1> HIDE DEF place, bottom, count
<1>6. /\ Region(60, 128, 12, bottom) \in Box /\ Region(0, 128, 12, bottom) \in Box
  BY <1>4, RegionsAreBoxes
<1>7. /\ Apart(Region(0, 58, 12, 50), Region(60, 128, 12, bottom))
      /\ Inside(Region(0, 58, 12, 50), Region(0, 128, 12, bottom))
      /\ Inside(Region(60, 128, 12, bottom), Region(0, 128, 12, bottom))
  BY <1>4 DEF Apart, Inside, Region
<1>8. 3 + count \in Int /\ 2 + (3 + count) = 5 + count /\ 1 + 0 = 1
  BY <1>4
<1>9. Tidy(Then(place, Column(state)), Region(0, 128, 12, bottom), 1 + 0, 2 + (3 + count), cut)
  BY <1>2, <1>3, <1>5, <1>6, <1>7, <1>8, TidyTogether
<1> QED
  BY <1>1, <1>8, <1>9 DEF bottom, count

(* The error band, beside a code or across the screen.                     *)
LEMMA TidyErrorBand ==
  ASSUME NEW state, state.error \in Range(ErrorValues), NEW beside \in BOOLEAN,
         NEW cut, beside => "NOT_ALLOWED" \in cut
  PROVE  Tidy(ErrorBand(state, beside), Region(0, 128, PageBottom(state), 64),
              1, 1 - CountTexts(state), cut)
<1> DEFINE error == state.error
           region == Region(0, 128, PageBottom(state), 64)
           count == 1 - CountTexts(state)
<1>1. region \in Box /\ Inside(region, region) /\ PageBottom(state) \in Int /\ count \in Int /\ 0 <= count
  BY RegionsAreBoxes DEF Inside, Region, PageBottom, CountTexts
<1>2. CASE error = "NONE"
  <2>1. ErrorBand(state, beside) = Nothing
    BY <1>2 DEF ErrorBand
  <2>2. Tidy(Nothing, region, 0, 0, cut)
    BY TidyNothing
  <2> HIDE DEF region, count
  <2>3. Tidy(Nothing, region, 1, count, cut)
    BY <1>1, <2>2, TidyWider
  <2> QED
    BY <2>1, <2>3 DEF region, count
<1>3. CASE error # "NONE"
  <2>1. /\ error \in Label /\ Advance["Secondary"][error] \in 0 .. 124
        /\ error # "NOT_ALLOWED" => Advance["Secondary"][error] <= 66
    BY <1>3, ErrorWidths DEF ColumnWidth
  <2>2. count = 1 /\ region = Region(0, 128, 50, 64)
    BY <1>3 DEF PageBottom, CountTexts
  <2>3. CASE beside
    <3> DEFINE text == ColumnText(61, "Secondary", TRUE, error)
               band == ColumnBand(ErrorBandY, 12)
               width == Advance["Secondary"][error]
               right == 62 + KeptWidth(width, 66)
    <3>1. ErrorBand(state, beside) = Part(<<band>>, <<text>>)
      BY <1>3, <2>3 DEF ErrorBand
    <3>2. text.inverted = TRUE
      BY DEF ColumnText, Text, Placed
    <3>3. band \in Shape /\ band.kind = "BOX" /\ ShapeBox(band) = Region(60, 128, 52, 64)
      BY DEF ColumnBand, FilledBox, Shape, ShapeBox, Region, DisplayWidth, ColumnBandX, ColumnX, ErrorBandY
    <3>4. /\ text \in PlacedText /\ text.label = error /\ text.whole = (width <= 66)
          /\ Stands(text, 62, right, 61)
      <4>1. ASSUME NEW flag \in BOOLEAN
            PROVE  LET t == ColumnText(61, "Secondary", flag, error)
                   IN  /\ t \in PlacedText /\ t.label = error /\ t.whole = (width <= 66)
                       /\ Stands(t, 62, right, 61)
        BY SMTT(20), <2>1, ColumnTextStands
      <4> QED
        BY <4>1
    <3>5. right \in Int /\ right <= 128
      BY <2>1 DEF KeptWidth
    <3>6. text.whole \/ text.label \in cut
      BY <2>1, <2>3, <3>4
    <3> HIDE DEF text, band, right
    <3>7. /\ Inside(TextBox(text), Region(60, 128, 52, 64))
          /\ Inside(TextBox(text), Region(0, 128, 50, 64))
      <4>1. text \in PlacedText /\ Stands(text, 62, right, 61)
        BY <3>4
      <4> QED
        BY <3>5, <4>1, StandsWithin
    <3>8. Inside(Region(60, 128, 52, 64), Region(0, 128, 50, 64))
      BY DEF Inside, Region
    <3>9. Tidy(Part(<<band>>, <<text>>), Region(0, 128, 50, 64), 1, 1, cut)
      BY <3>2, <3>3, <3>4, <3>6, <3>7, <3>8, TidyBand
    <3> QED
      BY <2>2, <3>1, <3>9
  <2>4. CASE ~beside
    <3> DEFINE text == CentredText(61, "Secondary", TRUE, error)
               band == FilledBox(0, ErrorBandY, DisplayWidth, 12)
    <3>1. ErrorBand(state, beside) = Part(<<band>>, <<text>>)
      BY <1>3, <2>4 DEF ErrorBand
    <3>2. text.inverted = TRUE
      BY DEF CentredText, Text, Placed
    <3>3. band \in Shape /\ band.kind = "BOX" /\ ShapeBox(band) = Region(0, 128, 52, 64)
      BY DEF FilledBox, Shape, ShapeBox, Region, DisplayWidth, ErrorBandY
    <3>4. text \in PlacedText /\ text.whole /\ Stands(text, 2, 126, 61)
      <4>1. ASSUME NEW flag \in BOOLEAN
            PROVE  LET t == CentredText(61, "Secondary", flag, error)
                   IN  t \in PlacedText /\ t.whole /\ Stands(t, 2, 126, 61)
        BY <2>1, CentredTextStands
      <4> QED
        BY <4>1
    <3> HIDE DEF text, band
    <3>5. Inside(TextBox(text), Region(0, 128, 52, 64)) /\ Inside(TextBox(text), Region(0, 128, 50, 64))
      BY <3>4, StandsWithin
    <3>6. Inside(Region(0, 128, 52, 64), Region(0, 128, 50, 64))
      BY DEF Inside, Region
    <3>7. Tidy(Part(<<band>>, <<text>>), Region(0, 128, 50, 64), 1, 1, cut)
      BY <3>2, <3>3, <3>4, <3>5, <3>6, TidyBand
    <3> QED
      BY <2>2, <3>1, <3>7
  <2> QED
    BY <2>3, <2>4
<1> QED
  BY <1>2, <1>3

(* What stands in the middle when there is no code.                        *)
LEMMA TidyLinkFact ==
  ASSUME NEW state, NEW cut
  PROVE  Tidy(LinkFact(state), Region(0, 128, 12, 50), 0, 2, cut)
<1>1. /\ "Incompatible" \in Label /\ "Connecting" \in Label /\ "Pi_disconnected" \in Label
      /\ Advance["Primary"]["Incompatible"] \in 0 .. 124
      /\ Advance["Primary"]["Connecting"] \in 0 .. 124
      /\ Advance["Primary"]["Pi_disconnected"] \in 0 .. 124
  BY PrimaryWidths
<1>2. /\ "Update_remote" \in Label /\ "Please_wait" \in Label /\ "Reconnect_USB" \in Label
      /\ Advance["Secondary"]["Update_remote"] \in 0 .. 66
      /\ Advance["Secondary"]["Please_wait"] \in 0 .. 66
      /\ Advance["Secondary"]["Reconnect_USB"] \in 0 .. 66
  BY SecondaryWidths
<1> QED
  BY <1>1, <1>2, TidyCentredLines DEF LinkFact

(* What a record shows when it has no code.                                *)
LEMMA TidyRecordBody ==
  ASSUME NEW state, state.link_connected, ~ShowsACode(state), NEW cut
  PROVE  Tidy(RecordBody(state), Region(0, 128, 12, 50), 0, 2, cut)
<1> DEFINE region == Region(0, 128, 12, 50)
           body == RecordBody(state)
<1>1. \/ \E label \in {"Ready", "Unknown_status"} \cup StatusLabels : body = CentredLine(label)
      \/ body = CentredLines("Ending_session", "Please_wait")
      \/ body = CentredLines("Recovery_needed", "See_dashboard")
  <2>1. ~(Active(state) /\ PageNamed(state))
    BY DEF ShowsACode
  <2>2. StatusLine(state.status) \in StatusLabels
    BY StatusLineIs
  <2> HIDE DEF body
  <2>3. body = CASE state.status = "READY"             -> CentredLine("Ready")
                 [] state.status = "TERMINATING"       -> CentredLines("Ending_session", "Please_wait")
                 [] state.status = "RECOVERY_REQUIRED" -> CentredLines("Recovery_needed", "See_dashboard")
                 [] Active(state) /\ ~PageNamed(state) -> CentredLine(StatusLine(state.status))
                 [] Active(state) /\ PageNamed(state)  -> CodePage(state)
                 [] OTHER                              -> CentredLine("Unknown_status")
    BY DEF body, RecordBody
  <2> QED
    BY <2>1, <2>2, <2>3
<1>2. \A label \in {"Ready", "Unknown_status"} \cup StatusLabels :
        label \in Label /\ Advance["Primary"][label] \in 0 .. 124
  BY SMTT(20), PrimaryWidths DEF StatusLabels
<1>3. /\ Region(0, 128, 12, 36) \in Box /\ region \in Box
      /\ Inside(Region(0, 128, 12, 36), region)
  BY RegionsAreBoxes DEF Inside, Region
<1>4. ASSUME NEW label \in {"Ready", "Unknown_status"} \cup StatusLabels
      PROVE  Tidy(CentredLine(label), region, 0, 2, cut)
  <2>1. Tidy(CentredLine(label), Region(0, 128, 12, 36), 0, 1, cut)
    BY <1>2, TidyCentredLine
  <2> QED
    BY <1>3, <2>1, TidyWider
<1>5. Tidy(CentredLines("Ending_session", "Please_wait"), region, 0, 2, cut)
  <2>1. /\ "Ending_session" \in Label /\ Advance["Primary"]["Ending_session"] \in 0 .. 124
        /\ "Please_wait" \in Label /\ Advance["Secondary"]["Please_wait"] \in 0 .. 66
    BY PrimaryWidths, SecondaryWidths
  <2> QED
    BY <2>1, TidyCentredLines
<1>6. Tidy(CentredLines("Recovery_needed", "See_dashboard"), region, 0, 2, cut)
  <2>1. /\ "Recovery_needed" \in Label /\ Advance["Primary"]["Recovery_needed"] \in 0 .. 124
        /\ "See_dashboard" \in Label /\ Advance["Secondary"]["See_dashboard"] \in 0 .. 66
    BY PrimaryWidths, SecondaryWidths
  <2> QED
    BY <2>1, TidyCentredLines
<1> HIDE DEF body, region
<1> QED
  BY <1>1, <1>4, <1>5, <1>6 DEF body, region

(* The labels that may be cut.                                             *)
Cut(state) == IF ShowsACode(state) THEN {"NOT_ALLOWED"} ELSE {}

(* The header, whichever it is.                                            *)
LEMMA TidyHeader ==
  ASSUME NEW state, CanBeShown(state), NEW cut
  PROVE  Tidy(Header(state), Region(0, 128, 0, 12), 1, 2, cut)
<1>1. state.screen_locked \in BOOLEAN
  BY DEF CanBeShown
<1>2. CASE ShowsACode(state)
  <2>1. Tidy(ColumnHeader(state.screen_locked, state.nfc_presenting), Region(60, 128, 0, 12), 1, 2, cut)
    BY <1>1, TidyColumnHeader
  <2>2. /\ Region(60, 128, 0, 12) \in Box /\ Region(0, 128, 0, 12) \in Box
        /\ Inside(Region(60, 128, 0, 12), Region(0, 128, 0, 12))
    BY RegionsAreBoxes DEF Inside, Region
  <2>3. Tidy(ColumnHeader(state.screen_locked, state.nfc_presenting), Region(0, 128, 0, 12), 1, 2, cut)
    BY <2>1, <2>2, TidyWider
  <2> QED
    BY <1>2, <2>3 DEF Header
<1>3. CASE ~ShowsACode(state)
  BY <1>1, <1>3, TidyFullWidthHeader DEF Header
<1> QED
  BY <1>2, <1>3

Body(state) ==
  IF ShowsTheRecord(state) THEN Then(RecordBody(state), ErrorBand(state, ShowsACode(state)))
  ELSE LinkFact(state)

(* All that stands below the header.                                       *)
LEMMA TidyBody ==
  ASSUME NEW state, CanBeShown(state)
  PROVE  Tidy(Body(state), Region(0, 128, 12, 64), 2, 6, Cut(state))
<1> DEFINE bottom == PageBottom(state)
           count == CountTexts(state)
           cut == Cut(state)
           band == ErrorBand(state, ShowsACode(state))
<1>1. state.error \in Range(ErrorValues) /\ state.delivered \in Nat
  BY CodecAssumption DEF CanBeShown
<1>2. bottom \in Int /\ 50 <= bottom /\ bottom <= 64 /\ count \in Int /\ 0 <= count /\ count <= 1
  BY DEF PageBottom, CountTexts
<1>3. Tidy(band, Region(0, 128, bottom, 64), 1, 1 - count, cut)
  <2>1. ShowsACode(state) \in BOOLEAN
    BY DEF CanBeShown, ShowsACode, Active, PageNamed
  <2>2. ShowsACode(state) => "NOT_ALLOWED" \in cut
    BY DEF Cut
  <2>3. ASSUME NEW beside \in BOOLEAN, beside => "NOT_ALLOWED" \in cut
        PROVE  Tidy(ErrorBand(state, beside), Region(0, 128, bottom, 64), 1, 1 - count, cut)
    BY <1>1, <2>3, TidyErrorBand
  <2> QED
    BY <2>1, <2>2, <2>3
<1>4. RecordBody(state) = CodePage(state) \/ ~ShowsACode(state)
  BY DEF RecordBody, ShowsACode, Active
<1> HIDE DEF bottom, count, cut, band
<1>5. /\ Region(0, 128, 12, bottom) \in Box /\ Region(0, 128, 12, 50) \in Box
      /\ Region(0, 128, bottom, 64) \in Box /\ Region(0, 128, 12, 64) \in Box
  BY <1>2, RegionsAreBoxes
<1>6. /\ Inside(Region(0, 128, 12, 50), Region(0, 128, 12, bottom))
      /\ Inside(Region(0, 128, 12, 50), Region(0, 128, 12, 64))
      /\ Inside(Region(0, 128, 12, bottom), Region(0, 128, 12, 64))
      /\ Inside(Region(0, 128, bottom, 64), Region(0, 128, 12, 64))
      /\ Apart(Region(0, 128, 12, bottom), Region(0, 128, bottom, 64))
  BY <1>2 DEF Inside, Apart, Region
<1>7. CASE ShowsTheRecord(state)
  <2>1. Tidy(RecordBody(state), Region(0, 128, 12, bottom), 1, 5 + count, cut)
    <3>1. CASE RecordBody(state) = CodePage(state)
      BY <1>1, <3>1, TidyCodePage DEF bottom, count
    <3>2. CASE ~ShowsACode(state)
      <4>1. Tidy(RecordBody(state), Region(0, 128, 12, 50), 0, 2, cut)
        BY <1>7, <3>2, TidyRecordBody DEF ShowsTheRecord
      <4>2. 5 + count \in Int /\ 2 <= 5 + count
        BY <1>2
      <4> QED
        BY <1>5, <1>6, <4>1, <4>2, TidyWider
    <3> QED
      BY <1>4, <3>1, <3>2
  <2>2. Tidy(Then(RecordBody(state), band), Region(0, 128, 12, 64), 1 + 1, (5 + count) + (1 - count), cut)
    <3>1. 5 + count \in Int /\ 1 - count \in Int
      BY <1>2
    <3> QED
      BY <1>3, <1>5, <1>6, <2>1, <3>1, TidyTogether
  <2>3. 1 + 1 = 2 /\ (5 + count) + (1 - count) = 6
    BY <1>2
  <2> QED
    BY <1>7, <2>2, <2>3 DEF Body, band, cut
<1>8. CASE ~ShowsTheRecord(state)
  <2>1. Tidy(LinkFact(state), Region(0, 128, 12, 50), 0, 2, cut)
    BY TidyLinkFact
  <2>2. Tidy(LinkFact(state), Region(0, 128, 12, 64), 2, 6, cut)
    BY <1>5, <1>6, <2>1, TidyWider
  <2> QED
    BY <1>8, <2>2 DEF Body, cut
<1> QED
  BY <1>7, <1>8

(* Nothing of the last rows is used when the button stands there.          *)
LEMMA TidyBodyAboveTheButton ==
  ASSUME NEW state, CanBeShown(state), ShowsTheRecord(state), state.status = "READY", state.error = "NONE"
  PROVE  Tidy(Body(state), Region(0, 128, 12, 52), 2, 6, Cut(state))
<1> DEFINE cut == Cut(state)
<1>1. ~ShowsACode(state) /\ state.link_connected
  BY DEF ShowsACode, Active, ShowsTheRecord
<1>2. Body(state) = Then(RecordBody(state), Nothing)
  BY DEF Body, ErrorBand
<1> HIDE DEF cut
<1>3. Tidy(RecordBody(state), Region(0, 128, 12, 50), 0, 2, cut)
  BY <1>1, TidyRecordBody
<1>4. Tidy(Nothing, Region(0, 128, 50, 52), 0, 0, cut)
  BY TidyNothing
<1>5. /\ Region(0, 128, 12, 50) \in Box /\ Region(0, 128, 50, 52) \in Box
      /\ Region(0, 128, 12, 52) \in Box
  BY RegionsAreBoxes
<1>6. /\ Apart(Region(0, 128, 12, 50), Region(0, 128, 50, 52))
      /\ Inside(Region(0, 128, 12, 50), Region(0, 128, 12, 52))
      /\ Inside(Region(0, 128, 50, 52), Region(0, 128, 12, 52))
      /\ Inside(Region(0, 128, 12, 52), Region(0, 128, 12, 52))
  BY DEF Apart, Inside, Region
<1>7. Tidy(Then(RecordBody(state), Nothing), Region(0, 128, 12, 52), 0 + 0, 2 + 0, cut)
  BY <1>3, <1>4, <1>5, <1>6, TidyTogether
<1>8. Tidy(Body(state), Region(0, 128, 12, 52), 0, 2, cut)
  BY <1>2, <1>7
<1> QED
  BY <1>5, <1>6, <1>8, TidyWider DEF cut

(* Header and body make the whole screen.                                  *)
LEMMA TidyWhole ==
  ASSUME NEW state, CanBeShown(state), NEW bottom \in {52, 64},
         Tidy(Body(state), Region(0, 128, 12, bottom), 2, 6, Cut(state))
  PROVE  Tidy(Whole(state), Region(0, 128, 0, bottom), 3, 8, Cut(state))
<1> DEFINE cut == Cut(state)
<1>1. Tidy(Header(state), Region(0, 128, 0, 12), 1, 2, cut)
  BY TidyHeader
<1>2. /\ Region(0, 128, 0, 12) \in Box /\ Region(0, 128, 12, bottom) \in Box
      /\ Region(0, 128, 0, bottom) \in Box
  BY RegionsAreBoxes
<1>3. /\ Apart(Region(0, 128, 0, 12), Region(0, 128, 12, bottom))
      /\ Inside(Region(0, 128, 0, 12), Region(0, 128, 0, bottom))
      /\ Inside(Region(0, 128, 12, bottom), Region(0, 128, 0, bottom))
  BY DEF Apart, Inside, Region
<1> HIDE DEF cut
<1>4. Tidy(Then(Header(state), Body(state)), Region(0, 128, 0, bottom), 1 + 2, 2 + 6, cut)
  BY <1>1, <1>2, <1>3, TidyTogether DEF cut
<1>5. Whole(state) = Then(Header(state), Body(state))
  BY DEF Whole, Body
<1>6. 1 + 2 = 3 /\ 2 + 6 = 8
  OBVIOUS
<1> QED
  BY <1>4, <1>5, <1>6 DEF cut

(* The layout's arrays have room for all of it.                            *)
LEMMA FirstOfAll ==
  ASSUME NEW S, NEW s \in Seq(S), NEW limit \in Nat, Len(s) <= limit
  PROVE  FirstOf(s, limit) = s
<1>1. (IF Len(s) < limit THEN Len(s) ELSE limit) = Len(s)
  BY LenProperties
<1> QED
  BY <1>1, SubSeqFull DEF FirstOf

LEMMA EverythingIsShown ==
  ASSUME ScreenIsComposed, ShownInv
  PROVE  /\ Tidy(Whole(display), Region(0, 128, 0, 64), 3, 8, Cut(display))
         /\ screen.texts = Whole(display).texts /\ screen.shapes = Whole(display).shapes
<1>1. CanBeShown(display)
  BY DEF ShownInv
<1>2. Tidy(Whole(display), Region(0, 128, 0, 64), 3, 8, Cut(display))
  BY <1>1, TidyBody, TidyWhole
<1> DEFINE whole == Whole(display)
<1>3. /\ screen.texts = FirstOf(whole.texts, 8) /\ screen.shapes = FirstOf(whole.shapes, 6)
  BY DEF ScreenIsComposed, Compose, MaxTexts, MaxShapes
<1> HIDE DEF whole
<1>4. /\ whole.texts \in Seq(PlacedText) /\ whole.shapes \in Seq(Shape)
      /\ Len(whole.texts) <= 8 /\ Len(whole.shapes) <= 3
  BY <1>2 DEF Tidy, IsAPart, whole
<1>5. Len(whole.shapes) <= 6
  BY <1>4, LenProperties
<1> QED
  BY <1>2, <1>3, <1>4, <1>5, FirstOfAll DEF whole

(* And nothing stands in the rows of the button.                           *)
LEMMA ButtonIsClear ==
  ASSUME ScreenIsComposed, ShownInv, screen.center_button_shown
  PROVE  Tidy(Whole(display), Region(0, 128, 0, 52), 3, 8, Cut(display))
<1>1. CanBeShown(display)
  BY DEF ShownInv
<1>2. ShowsTheRecord(display) /\ display.status = "READY" /\ display.error = "NONE"
  BY DEF ScreenIsComposed, Compose
<1> QED
  BY <1>1, <1>2, TidyBodyAboveTheButton, TidyWhole

(***************************************************************************)
(* Every screen can be read: whatever record, lock, tag or state of the    *)
(* link it is composed for, each text is on it, clear of the others, of    *)
(* the bands that are not its own and of the button, and none is dropped   *)
(* or cut but for the one error code that is too wide beside a code.       *)
(***************************************************************************)
THEOREM ScreenCanBeRead == Spec => []ScreenIsLegible
<1>1. ScreenIsComposed /\ ShownInv => ScreenIsLegible
  <2> SUFFICES ASSUME ScreenIsComposed, ShownInv PROVE ScreenIsLegible
    OBVIOUS
  <2> DEFINE whole == Whole(display)
             cut == Cut(display)
             texts == screen.texts
             shapes == screen.shapes
  <2>1. /\ Tidy(whole, Region(0, 128, 0, 64), 3, 8, cut)
        /\ texts = whole.texts /\ shapes = whole.shapes
    BY EverythingIsShown
  <2>2. screen.center_button_shown => Tidy(whole, Region(0, 128, 0, 52), 3, 8, cut)
    BY ButtonIsClear
  <2> HIDE DEF whole, cut
  <2>3. IsAPart(whole) /\ KeepsTo(whole, Region(0, 128, 0, 64)) /\ IsClear(whole)
    BY <2>1 DEF Tidy
  <2>4. \A k \in DOMAIN texts : texts[k] \in PlacedText /\ TextBox(texts[k]) \in Box
    BY <2>1, <2>3, ElementOfSeq, LenProperties, BoxesAreBoxes DEF IsAPart
  <2>5. ASSUME NEW k \in DOMAIN texts
        PROVE  /\ Inside(TextBox(texts[k]), Region(0, 128, 0, 64))
               /\ \A j \in DOMAIN texts : j # k => Apart(TextBox(texts[k]), TextBox(texts[j]))
    BY <2>1, <2>3 DEF KeepsTo, IsClear
  <2>6. ASSUME NEW k \in DOMAIN texts
        PROVE  IF texts[k].inverted
               THEN \E b \in DOMAIN shapes :
                      shapes[b].kind = "BOX" /\ Inside(TextBox(texts[k]), ShapeBox(shapes[b]))
               ELSE \A b \in DOMAIN shapes :
                      shapes[b].kind = "BOX" => Apart(TextBox(texts[k]), ShapeBox(shapes[b]))
    BY <2>1, <2>3 DEF IsClear
  <2>7. ASSUME NEW k \in DOMAIN texts, screen.center_button_shown
        PROVE  Apart(TextBox(texts[k]), ButtonBox)
    <3>1. Inside(TextBox(texts[k]), Region(0, 128, 0, 52))
      BY <2>1, <2>2, <2>7 DEF Tidy, KeepsTo
    <3>2. ButtonBox = Region(0, 128, 52, 64)
      BY DEF ButtonBox, Region, DisplayWidth, DisplayHeight
    <3>3. /\ Region(0, 128, 0, 52) \in Box /\ Region(0, 128, 52, 64) \in Box
          /\ Apart(Region(0, 128, 0, 52), Region(0, 128, 52, 64))
          /\ Inside(Region(0, 128, 52, 64), Region(0, 128, 52, 64))
      BY RegionsAreBoxes DEF Apart, Inside, Region
    <3> QED
      BY <2>4, <3>1, <3>2, <3>3, InsideApart
  <2>8. TextsAreLegible
    <3>1. DOMAIN TextBoxes = DOMAIN texts /\ \A k \in DOMAIN texts : TextBoxes[k] = TextBox(texts[k])
      BY DEF TextBoxes
    <3>2. \A k \in DOMAIN shapes : ShapeBoxes[k] = ShapeBox(shapes[k])
      BY DEF ShapeBoxes
    <3>3. \A b : b \in Boxes <=> b \in DOMAIN shapes /\ shapes[b].kind = "BOX"
      BY DEF Boxes
    <3>4. [left |-> 0, right |-> DisplayWidth, top |-> 0, bottom |-> DisplayHeight] = Region(0, 128, 0, 64)
      BY DEF Region, DisplayWidth, DisplayHeight
    <3> SUFFICES ASSUME NEW k \in DOMAIN texts
                 PROVE  /\ Inside(TextBoxes[k], Region(0, 128, 0, 64))
                        /\ \A j \in DOMAIN TextBoxes : j # k => Apart(TextBoxes[k], TextBoxes[j])
                        /\ screen.center_button_shown => Apart(TextBoxes[k], ButtonBox)
                        /\ IF texts[k].inverted
                           THEN \E box \in Boxes : Inside(TextBoxes[k], ShapeBoxes[box])
                           ELSE \A box \in Boxes : Apart(TextBoxes[k], ShapeBoxes[box])
      BY <3>1, <3>4 DEF TextsAreLegible
    <3>5. /\ Inside(TextBoxes[k], Region(0, 128, 0, 64))
          /\ \A j \in DOMAIN TextBoxes : j # k => Apart(TextBoxes[k], TextBoxes[j])
      BY <2>5, <3>1
    <3>6. screen.center_button_shown => Apart(TextBoxes[k], ButtonBox)
      BY <2>7, <3>1
    <3>7. IF texts[k].inverted
          THEN \E box \in Boxes : Inside(TextBoxes[k], ShapeBoxes[box])
          ELSE \A box \in Boxes : Apart(TextBoxes[k], ShapeBoxes[box])
      <4> HIDE DEF texts, shapes
      <4>1. CASE texts[k].inverted
        BY <2>6, <3>1, <3>2, <3>3, <4>1
      <4>2. CASE ~texts[k].inverted
        BY <2>6, <3>1, <3>2, <3>3, <4>2
      <4> QED
        BY <4>1, <4>2
    <3> QED
      BY <3>5, <3>6, <3>7
  <2>9. NothingIsCut
    <3>1. \A k \in DOMAIN texts : texts[k].whole \/ texts[k].label \in cut
      BY <2>1 DEF Tidy
    <3>2. \A label \in cut : label = "NOT_ALLOWED" /\ ShowsACode(display)
      BY DEF cut, Cut
    <3>3. Len(texts) = Len(Whole(display).texts) /\ Len(shapes) = Len(Whole(display).shapes)
      BY <2>1 DEF whole
    <3> QED
      BY <3>1, <3>2, <3>3 DEF NothingIsCut
  <2> QED
    BY <2>8, <2>9 DEF ScreenIsLegible
<1> QED
  BY <1>1, ScreenInvariant, ShownInvariant, PTL

-----------------------------------------------------------------------------
(* What a part of the screen says of the tag, part by part.                *)
LabelsOf(texts) == {texts[k].label : k \in DOMAIN texts}

TagWords == {"NFC", "Too_big", "tap_to_join", "Code", "too_big"}

TagWordsOf(part) == LabelsOf(part.texts) \cap TagWords

(* A text says its label, and short sequences theirs.                      *)
LEMMA PlacedSays ==
  /\ \A y, font, inverted, label :
       /\ ColumnText(y, font, inverted, label).label = label
       /\ CentredText(y, font, inverted, label).label = label
       /\ CodeAreaText(y, font, label).label = label
  /\ \A x, y, font, anchor, inverted, limit, label, width :
       /\ Placed(x, y, font, anchor, inverted, limit, label, width).label = label
       /\ Text(x, y, font, anchor, inverted, limit, label).label = label
BY DEF ColumnText, CentredText, CodeAreaText, Text, Placed

LEMMA ShortTextsSay ==
  /\ LabelsOf(<<>>) = {}
  /\ \A s : LabelsOf(<<s>>) = {s.label}
  /\ \A s, t : LabelsOf(<<s, t>>) = {s.label, t.label}
  /\ \A s, t, u : LabelsOf(<<s, t, u>>) = {s.label, t.label, u.label}
<1>1. LabelsOf(<<>>) = {}
  BY DEF LabelsOf
<1>2. ASSUME NEW s PROVE LabelsOf(<<s>>) = {s.label}
  BY DEF LabelsOf
<1>3. ASSUME NEW s, NEW t PROVE LabelsOf(<<s, t>>) = {s.label, t.label}
  BY DEF LabelsOf
<1>4. ASSUME NEW s, NEW t, NEW u PROVE LabelsOf(<<s, t, u>>) = {s.label, t.label, u.label}
  BY DEF LabelsOf
<1> QED
  BY <1>1, <1>2, <1>3, <1>4

(* Two parts together say what either says.                                *)
LEMMA TogetherTheySay ==
  ASSUME NEW S, NEW s \in Seq(S), NEW t \in Seq(S)
  PROVE  LabelsOf(s \o t) = LabelsOf(s) \cup LabelsOf(t)
<1> DEFINE u == s \o t
<1>1. \A k \in DOMAIN s : k \in DOMAIN u /\ u[k] = s[k]
  BY ElementsOfAJoin
<1>2. \A k \in DOMAIN t : Len(s) + k \in DOMAIN u /\ u[Len(s) + k] = t[k]
  BY ElementsOfAJoin
<1>3. \A k \in DOMAIN u :
        \/ k \in DOMAIN s /\ u[k] = s[k]
        \/ k - Len(s) \in DOMAIN t /\ u[k] = t[k - Len(s)]
  BY ElementsOfAJoin
<1> HIDE DEF u
<1>4. LabelsOf(u) \subseteq LabelsOf(s) \cup LabelsOf(t)
  BY <1>3 DEF LabelsOf
<1>5. LabelsOf(s) \subseteq LabelsOf(u)
  BY <1>1 DEF LabelsOf
<1>6. LabelsOf(t) \subseteq LabelsOf(u)
  BY <1>2 DEF LabelsOf
<1> QED
  BY <1>4, <1>5, <1>6 DEF u

(* Two parts of a screen say what either says.                             *)
LEMMA PartsTogetherSay ==
  ASSUME NEW p, NEW q, IsAPart(p), IsAPart(q)
  PROVE  TagWordsOf(Then(p, q)) = TagWordsOf(p) \cup TagWordsOf(q)
<1>1. p.texts \in Seq(PlacedText) /\ q.texts \in Seq(PlacedText)
  BY DEF IsAPart
<1>2. LabelsOf(p.texts \o q.texts) = LabelsOf(p.texts) \cup LabelsOf(q.texts)
  BY <1>1, TogetherTheySay
<1>3. Then(p, q).texts = p.texts \o q.texts
  BY DEF Then, Part
<1> QED
  BY <1>2, <1>3 DEF TagWordsOf

(* The header says that there is a tag, and nothing else does.             *)
LEMMA HeaderSays ==
  ASSUME NEW state
  PROVE  TagWordsOf(Header(state))
           = IF ShowsACode(state) /\ state.nfc_presenting THEN {"NFC"} ELSE {}
<1> DEFINE locked == state.screen_locked
           label == IF locked THEN "LOCKED" ELSE "StopBath"
           name == ColumnText(9, "Primary", locked, label)
           marker == Text(HeaderRightX, 9, "Secondary", "RIGHT", locked, 24, "NFC")
<1>1. label \notin TagWords /\ "LOCKED" \notin TagWords /\ "StopBath" \notin TagWords /\ "NFC" \in TagWords
  BY DEF TagWords
<1>2. name.label = label /\ marker.label = "NFC"
  BY PlacedSays
<1>3. CASE ShowsACode(state)
  <2>1. Header(state).texts = <<name>> \o NfcMarker(locked, state.nfc_presenting)
    BY <1>3 DEF Header, ColumnHeader, Part
  <2> HIDE DEF name, marker, label
  <2>2. CASE state.nfc_presenting
    <3>1. NfcMarker(locked, state.nfc_presenting) = <<marker>>
      BY <2>2 DEF NfcMarker, marker
    <3>2. Header(state).texts = <<name, marker>>
      BY <2>1, <3>1, JoinOfOnes
    <3>3. LabelsOf(Header(state).texts) = {label, "NFC"}
      BY <1>2, <3>2, ShortTextsSay
    <3> QED
      BY <1>1, <1>3, <2>2, <3>3 DEF TagWordsOf
  <2>3. CASE ~state.nfc_presenting
    <3>1. NfcMarker(locked, state.nfc_presenting) = <<>>
      BY <2>3 DEF NfcMarker
    <3>2. <<name>> \o <<>> = <<name>>
      OBVIOUS
    <3>3. LabelsOf(Header(state).texts) = {label}
      BY <1>2, <2>1, <3>1, <3>2, ShortTextsSay
    <3> QED
      BY <1>1, <1>3, <2>3, <3>3 DEF TagWordsOf
  <2> QED
    BY <2>2, <2>3
<1>4. CASE ~ShowsACode(state)
  <2> DEFINE full == Text(2, 9, "Primary", "LEFT", locked, 70, "StopBath")
             lock == Text(HeaderRightX, 9, "Primary", "RIGHT", TRUE, 50, "LOCKED")
  <2>1. Header(state).texts = IF locked THEN <<full, lock>> ELSE <<full>>
    BY <1>4 DEF Header, FullWidthHeader, Part
  <2>2. full.label = "StopBath" /\ lock.label = "LOCKED"
    BY DEF Text, Placed
  <2> HIDE DEF full, lock
  <2>3. LabelsOf(Header(state).texts) \subseteq {"StopBath", "LOCKED"}
    BY <2>1, <2>2, ShortTextsSay
  <2> QED
    BY <1>1, <1>4, <2>3 DEF TagWordsOf
<1> QED
  BY <1>3, <1>4

(* No error code speaks of a tag.                                          *)
LEMMA ErrorBandSays ==
  ASSUME NEW state, state.error \in Range(ErrorValues), NEW beside
  PROVE  TagWordsOf(ErrorBand(state, beside)) = {}
<1> DEFINE error == state.error
           column == ColumnText(61, "Secondary", TRUE, error)
           centred == CentredText(61, "Secondary", TRUE, error)
           band == ErrorBand(state, beside)
<1>1. error \notin TagWords
  BY DEF TagWords, Range, ErrorValues
<1>2. column.label = error /\ centred.label = error
  BY DEF ColumnText, CentredText, Text, Placed
<1>3. band.texts \in {<<>>, <<column>>, <<centred>>}
  BY DEF ErrorBand, Nothing, Part
<1> HIDE DEF error, column, centred, band
<1>4. LabelsOf(band.texts) \subseteq {error}
  BY <1>2, <1>3, ShortTextsSay
<1> QED
  BY <1>1, <1>4 DEF TagWordsOf, band

(* What stands in the middle without a code.                               *)
LEMMA CentredSay ==
  ASSUME NEW primary, NEW secondary, primary \notin TagWords, secondary \notin TagWords
  PROVE  TagWordsOf(CentredLine(primary)) = {} /\ TagWordsOf(CentredLines(primary, secondary)) = {}
<1> DEFINE first == CentredText(34, "Primary", FALSE, primary)
           second == CentredText(50, "Secondary", FALSE, secondary)
<1>1. first.label = primary /\ second.label = secondary
  BY DEF CentredText, Text, Placed
<1>2. CentredLine(primary).texts = <<first>>
  BY DEF CentredLine, Part
<1>3. CentredLines(primary, secondary).texts = <<first>> \o <<second>>
  BY DEF CentredLines, CentredLine, Then, Part
<1> HIDE DEF first, second
<1>4. CentredLines(primary, secondary).texts = <<first, second>>
  BY <1>3, JoinOfOnes
<1>5. /\ LabelsOf(CentredLine(primary).texts) = {primary}
      /\ LabelsOf(CentredLines(primary, secondary).texts) = {primary, secondary}
  BY <1>1, <1>2, <1>4, ShortTextsSay
<1> QED
  BY <1>5 DEF TagWordsOf

(* Neither the state of the link nor a plain record speaks of a tag.       *)
LEMMA LinkFactSays == ASSUME NEW state PROVE TagWordsOf(LinkFact(state)) = {}
<1>1. {"Incompatible", "Update_remote", "Connecting", "Please_wait", "Pi_disconnected", "Reconnect_USB"}
        \cap TagWords = {}
  BY DEF TagWords
<1> QED
  BY <1>1, CentredSay DEF LinkFact

LEMMA PlainBodySays ==
  ASSUME NEW state, state.link_connected, ~ShowsACode(state)
  PROVE  TagWordsOf(RecordBody(state)) = {}
<1> DEFINE body == RecordBody(state)
<1>1. ~(Active(state) /\ PageNamed(state))
  BY DEF ShowsACode
<1>2. {"Ready", "Unknown_status", "Ending_session", "Please_wait", "Recovery_needed", "See_dashboard",
       "Guest_joined", "Presenting"} \cap TagWords = {}
  BY DEF TagWords
<1>3. StatusLine(state.status) \notin TagWords
  BY <1>2, StatusLineIs DEF StatusLabels
<1>4. \/ \E label \in {"Ready", "Unknown_status", StatusLine(state.status)} : body = CentredLine(label)
      \/ body = CentredLines("Ending_session", "Please_wait")
      \/ body = CentredLines("Recovery_needed", "See_dashboard")
  <2> HIDE DEF body
  <2>1. body = CASE state.status = "READY"             -> CentredLine("Ready")
                 [] state.status = "TERMINATING"       -> CentredLines("Ending_session", "Please_wait")
                 [] state.status = "RECOVERY_REQUIRED" -> CentredLines("Recovery_needed", "See_dashboard")
                 [] Active(state) /\ ~PageNamed(state) -> CentredLine(StatusLine(state.status))
                 [] Active(state) /\ PageNamed(state)  -> CodePage(state)
                 [] OTHER                              -> CentredLine("Unknown_status")
    BY DEF body, RecordBody
  <2> QED
    BY <1>1, <2>1
<1> HIDE DEF body
<1>5. TagWordsOf(body) = {}
  BY <1>2, <1>3, <1>4, CentredSay
<1> QED
  BY <1>5 DEF body

(* A page with a code sends to the tag, or says that there is none, when   *)
(* it has no room for the code.                                            *)
UnavailableWords(presenting) ==
  IF presenting THEN {"Too_big", "tap_to_join"} ELSE {"Code", "too_big"}

(* The message in a code's place.                                          *)
LEMMA UnavailableSays ==
  ASSUME NEW presenting
  PROVE  TagWordsOf(CodeUnavailable(presenting)) = UnavailableWords(presenting)
<1> DEFINE first == CodeAreaText(30, "Primary", IF presenting THEN "Too_big" ELSE "Code")
           second == CodeAreaText(44, "Secondary", IF presenting THEN "tap_to_join" ELSE "too_big")
<1>1. /\ first.label = IF presenting THEN "Too_big" ELSE "Code"
      /\ second.label = IF presenting THEN "tap_to_join" ELSE "too_big"
  BY DEF CodeAreaText, Text, Placed
<1>2. CodeUnavailable(presenting).texts = <<first, second>>
  BY DEF CodeUnavailable, Part
<1> HIDE DEF first, second
<1>3. LabelsOf(CodeUnavailable(presenting).texts) = UnavailableWords(presenting)
  <2>1. LabelsOf(CodeUnavailable(presenting).texts) = {first.label, second.label}
    BY <1>2, ShortTextsSay
  <2>2. CASE presenting
    BY <1>1, <2>1, <2>2 DEF UnavailableWords
  <2>3. CASE ~presenting
    BY <1>1, <2>1, <2>3 DEF UnavailableWords
  <2> QED
    BY <2>2, <2>3
<1>4. UnavailableWords(presenting) \subseteq TagWords
  BY DEF UnavailableWords, TagWords
<1> QED
  BY <1>3, <1>4 DEF TagWordsOf

(* The column beside a code does not speak of a tag.                       *)
LEMMA ColumnSays == ASSUME NEW state PROVE TagWordsOf(Column(state)) = {}
<1> DEFINE first == ColumnText(23, "Primary", FALSE, IF state.page = "WIFI" THEN "WiFi" ELSE "Gallery")
           second == ColumnText(34, "Secondary", FALSE,
                                IF state.page = "WIFI" THEN "page_1_of_2" ELSE "page_2_of_2")
           third == ColumnText(45, "Secondary", FALSE, StatusLine(state.status))
           count == Placed(ColumnX, 56, "Secondary", "LEFT", FALSE, ColumnWidth, "delivered",
                           DeliveredWidth(state.delivered))
           three == <<first, second, third>>
           S == {first, second, third, count}
<1>1. {"WiFi", "Gallery", "page_1_of_2", "page_2_of_2", "Guest_joined", "Presenting", "delivered"}
        \cap TagWords = {}
  BY DEF TagWords
<1>2. /\ first.label \in {"WiFi", "Gallery"} /\ second.label \in {"page_1_of_2", "page_2_of_2"}
      /\ third.label \in StatusLabels /\ count.label = "delivered"
  BY StatusLineIs DEF ColumnText, Text, Placed
<1>3. Column(state).texts = three \o DeliveredLine(state)
  BY DEF Column, Part
<1>4. DeliveredLine(state) \in {<<>>, <<count>>}
  BY DEF DeliveredLine
<1> HIDE DEF first, second, third, count
<1>5. three \in Seq(S) /\ DeliveredLine(state) \in Seq(S)
  <2>1. three \in Seq(S)
    OBVIOUS
  <2>2. <<>> \in Seq(S) /\ <<count>> \in Seq(S)
    OBVIOUS
  <2> QED
    BY <1>4, <2>1, <2>2
<1>6. LabelsOf(three) \cap TagWords = {} /\ LabelsOf(DeliveredLine(state)) \cap TagWords = {}
  BY <1>1, <1>2, <1>4, ShortTextsSay DEF StatusLabels
<1> HIDE DEF three, S
<1>7. LabelsOf(three \o DeliveredLine(state)) = LabelsOf(three) \cup LabelsOf(DeliveredLine(state))
  BY <1>5, TogetherTheySay
<1> QED
  BY <1>3, <1>6, <1>7 DEF TagWordsOf

(* A page with a code has the words of the message, or none.               *)
LEMMA CodePageSays ==
  ASSUME NEW state, state.delivered \in Nat
  PROVE  TagWordsOf(CodePage(state))
           = IF CodeFits(state) THEN {} ELSE UnavailableWords(state.nfc_presenting)
<1> DEFINE place == IF CodeFits(state) THEN Nothing ELSE CodeUnavailable(state.nfc_presenting)
<1>1. CodePage(state) = Then(place, Column(state))
  BY DEF CodePage, Column
<1>2. IsAPart(place)
  <2>1. IsAPart(Nothing)
    BY TidyNothing DEF Tidy
  <2>2. IsAPart(CodeUnavailable(state.nfc_presenting))
    BY TidyCodeUnavailable DEF Tidy
  <2> QED
    BY <2>1, <2>2
<1>3. IsAPart(Column(state))
  BY TidyColumn DEF Tidy
<1>4. TagWordsOf(place) = IF CodeFits(state) THEN {} ELSE UnavailableWords(state.nfc_presenting)
  <2>1. TagWordsOf(Nothing) = {}
    BY ShortTextsSay DEF TagWordsOf, Nothing, Part
  <2> QED
    BY <2>1, UnavailableSays
<1> HIDE DEF place
<1>5. TagWordsOf(Then(place, Column(state))) = TagWordsOf(place) \cup TagWordsOf(Column(state))
  BY <1>2, <1>3, PartsTogetherSay
<1> QED
  BY <1>1, <1>4, <1>5, ColumnSays

(* The screen as a whole.                                                  *)
LEMMA WholeSays ==
  ASSUME NEW state, CanBeShown(state)
  PROVE  TagWordsOf(Whole(state))
           = (IF ShowsACode(state) /\ state.nfc_presenting THEN {"NFC"} ELSE {})
             \cup (IF ShowsTheRecord(state) /\ ShowsACode(state) /\ ~CodeFits(state)
                   THEN UnavailableWords(state.nfc_presenting) ELSE {})
<1> DEFINE band == ErrorBand(state, ShowsACode(state))
           unavailable == IF ShowsTheRecord(state) /\ ShowsACode(state) /\ ~CodeFits(state)
                          THEN UnavailableWords(state.nfc_presenting) ELSE {}
<1>1. state.delivered \in Nat /\ state.error \in Range(ErrorValues)
  BY CodecAssumption DEF CanBeShown
<1>2. IsAPart(Header(state)) /\ IsAPart(Body(state))
  BY TidyHeader, TidyBody DEF Tidy
<1>3. TagWordsOf(Body(state)) = unavailable
  <2>1. CASE ~ShowsTheRecord(state)
    BY <2>1, LinkFactSays DEF Body
  <2>2. CASE ShowsTheRecord(state)
    <3>1. IsAPart(RecordBody(state)) /\ TagWordsOf(RecordBody(state)) = unavailable
      <4>1. CASE ShowsACode(state)
        <5>1. RecordBody(state) = CodePage(state)
          BY <4>1 DEF RecordBody, ShowsACode, Active
        <5>2. IsAPart(CodePage(state))
          BY <1>1, TidyCodePage DEF Tidy
        <5> QED
          BY <1>1, <2>2, <4>1, <5>1, <5>2, CodePageSays
      <4>2. CASE ~ShowsACode(state)
        <5>1. state.link_connected
          BY <2>2 DEF ShowsTheRecord
        <5>2. IsAPart(RecordBody(state))
          BY <4>2, <5>1, TidyRecordBody DEF Tidy
        <5> QED
          BY <4>2, <5>1, <5>2, PlainBodySays
      <4> QED
        BY <4>1, <4>2
    <3>2. IsAPart(band)
      <4>1. ShowsACode(state) \in BOOLEAN
        BY DEF CanBeShown, ShowsACode, Active, PageNamed
      <4>2. ASSUME NEW beside \in BOOLEAN PROVE IsAPart(ErrorBand(state, beside))
        <5>1. beside => "NOT_ALLOWED" \in {"NOT_ALLOWED"}
          OBVIOUS
        <5>2. Tidy(ErrorBand(state, beside), Region(0, 128, PageBottom(state), 64),
                   1, 1 - CountTexts(state), {"NOT_ALLOWED"})
          BY <1>1, <5>1, TidyErrorBand
        <5> QED
          BY <5>2 DEF Tidy
      <4> QED
        BY <4>1, <4>2
    <3>3. TagWordsOf(band) = {}
      BY <1>1, ErrorBandSays
    <3>4. Body(state) = Then(RecordBody(state), band)
      BY <2>2 DEF Body
    <3> HIDE DEF band, unavailable
    <3>5. TagWordsOf(Then(RecordBody(state), band)) = TagWordsOf(RecordBody(state)) \cup TagWordsOf(band)
      BY <3>1, <3>2, PartsTogetherSay
    <3> QED
      BY <3>1, <3>3, <3>4, <3>5
  <2> QED
    BY <2>1, <2>2
<1>4. Whole(state) = Then(Header(state), Body(state))
  BY DEF Whole, Body
<1> HIDE DEF unavailable
<1>5. TagWordsOf(Then(Header(state), Body(state))) = TagWordsOf(Header(state)) \cup TagWordsOf(Body(state))
  BY <1>2, PartsTogetherSay
<1> QED
  BY <1>3, <1>4, <1>5, HeaderSays DEF unavailable

(***************************************************************************)
(* The screen never misleads about the tag: it speaks of a tap exactly     *)
(* when a tag is presented, and what stands in the place of a code that    *)
(* is too big sends to the tag exactly when there is one, across records,  *)
(* locks and losses of the link, each of which composes the screen anew.   *)
(***************************************************************************)
THEOREM ScreenAndTagAgree == Spec => []TheScreenTellsTheTag
<1>1. ScreenIsComposed /\ ShownInv => TheScreenTellsTheTag
  <2> SUFFICES ASSUME ScreenIsComposed, ShownInv PROVE TheScreenTellsTheTag
    OBVIOUS
  <2> DEFINE tagged == tag # NoMessage
             empty == screen.code_page_active /\ ~screen.qr_area_shown
  <2>1. CanBeShown(display) /\ display.nfc_presenting = tagged
    BY DEF ShownInv
  <2>2. tagged => ShowsTheRecord(display) /\ ShowsACode(display)
    BY DEF ShownInv
  <2>3. Labels = LabelsOf(Whole(display).texts)
    BY EverythingIsShown DEF Labels, LabelsOf
  <2>4. empty <=> ShowsTheRecord(display) /\ ShowsACode(display) /\ ~CodeFits(display)
    BY DEF ScreenIsComposed, Compose
  <2> HIDE DEF tagged, empty
  <2>5. Labels \cap TagWords
          = (IF tagged THEN {"NFC"} ELSE {}) \cup (IF empty THEN UnavailableWords(tagged) ELSE {})
    BY <2>1, <2>2, <2>3, <2>4, WholeSays DEF TagWordsOf
  <2>6. /\ "NFC" \in Labels <=> tagged
        /\ {"Too_big", "tap_to_join"} \subseteq Labels <=> empty /\ tagged
        /\ {"Code", "too_big"} \subseteq Labels <=> empty /\ ~tagged
    BY <2>5 DEF TagWords, UnavailableWords
  <2> QED
    BY <2>6 DEF TheScreenTellsTheTag, tagged, empty
<1> QED
  BY <1>1, ScreenInvariant, ShownInvariant, PTL

-----------------------------------------------------------------------------
(* A message is made field by field, and stays one.                        *)
LEMMA InitialisedIsAMessage ==
  ASSUME NEW verb \in Verbs
  PROVE  IsAMessage(Initialised(verb)) /\ Initialised(verb).verb = verb
<1> DEFINE value == [integer |-> 0, text |-> <<>>]
           m == Initialised(verb)
<1>1. m = [verb |-> verb, fields |-> [i \in DOMAIN FieldsOf(verb) |-> value]]
  BY DEF Initialised, FieldsOf
<1>2. <<>> \in Seq(Symbol)
  BY NoTokens
<1>3. value \in FieldValue
  BY <1>2 DEF FieldValue
<1>4. \A field : IsAValue(field, value)
  BY <1>3 DEF IsAValue
<1> HIDE DEF value
<1>5. m.verb = verb /\ m.fields = [i \in DOMAIN FieldsOf(verb) |-> value]
  BY <1>1
<1>6. DOMAIN m.fields = DOMAIN FieldsOf(m.verb) /\ m.fields = [i \in DOMAIN m.fields |-> m.fields[i]]
  BY <1>5
<1>7. \A i \in DOMAIN FieldsOf(m.verb) : IsAValue(FieldsOf(m.verb)[i], m.fields[i])
  BY <1>4, <1>5
<1>8. m = [verb |-> m.verb, fields |-> m.fields]
  BY <1>1
<1> HIDE DEF m
<1>9. IsAMessage(m)
  BY <1>5, <1>6, <1>7, <1>8 DEF IsAMessage
<1> QED
  BY <1>5, <1>9 DEF m

(* A field is changed, and the others are as they were.                    *)
Changed(m, i, value, after) ==
  /\ IsAMessage(after) /\ after.verb = m.verb /\ after.fields[i] = value
  /\ \A j \in DOMAIN FieldsOf(m.verb) : j # i => after.fields[j] = m.fields[j]

LEMMA ChangedFieldIsAMessage ==
  ASSUME NEW m, IsAMessage(m), NEW i \in DOMAIN FieldsOf(m.verb), NEW value,
         IsAValue(FieldsOf(m.verb)[i], value)
  PROVE  Changed(m, i, value, [m EXCEPT !.fields[i] = value])
<1> DEFINE after == [m EXCEPT !.fields[i] = value]
<1>1. /\ m = [verb |-> m.verb, fields |-> m.fields] /\ m.verb \in Verbs
      /\ DOMAIN m.fields = DOMAIN FieldsOf(m.verb)
      /\ \A j \in DOMAIN FieldsOf(m.verb) : IsAValue(FieldsOf(m.verb)[j], m.fields[j])
  BY DEF IsAMessage
<1>2. after = [verb |-> m.verb, fields |-> [m.fields EXCEPT ![i] = value]]
  BY <1>1
<1> HIDE DEF after
<1>3. after.verb = m.verb /\ after.fields = [m.fields EXCEPT ![i] = value]
  BY <1>2
<1>4. DOMAIN after.fields = DOMAIN FieldsOf(m.verb) /\ after.fields[i] = value
  BY <1>1, <1>3
<1>5. \A j \in DOMAIN FieldsOf(m.verb) : j # i => after.fields[j] = m.fields[j]
  BY <1>1, <1>3
<1>6. \A j \in DOMAIN FieldsOf(m.verb) : IsAValue(FieldsOf(m.verb)[j], after.fields[j])
  BY <1>1, <1>4, <1>5
<1>7. after.fields = [j \in DOMAIN after.fields |-> after.fields[j]]
  BY <1>3
<1>8. after = [verb |-> after.verb, fields |-> after.fields]
  BY <1>2
<1>9. IsAMessage(after)
  BY <1>1, <1>3, <1>4, <1>6, <1>7, <1>8 DEF IsAMessage
<1> QED
  BY <1>3, <1>4, <1>5, <1>9 DEF after, Changed

LEMMA SetTextKeeps ==
  ASSUME NEW m, IsAMessage(m), NEW i \in DOMAIN FieldsOf(m.verb), NEW text \in Seq(0 .. 255)
  PROVE  /\ IsAMessage(SetText(m, i, text)) /\ SetText(m, i, text).verb = m.verb
         /\ IsText(FieldsOf(m.verb)[i]) =>
              SetText(m, i, text).fields[i] =
                [integer |-> 0,
                 text |-> IF TextIsValid(FieldsOf(m.verb)[i], text) THEN text ELSE <<>>]
         /\ \A j \in DOMAIN FieldsOf(m.verb) : j # i => SetText(m, i, text).fields[j] = m.fields[j]
<1> DEFINE field == FieldsOf(m.verb)[i]
           kept == IF TextIsValid(field, text) THEN text ELSE <<>>
           value == [integer |-> 0, text |-> kept]
<1>1. CASE ~IsText(field)
  BY <1>1 DEF SetText, FieldsOf
<1>2. CASE IsText(field)
  <2>1. kept \in Seq(Symbol)
    <3>1. <<>> \in Seq(Symbol)
      BY NoTokens
    <3>2. Seq(0 .. 255) \subseteq Seq(Symbol)
      BY CharactersAreSymbols, SeqMonotonic
    <3> QED
      BY <3>1, <3>2
  <2> HIDE DEF kept
  <2>2. IsAValue(field, value)
    BY <1>2, <2>1 DEF IsAValue, FieldValue
  <2>3. /\ m = [verb |-> m.verb, fields |-> m.fields] /\ DOMAIN m.fields = DOMAIN FieldsOf(m.verb)
        /\ IsAValue(field, m.fields[i])
    BY DEF IsAMessage
  <2>4. [m.fields[i] EXCEPT !.text = kept] = value
    BY <1>2, <2>3 DEF IsAValue, FieldValue
  <2>5. SetText(m, i, text) = [m EXCEPT !.fields[i].text = kept]
    BY <1>2 DEF SetText, FieldsOf, kept
  <2>6. [m EXCEPT !.fields[i].text = kept] = [m EXCEPT !.fields[i] = [m.fields[i] EXCEPT !.text = kept]]
    BY <2>3
  <2>7. SetText(m, i, text) = [m EXCEPT !.fields[i] = value]
    BY <2>4, <2>5, <2>6
  <2> HIDE DEF value, field
  <2>8. IsAValue(FieldsOf(m.verb)[i], value)
    BY <2>2 DEF field
  <2>9. Changed(m, i, value, SetText(m, i, text))
    <3>1. Changed(m, i, value, [m EXCEPT !.fields[i] = value])
      BY <2>8, ChangedFieldIsAMessage
    <3> QED
      BY <2>7, <3>1
  <2> QED
    BY <2>9 DEF value, kept, field, Changed
<1> QED
  BY <1>1, <1>2

LEMMA SetIntegerKeeps ==
  ASSUME NEW m, IsAMessage(m), NEW i \in DOMAIN FieldsOf(m.verb), NEW n \in Int,
         ~IsText(FieldsOf(m.verb)[i])
  PROVE  /\ IsAMessage(SetInteger(m, i, n)) /\ SetInteger(m, i, n).verb = m.verb
         /\ SetInteger(m, i, n).fields[i] = [integer |-> n, text |-> <<>>]
         /\ \A j \in DOMAIN FieldsOf(m.verb) : j # i => SetInteger(m, i, n).fields[j] = m.fields[j]
<1> DEFINE field == FieldsOf(m.verb)[i]
           none == <<>>
           value == [integer |-> n, text |-> none]
<1>1. none \in Seq(Symbol)
  BY NoTokens
<1>2. /\ m = [verb |-> m.verb, fields |-> m.fields] /\ DOMAIN m.fields = DOMAIN FieldsOf(m.verb)
      /\ IsAValue(field, m.fields[i])
  BY DEF IsAMessage
<1>3. m.fields[i] \in FieldValue /\ m.fields[i].text = none
  BY <1>2 DEF IsAValue
<1> HIDE DEF none
<1>4. IsAValue(field, value)
  <2>1. value \in FieldValue
    BY <1>1 DEF FieldValue
  <2> QED
    BY <2>1 DEF IsAValue, none
<1>5. [m.fields[i] EXCEPT !.integer = n] = value
  BY <1>3 DEF FieldValue
<1>6. SetInteger(m, i, n) = [m EXCEPT !.fields[i] = [m.fields[i] EXCEPT !.integer = n]]
  BY <1>2 DEF SetInteger
<1>7. SetInteger(m, i, n) = [m EXCEPT !.fields[i] = value]
  BY <1>5, <1>6
<1> HIDE DEF value
<1>8. Changed(m, i, value, SetInteger(m, i, n))
  BY <1>4, <1>7, ChangedFieldIsAMessage
<1> QED
  BY <1>8 DEF value, none, Changed

-----------------------------------------------------------------------------
(* A draft is a message, whatever its values.                              *)
Filled(verb, values, m, i) ==
  IF IsText(Descriptors[verb][i]) THEN SetText(m, i, values[i].text)
  ELSE SetInteger(m, i, values[i].integer)

IsADraft(verb, values) ==
  /\ verb \in Verbs /\ DOMAIN values = DOMAIN FieldsOf(verb)
  /\ \A i \in DOMAIN values : values[i] \in [integer : 0 .. UintMax, text : Seq(0 .. 255)]

(* The payload of a record is in printable characters: no other text is    *)
(* kept.                                                                   *)
PayloadIsText(m) == m.verb = "DISPLAY" => m.fields[3].text \in Seq(Character)

MessagesOf(verb) ==
  {m \in [verb : {verb}, fields : [DOMAIN FieldsOf(verb) -> FieldValue]] :
     IsAMessage(m) /\ PayloadIsText(m)}

LEMMA MessagesOfAVerb ==
  ASSUME NEW verb \in Verbs
  PROVE  \A m : m \in MessagesOf(verb) <=> IsAMessage(m) /\ PayloadIsText(m) /\ m.verb = verb
<1> SUFFICES ASSUME NEW m, IsAMessage(m), PayloadIsText(m), m.verb = verb PROVE m \in MessagesOf(verb)
  BY DEF MessagesOf
<1>1. /\ m = [verb |-> m.verb, fields |-> m.fields]
      /\ m.fields = [i \in DOMAIN FieldsOf(verb) |-> m.fields[i]]
      /\ \A i \in DOMAIN FieldsOf(verb) : IsAValue(FieldsOf(verb)[i], m.fields[i])
  BY DEF IsAMessage
<1>2. \A i \in DOMAIN FieldsOf(verb) : m.fields[i] \in FieldValue
  BY <1>1 DEF IsAValue
<1>3. m.fields \in [DOMAIN FieldsOf(verb) -> FieldValue]
  BY <1>1, <1>2
<1>4. [verb |-> m.verb, fields |-> m.fields]
        \in [verb : {verb}, fields : [DOMAIN FieldsOf(verb) -> FieldValue]]
  BY <1>3
<1> QED
  BY <1>1, <1>4 DEF MessagesOf

LEMMA DisplayFieldsAre ==
  LET fields == FieldsOf("DISPLAY")
  IN  /\ DOMAIN fields = 1 .. 5 /\ "DISPLAY" \in Verbs
      /\ fields[1] = EnumerationField("status", StatusValues)
      /\ fields[2] = EnumerationField("page", PageValues)
      /\ fields[3] = TextField("payload", MaxTextLength)
      /\ fields[4] = IntegerField("delivered", 0, MaxDeliveredCount)
      /\ fields[5] = EnumerationField("error", ErrorValues)
      /\ ~IsText(fields[1]) /\ ~IsText(fields[2]) /\ IsText(fields[3])
      /\ ~IsText(fields[4]) /\ ~IsText(fields[5])
<1> DEFINE fields == FieldsOf("DISPLAY")
<1>1. /\ DOMAIN fields = 1 .. 5 /\ "DISPLAY" \in Verbs
      /\ fields[1] = EnumerationField("status", StatusValues)
      /\ fields[2] = EnumerationField("page", PageValues)
      /\ fields[3] = TextField("payload", MaxTextLength)
      /\ fields[4] = IntegerField("delivered", 0, MaxDeliveredCount)
      /\ fields[5] = EnumerationField("error", ErrorValues)
  BY DescriptorsAre DEF Verbs
<1> HIDE DEF fields
<1>2. /\ ~IsText(fields[1]) /\ ~IsText(fields[2]) /\ IsText(fields[3])
      /\ ~IsText(fields[4]) /\ ~IsText(fields[5])
  BY <1>1 DEF IsText, EnumerationField, TextField, IntegerField
<1> QED
  BY <1>1, <1>2 DEF fields

LEMMA InitialisedHasAText ==
  ASSUME NEW verb \in Verbs
  PROVE  PayloadIsText(Initialised(verb))
<1> SUFFICES ASSUME verb = "DISPLAY" PROVE Initialised(verb).fields[3].text \in Seq(Character)
  BY InitialisedIsAMessage DEF PayloadIsText
<1>1. 3 \in DOMAIN Descriptors[verb]
  BY DisplayFieldsAre DEF FieldsOf
<1>2. Initialised(verb).fields[3].text = <<>>
  BY <1>1 DEF Initialised
<1>3. <<>> \in Seq(Character)
  OBVIOUS
<1> QED
  BY <1>2, <1>3

LEMMA SetTextKeepsAText ==
  ASSUME NEW m, IsAMessage(m), PayloadIsText(m), NEW i \in DOMAIN FieldsOf(m.verb),
         NEW text \in Seq(0 .. 255), IsText(FieldsOf(m.verb)[i])
  PROVE  PayloadIsText(SetText(m, i, text))
<1> SUFFICES ASSUME m.verb = "DISPLAY" PROVE SetText(m, i, text).fields[3].text \in Seq(Character)
  BY SetTextKeeps DEF PayloadIsText
<1> DEFINE field == FieldsOf(m.verb)[i]
           kept == IF TextIsValid(field, text) THEN text ELSE <<>>
           after == SetText(m, i, text)
<1>1. /\ after.fields[i] = [integer |-> 0, text |-> kept]
      /\ \A j \in DOMAIN FieldsOf(m.verb) : j # i => after.fields[j] = m.fields[j]
  <2>1. /\ IsText(field) => after.fields[i] = [integer |-> 0, text |-> kept]
        /\ \A j \in DOMAIN FieldsOf(m.verb) : j # i => after.fields[j] = m.fields[j]
    <3> HIDE DEF after
    <3>1. IsText(FieldsOf(m.verb)[i]) =>
            SetText(m, i, text).fields[i] =
              [integer |-> 0,
               text |-> IF TextIsValid(FieldsOf(m.verb)[i], text) THEN text ELSE <<>>]
      BY SetTextKeeps
    <3>2. \A j \in DOMAIN FieldsOf(m.verb) : j # i => SetText(m, i, text).fields[j] = m.fields[j]
      BY SetTextKeeps
    <3> QED
      BY <3>1, <3>2 DEF after
  <2> QED
    BY <2>1
<1>2. 3 \in DOMAIN FieldsOf(m.verb) /\ (i = 3 => field.type = "TEXT")
  BY DisplayFieldsAre DEF TextField
<1>3. i = 3 => kept \in Seq(Character)
  <2> SUFFICES ASSUME i = 3 PROVE kept \in Seq(Character)
    OBVIOUS
  <2>1. TextIsValid(field, text) => \A k \in DOMAIN text : text[k] \in 32 .. 126
    BY <1>2 DEF TextIsValid
  <2>2. Len(text) \in Nat /\ DOMAIN text = 1 .. Len(text) /\ text = [k \in 1 .. Len(text) |-> text[k]]
    BY LenProperties
  <2>3. TextIsValid(field, text) => text \in Seq(Character)
    <3> HIDE DEF field
    <3>1. (\A k \in 1 .. Len(text) : text[k] \in Character) => text \in Seq(Character)
      BY <2>2
    <3> QED
      BY <2>1, <2>2, <3>1 DEF Character
  <2>4. <<>> \in Seq(Character)
    OBVIOUS
  <2> QED
    BY <2>3, <2>4
<1> HIDE DEF kept, after, field
<1>4. CASE i = 3
  BY <1>1, <1>3, <1>4 DEF after
<1>5. CASE i # 3
  <2>1. after.fields[3] = m.fields[3]
    BY <1>1, <1>2, <1>5
  <2> QED
    BY <2>1 DEF after, PayloadIsText
<1> QED
  BY <1>4, <1>5

LEMMA SetIntegerKeepsAText ==
  ASSUME NEW m, IsAMessage(m), PayloadIsText(m), NEW i \in DOMAIN FieldsOf(m.verb), NEW n \in Int,
         ~IsText(FieldsOf(m.verb)[i])
  PROVE  PayloadIsText(SetInteger(m, i, n))
<1> SUFFICES ASSUME m.verb = "DISPLAY" PROVE SetInteger(m, i, n).fields[3].text \in Seq(Character)
  BY SetIntegerKeeps DEF PayloadIsText
<1> DEFINE after == SetInteger(m, i, n)
<1>1. /\ after.fields[i] = [integer |-> n, text |-> <<>>]
      /\ \A j \in DOMAIN FieldsOf(m.verb) : j # i => after.fields[j] = m.fields[j]
  BY SetIntegerKeeps
<1>2. 3 \in DOMAIN FieldsOf(m.verb) /\ i # 3
  BY DisplayFieldsAre
<1> HIDE DEF after
<1>3. after.fields[3] = m.fields[3]
  BY <1>1, <1>2
<1> QED
  BY <1>3 DEF after, PayloadIsText

LEMMA FilledKeeps ==
  ASSUME NEW verb, NEW values, IsADraft(verb, values)
  PROVE  \A m \in MessagesOf(verb), i \in DOMAIN FieldsOf(verb) :
           Filled(verb, values, m, i) \in MessagesOf(verb)
<1> TAKE m \in MessagesOf(verb), i \in DOMAIN FieldsOf(verb)
<1>1. IsAMessage(m) /\ PayloadIsText(m) /\ m.verb = verb /\ verb \in Verbs
  BY MessagesOfAVerb DEF IsADraft
<1>2. values[i].text \in Seq(0 .. 255) /\ values[i].integer \in 0 .. UintMax
  BY DEF IsADraft
<1>3. values[i].integer \in Int
  BY <1>2
<1>4. IsText(FieldsOf(verb)[i]) => Filled(verb, values, m, i) = SetText(m, i, values[i].text)
  BY DEF Filled, FieldsOf
<1>5. ~IsText(FieldsOf(verb)[i]) => Filled(verb, values, m, i) = SetInteger(m, i, values[i].integer)
  BY DEF Filled, FieldsOf
<1> DEFINE text == values[i].text
           n == values[i].integer
<1> HIDE DEF text, n
<1>6. IsAMessage(SetText(m, i, text)) /\ SetText(m, i, text).verb = m.verb
  <2>1. text \in Seq(0 .. 255)
    BY <1>2 DEF text
  <2> QED
    BY <1>1, <2>1, SetTextKeeps
<1>7. ~IsText(FieldsOf(verb)[i]) =>
        IsAMessage(SetInteger(m, i, n)) /\ SetInteger(m, i, n).verb = m.verb
  <2>1. n \in Int
    BY <1>3 DEF n
  <2> QED
    BY <1>1, <2>1, SetIntegerKeeps
<1>8. IsAMessage(Filled(verb, values, m, i)) /\ Filled(verb, values, m, i).verb = verb
  BY <1>1, <1>4, <1>5, <1>6, <1>7 DEF text, n
<1>9. IsText(FieldsOf(verb)[i]) => PayloadIsText(SetText(m, i, text))
  <2>1. text \in Seq(0 .. 255)
    BY <1>2 DEF text
  <2> QED
    BY <1>1, <2>1, SetTextKeepsAText
<1>10. ~IsText(FieldsOf(verb)[i]) => PayloadIsText(SetInteger(m, i, n))
  <2>1. n \in Int
    BY <1>3 DEF n
  <2> QED
    BY <1>1, <2>1, SetIntegerKeepsAText
<1>11. PayloadIsText(Filled(verb, values, m, i))
  BY <1>4, <1>5, <1>9, <1>10 DEF text, n
<1> QED
  BY <1>1, <1>8, <1>11, MessagesOfAVerb

LEMMA DraftedIsAMessage ==
  ASSUME NEW verb, NEW values, IsADraft(verb, values)
  PROVE  /\ IsAMessage(Drafted(verb, values)) /\ Drafted(verb, values).verb = verb
         /\ PayloadIsText(Drafted(verb, values))
<1> DEFINE S == MessagesOf(verb)
           C == DOMAIN FieldsOf(verb)
           start == Initialised(verb)
           raw == [i \in DOMAIN values |-> i]
           Fill(m, i) == Filled(verb, values, m, i)
           take == [x \in S \X C |-> Fill(x[1], x[2])]
           f == Run(take, start, raw)
           eq(after) == [i \in 0 .. Len(raw) |-> IF i = 0 THEN start ELSE Fill(after[i - 1], raw[i])]
           h == CHOOSE after : after = eq(after)
<1>1. verb \in Verbs /\ Len(FieldsOf(verb)) \in {1, 3, 5} /\ C = 1 .. Len(FieldsOf(verb))
  BY FieldsAre DEF IsADraft
<1>2. raw = [i \in 1 .. Len(FieldsOf(verb)) |-> i] /\ Len(FieldsOf(verb)) \in Nat
  BY <1>1 DEF IsADraft
<1>3. raw \in Seq(C) /\ Len(raw) = Len(FieldsOf(verb))
  BY <1>1, <1>2
<1>4. Len(raw) \in Nat /\ \A n \in 1 .. Len(raw) : raw[n] \in C
  BY <1>1, <1>2, <1>3
<1>5. start \in S
  BY <1>1, InitialisedIsAMessage, InitialisedHasAText, MessagesOfAVerb
<1>6. \A m \in S, i \in C : Fill(m, i) \in S
  BY FilledKeeps
<1>7. Drafted(verb, values) = h[Len(raw)]
  BY DEF Drafted, ScanOf, Filled
<1> HIDE DEF S, C, start, raw, Fill
<1>8. take \in [S \X C -> S]
  BY <1>6
<1>9. \A s \in S, c \in C : take[<<s, c>>] = Fill(s, c)
  OBVIOUS
<1>10. IsARun(S, take, start, raw, f)
  <2> HIDE DEF take
  <2> QED
    BY <1>3, <1>5, <1>8, RunIs
<1> HIDE DEF take, f
<1>11. f \in [0 .. Len(raw) -> S] /\ f[0] = start
  BY <1>10 DEF IsARun
<1>12. \A n \in 1 .. Len(raw) : f[n] = Fill(f[n - 1], raw[n])
  <2> TAKE n \in 1 .. Len(raw)
  <2>1. n - 1 \in 0 .. Len(raw)
    BY <1>4
  <2>2. f[n - 1] \in S /\ raw[n] \in C
    BY <1>4, <1>11, <2>1
  <2>3. f[n] = take[<<f[n - 1], raw[n]>>]
    BY <1>10 DEF IsARun
  <2> QED
    BY <1>9, <2>2, <2>3
<1>13. f = eq(f)
  <2>1. \A i \in 0 .. Len(raw) : f[i] = IF i = 0 THEN start ELSE Fill(f[i - 1], raw[i])
    BY <1>4, <1>11, <1>12
  <2>2. f = [i \in 0 .. Len(raw) |-> f[i]]
    BY <1>11
  <2> QED
    BY <2>1, <2>2
<1>14. h = eq(h)
  <2> HIDE DEF eq
  <2> QED
    BY <1>13
<1> HIDE DEF h
<1>15. h[0] = start /\ \A n \in 1 .. Len(raw) : h[n] = Fill(h[n - 1], raw[n])
  BY <1>4, <1>14
<1>16. f[Len(raw)] = h[Len(raw)]
  <2> HIDE DEF eq
  <2>1. \A n \in 1 .. Len(raw) : f[n - 1] = h[n - 1] => f[n] = h[n]
    BY <1>12, <1>15
  <2>2. f[0] = h[0]
    BY <1>11, <1>15
  <2> QED
    BY <1>4, <2>1, <2>2, RecursionIsUnique
<1>17. f[Len(raw)] \in S
  BY <1>4, <1>11
<1> QED
  BY <1>1, <1>7, <1>16, <1>17, MessagesOfAVerb DEF S

-----------------------------------------------------------------------------
(* A text in a Wi-Fi code.                                                 *)
EscapedInCode(c) == IF c \in Reserved THEN <<Backslash, c>> ELSE <<c>>

LEMMA EscapedInCodeIs ==
  ASSUME NEW c \in Character
  PROVE  /\ EscapedInCode(c) \in Seq(Character) /\ EscapedInCode(c) \in Seq(Symbol)
         /\ Len(EscapedInCode(c)) \in 1 .. 2
<1>1. Backslash \in Character
  BY DEF Backslash, Character
<1>2. Seq(Character) \subseteq Seq(Symbol)
  BY CharactersAreSymbols, SeqMonotonic
<1> DEFINE one == <<c>>
           two == <<Backslash, c>>
<1>3. one \in Seq(Character) /\ Len(one) = 1 /\ two \in Seq(Character) /\ Len(two) = 2
  BY <1>1
<1>4. EscapedInCode(c) = one \/ EscapedInCode(c) = two
  BY DEF EscapedInCode
<1> HIDE DEF one, two
<1> QED
  BY <1>2, <1>3, <1>4

LEMMA WifiEscapeSteps ==
  /\ WifiEscape(<<>>) = <<>>
  /\ \A t \in Seq(Character) : WifiEscape(t) \in Seq(Symbol)
  /\ \A t \in Seq(Character) : \A c \in Character :
       WifiEscape(Append(t, c)) = WifiEscape(t) \o EscapedInCode(c)
<1> DEFINE f == [c \in Character |-> EscapedInCode(c)]
           m(t) == [i \in DOMAIN t |-> EscapedInCode(t[i])]
<1>1. IsAMap(f, Character, Seq(Symbol))
  BY EscapedInCodeIs DEF IsAMap
<1>2. ASSUME NEW t \in Seq(Character) PROVE m(t) = Mapped(f, t)
  <2>1. \A i \in DOMAIN t : t[i] \in Character
    BY LenProperties, ElementOfSeq
  <2> QED
    BY <2>1 DEF Mapped
<1>3. \A t : WifiEscape(t) = FlattenSeq(m(t))
  BY DEF WifiEscape, EscapedInCode
<1>4. \A c \in Character : f[c] = EscapedInCode(c)
  OBVIOUS
<1> HIDE DEF f
<1>5. ASSUME NEW t \in Seq(Character), NEW c \in Character
      PROVE  m(t) \in Seq(Seq(Symbol)) /\ m(Append(t, c)) = Append(m(t), EscapedInCode(c))
  <2>1. Append(t, c) \in Seq(Character)
    BY AppendProperties
  <2>2. Mapped(f, t) \in Seq(Seq(Symbol)) /\ Mapped(f, Append(t, c)) = Append(Mapped(f, t), f[c])
    BY <1>1, MappedAppend
  <2> HIDE DEF m
  <2> QED
    BY <1>2, <1>4, <2>1, <2>2
<1>6. \A t \in Seq(Character) : m(t) \in Seq(Seq(Symbol))
  <2>1. 32 \in Character
    BY DEF Character
  <2> HIDE DEF m
  <2> QED
    BY <1>5, <2>1
<1>7. WifiEscape(<<>>) = <<>>
  <2>1. m(<<>>) = <<>>
    OBVIOUS
  <2> QED
    BY <1>3, <2>1, FlattenSteps
<1> HIDE DEF m
<1>8. \A t \in Seq(Character) : WifiEscape(t) \in Seq(Symbol)
  BY <1>3, <1>6, FlattenSteps
<1>9. ASSUME NEW t \in Seq(Character), NEW c \in Character
      PROVE  WifiEscape(Append(t, c)) = WifiEscape(t) \o EscapedInCode(c)
  <2>1. EscapedInCode(c) \in Seq(Symbol)
    BY EscapedInCodeIs
  <2>2. FlattenSeq(Append(m(t), EscapedInCode(c))) = FlattenSeq(m(t)) \o EscapedInCode(c)
    BY <1>6, <2>1, FlattenSteps
  <2> QED
    BY <1>3, <1>5, <2>2
<1> QED
  BY <1>7, <1>8, <1>9

(* At most twice as long, and of the same bytes.                           *)
LEMMA WifiEscapeIs ==
  \A t \in Seq(Character) :
    WifiEscape(t) \in Seq(Character) /\ Len(WifiEscape(t)) <= 2 * Len(t)
<1> DEFINE T == {t \in Seq(Character) :
                   WifiEscape(t) \in Seq(Character) /\ Len(WifiEscape(t)) <= 2 * Len(t)}
<1>1. <<>> \in T
  <2> DEFINE e == <<>>
  <2>1. e \in Seq(Character) /\ Len(e) = 0
    OBVIOUS
  <2>2. WifiEscape(e) = e
    BY WifiEscapeSteps
  <2> HIDE DEF e
  <2>3. Len(e) <= 2 * Len(e)
    BY <2>1
  <2>4. e \in T
    BY <2>1, <2>2, <2>3
  <2> QED
    BY <2>4 DEF e
<1>2. ASSUME NEW t \in T, NEW c \in Character PROVE Append(t, c) \in T
  <2> DEFINE w == WifiEscape(t)
             e == EscapedInCode(c)
  <2>1. t \in Seq(Character) /\ w \in Seq(Character) /\ Len(w) <= 2 * Len(t)
        /\ Len(t) \in Nat /\ Len(w) \in Nat
    BY LenProperties
  <2>2. e \in Seq(Character) /\ Len(e) \in 1 .. 2
    BY EscapedInCodeIs
  <2>3. WifiEscape(Append(t, c)) = w \o e
    BY <2>1, WifiEscapeSteps
  <2> HIDE DEF w, e
  <2>4. w \o e \in Seq(Character) /\ Len(w \o e) = Len(w) + Len(e)
    BY <2>1, <2>2, ConcatProperties
  <2>5. Append(t, c) \in Seq(Character) /\ Len(Append(t, c)) = Len(t) + 1
    BY <2>1, AppendProperties
  <2>6. Len(w) + Len(e) <= 2 * (Len(t) + 1)
    <3> DEFINE i == Len(t)
               j == Len(w)
               k == Len(e)
    <3>1. i \in Nat /\ j \in Nat /\ k \in 1 .. 2 /\ j <= 2 * i
      BY <2>1, <2>2
    <3> HIDE DEF i, j, k
    <3>2. j + k <= 2 * (i + 1)
      BY <3>1
    <3> QED
      BY <3>2 DEF i, j, k
  <2> QED
    BY <2>3, <2>4, <2>5, <2>6
<1> HIDE DEF T
<1>3. T = Seq(Character)
  <2>1. T \in SUBSET Seq(Character)
    BY DEF T
  <2> QED
    BY <1>1, <1>2, <2>1, EverySequenceIsReached
<1> QED
  BY <1>3 DEF T

(* The code in its pieces, and joined the other way.                       *)
CodeRest(ssid, key) ==
  <<KeyT, Colon>> \o Wpa \o <<Semicolon, KeyS, Colon>> \o WifiEscape(ssid)
  \o <<Semicolon, KeyP, Colon>> \o WifiEscape(key) \o <<Semicolon, Semicolon>>

LEMMA CodeIsJoined ==
  ASSUME NEW ssid \in Seq(Character), NEW key \in Seq(Character)
  PROVE  /\ WifiCode(ssid, key) = WifiStart \o CodeRest(ssid, key)
         /\ WifiStart \in Seq(Character) /\ Len(WifiStart) = 5
         /\ CodeRest(ssid, key) \in Seq(Character)
         /\ WifiCode(ssid, key) \in Seq(Character)
         /\ Len(WifiCode(ssid, key)) = 18 + Len(WifiEscape(ssid)) + Len(WifiEscape(key))
<1> DEFINE S == Seq(Character)
           z == WifiStart
           a == <<KeyT, Colon>>
           b == Wpa
           c == <<Semicolon, KeyS, Colon>>
           d == WifiEscape(ssid)
           e == <<Semicolon, KeyP, Colon>>
           f == WifiEscape(key)
           g == <<Semicolon, Semicolon>>
<1>1. /\ KeyT \in Character /\ KeyS \in Character /\ KeyP \in Character
      /\ Colon \in Character /\ Semicolon \in Character
      /\ 87 \in Character /\ 70 \in Character /\ 73 \in Character /\ 80 \in Character /\ 65 \in Character
  BY DEF KeyT, KeyS, KeyP, Colon, Semicolon, Character
<1>2. z \in S /\ Len(z) = 5
  BY <1>1 DEF WifiStart
<1>3. a \in S /\ Len(a) = 2 /\ c \in S /\ Len(c) = 3 /\ e \in S /\ Len(e) = 3 /\ g \in S /\ Len(g) = 2
  BY <1>1
<1>4. b \in S /\ Len(b) = 3
  BY <1>1 DEF Wpa
<1>5. d \in S /\ f \in S /\ Len(d) \in Nat /\ Len(f) \in Nat
  BY WifiEscapeIs, LenProperties
<1>6. /\ WifiCode(ssid, key) = ((((((z \o a) \o b) \o c) \o d) \o e) \o f) \o g
      /\ CodeRest(ssid, key) = (((((a \o b) \o c) \o d) \o e) \o f) \o g
  BY DEF WifiCode, CodeRest
<1> HIDE DEF S, z, a, b, c, d, e, f, g
<1>7. \A s, t \in S : s \o t \in S /\ Len(s \o t) = Len(s) + Len(t)
  BY ConcatProperties DEF S
<1>8. \A s, t \in S : (z \o s) \o t = z \o (s \o t)
  <2> TAKE s, t \in S
  <2> DEFINE C == Character
  <2>1. z \in Seq(C) /\ s \in Seq(C) /\ t \in Seq(C)
    BY <1>2 DEF S
  <2> HIDE DEF C
  <2> QED
    BY ONLY <2>1, ConcatAssociative
<1> DEFINE r1 == a \o b
           r2 == r1 \o c
           r3 == r2 \o d
           r4 == r3 \o e
           r5 == r4 \o f
           r6 == r5 \o g
<1>9. r1 \in S /\ Len(r1) = 5
  <2>1. r1 \in S /\ Len(r1) = Len(a) + Len(b)
    BY <1>3, <1>4, <1>7
  <2> HIDE DEF r1
  <2> QED
    BY <1>3, <1>4, <1>7, <2>1
<1>10. (z \o a) \o b = z \o r1
  BY <1>3, <1>4, <1>8
<1> HIDE DEF r1
<1>11. r2 \in S /\ Len(r2) = 8
  <2>1. r2 \in S /\ Len(r2) = Len(r1) + Len(c)
    BY <1>3, <1>7, <1>9
  <2> HIDE DEF r2
  <2> QED
    BY <1>3, <1>7, <1>9, <2>1
<1>12. (z \o r1) \o c = z \o r2
  BY <1>3, <1>8, <1>9
<1> HIDE DEF r2
<1>13. r3 \in S /\ Len(r3) = 8 + Len(d)
  BY <1>5, <1>7, <1>11
<1>14. (z \o r2) \o d = z \o r3
  BY <1>5, <1>8, <1>11
<1> HIDE DEF r3
<1>15. r4 \in S /\ Len(r4) = 11 + Len(d)
  <2>1. r4 \in S /\ Len(r4) = Len(r3) + Len(e)
    BY <1>3, <1>5, <1>7, <1>13
  <2> HIDE DEF r4
  <2> QED
    BY <1>3, <1>5, <1>7, <1>13, <2>1
<1>16. (z \o r3) \o e = z \o r4
  BY <1>3, <1>8, <1>13
<1> HIDE DEF r4
<1>17. r5 \in S /\ Len(r5) = 11 + Len(d) + Len(f)
  BY <1>5, <1>7, <1>15
<1>18. (z \o r4) \o f = z \o r5
  BY <1>5, <1>8, <1>15
<1> HIDE DEF r5
<1>19. r6 \in S /\ Len(r6) = 13 + Len(d) + Len(f)
  <2>1. r6 \in S /\ Len(r6) = Len(r5) + Len(g)
    BY <1>3, <1>5, <1>7, <1>17
  <2> HIDE DEF r6
  <2> QED
    BY <1>3, <1>5, <1>7, <1>17, <2>1
<1>20. (z \o r5) \o g = z \o r6
  BY <1>3, <1>8, <1>17
<1>21. CodeRest(ssid, key) = r6
  BY <1>6 DEF r1, r2, r3, r4, r5
<1>22. WifiCode(ssid, key) = z \o r6
  BY <1>6, <1>10, <1>12, <1>14, <1>16, <1>18, <1>20
<1> HIDE DEF r6
<1>23. z \o r6 \in S /\ Len(z \o r6) = 18 + Len(d) + Len(f)
  <2> DEFINE r7 == z \o r6
  <2>1. r7 \in S /\ Len(r7) = Len(z) + Len(r6)
    BY <1>2, <1>7, <1>19
  <2> HIDE DEF r7
  <2>2. Len(r7) = 18 + Len(d) + Len(f)
    BY <1>2, <1>5, <1>19, <2>1
  <2> QED
    BY <2>1, <2>2 DEF r7
<1> QED
  BY <1>2, <1>19, <1>21, <1>22, <1>23 DEF S, z, d, f

(* What is meant, and the record that says it.                             *)
IsAMeaning(meaning) ==
  \/ meaning = NoMeaning
  \/ /\ meaning.page = "WIFI" /\ meaning.ssid \in Seq(Character) /\ meaning.key \in Seq(Character)
     /\ PayloadOf(meaning) = WifiCode(meaning.ssid, meaning.key)
  \/ /\ meaning.page = "GUEST" /\ meaning.address \in Seq(Character)
     /\ PayloadOf(meaning) = meaning.address

LEMMA MeaningsAre == \A meaning \in Meanings : IsAMeaning(meaning)
<1> TAKE meaning \in Meanings
<1>1. CASE meaning = [page |-> "NONE"]
  BY <1>1 DEF IsAMeaning, NoMeaning
<1>2. CASE meaning \in [page : {"WIFI"}, ssid : Seq(32 .. 126), key : Seq(32 .. 126)]
  <2>1. meaning.page = "WIFI" /\ meaning.ssid \in Seq(32 .. 126) /\ meaning.key \in Seq(32 .. 126)
    BY <1>2
  <2>2. PayloadOf(meaning) = WifiCode(meaning.ssid, meaning.key)
    BY <2>1 DEF PayloadOf
  <2> QED
    BY <2>1, <2>2 DEF IsAMeaning, Character
<1>3. CASE meaning \in [page : {"GUEST"}, address : Seq(32 .. 126)]
  <2>1. meaning.page = "GUEST" /\ meaning.address \in Seq(32 .. 126)
    BY <1>3
  <2>2. PayloadOf(meaning) = meaning.address
    BY <2>1 DEF PayloadOf
  <2> QED
    BY <2>1, <2>2 DEF IsAMeaning, Character
<1> QED
  BY <1>1, <1>2, <1>3, MeaningsAssumption

LEMMA PayloadIs ==
  ASSUME NEW meaning, IsAMeaning(meaning)
  PROVE  PayloadOf(meaning) \in Seq(Character) /\ meaning.page \in {"NONE", "WIFI", "GUEST"}
<1>1. CASE meaning = NoMeaning
  <2>1. meaning.page = "NONE"
    BY <1>1 DEF NoMeaning
  <2>2. PayloadOf(meaning) = <<>>
    BY <2>1 DEF PayloadOf
  <2>3. <<>> \in Seq(Character)
    OBVIOUS
  <2> QED
    BY <2>1, <2>2, <2>3
<1>2. CASE meaning.page = "WIFI" /\ meaning.ssid \in Seq(Character) /\ meaning.key \in Seq(Character)
           /\ PayloadOf(meaning) = WifiCode(meaning.ssid, meaning.key)
  BY <1>2, CodeIsJoined
<1>3. CASE meaning.page = "GUEST" /\ meaning.address \in Seq(Character)
           /\ PayloadOf(meaning) = meaning.address
  BY <1>3
<1> QED
  BY <1>1, <1>2, <1>3 DEF IsAMeaning

LEMMA IndexOfIs ==
  /\ IndexOf(PageValues, "NONE") = 0 /\ IndexOf(PageValues, "WIFI") = 1
  /\ IndexOf(PageValues, "GUEST") = 2 /\ IndexOf(StatusValues, "PRESENTING") = 1
<1>1. \A i \in DOMAIN PageValues : /\ PageValues[i] = "NONE" <=> i = 1
                                   /\ PageValues[i] = "WIFI" <=> i = 2
                                   /\ PageValues[i] = "GUEST" <=> i = 3
  BY DEF PageValues
<1>2. DOMAIN PageValues = 1 .. 3
  BY DEF PageValues
<1>3. \A i \in DOMAIN StatusValues : StatusValues[i] = "PRESENTING" <=> i = 2
  BY DEF StatusValues
<1>4. DOMAIN StatusValues = 1 .. 5
  BY DEF StatusValues
<1>5. (CHOOSE i \in DOMAIN PageValues : PageValues[i] = "NONE") = 1
  BY <1>1, <1>2
<1>6. (CHOOSE i \in DOMAIN PageValues : PageValues[i] = "WIFI") = 2
  BY <1>1, <1>2
<1>7. (CHOOSE i \in DOMAIN PageValues : PageValues[i] = "GUEST") = 3
  BY <1>1, <1>2
<1>8. (CHOOSE i \in DOMAIN StatusValues : StatusValues[i] = "PRESENTING") = 2
  BY <1>3, <1>4
<1> QED
  BY <1>5, <1>6, <1>7, <1>8 DEF IndexOf

Integer(n) == [integer |-> n, text |-> <<>>]
TextOf(t)  == [integer |-> 0, text |-> t]

(* What of a text is kept: all or nothing.                                 *)
KeptText(text) == IF Len(text) <= MaxTextLength THEN text ELSE <<>>

LEMMA RecordOfIs ==
  ASSUME NEW meaning, IsAMeaning(meaning)
  PROVE  LET m == RecordOf(meaning)
         IN  /\ IsAMessage(m) /\ m.verb = "DISPLAY"
             /\ m.fields[1] = Integer(1) /\ m.fields[2] = Integer(IndexOf(PageValues, meaning.page))
             /\ m.fields[3] = TextOf(KeptText(PayloadOf(meaning)))
             /\ m.fields[4] = Integer(0) /\ m.fields[5] = Integer(0)
<1> DEFINE blank == Initialised("DISPLAY")
           n == IndexOf(PageValues, meaning.page)
           paged == SetInteger(blank, 2, n)
           presenting == SetInteger(paged, 1, 1)
           text == PayloadOf(meaning)
           record == SetText(presenting, 3, text)
           fields == FieldsOf("DISPLAY")
<1>1. RecordOf(meaning) = record
  BY IndexOfIs DEF RecordOf
<1>2. n \in Int
  BY PayloadIs, IndexOfIs
<1>3. text \in Seq(Character) /\ text \in Seq(0 .. 255)
  <2>1. Character \subseteq 0 .. 255
    BY DEF Character
  <2>2. text \in Seq(Character)
    BY PayloadIs
  <2> DEFINE byte == 0 .. 255
  <2>3. Character \subseteq byte
    BY <2>1
  <2> HIDE DEF text, byte
  <2>4. text \in Seq(byte)
    BY <2>2, <2>3, SeqMonotonic
  <2> QED
    BY <2>2, <2>4 DEF byte
<1>4. /\ DOMAIN fields = 1 .. 5 /\ fields[3] = TextField("payload", MaxTextLength)
      /\ ~IsText(fields[1]) /\ ~IsText(fields[2]) /\ IsText(fields[3])
      /\ ~IsText(fields[4]) /\ ~IsText(fields[5])
  BY DisplayFieldsAre
<1>5. IsAMessage(blank) /\ blank.verb = "DISPLAY"
  BY DisplayFieldsAre, InitialisedIsAMessage
<1>6. \A i \in 1 .. 5 : blank.fields[i] = Integer(0)
  BY <1>4 DEF Initialised, Integer, FieldsOf
<1>7. TextIsValid(fields[3], text) <=> Len(text) <= MaxTextLength
  <2>1. \A i \in DOMAIN text : text[i] \in 32 .. 126
    BY <1>3, ElementOfSeq, LenProperties DEF Character
  <2>2. fields[3].maximum = MaxTextLength /\ fields[3].type = "TEXT"
    BY <1>4 DEF TextField
  <2> QED
    BY <2>1, <2>2 DEF TextIsValid
<1> HIDE DEF blank, n, text, fields
<1>8. /\ IsAMessage(paged) /\ paged.verb = "DISPLAY" /\ paged.fields[2] = Integer(n)
      /\ \A j \in 1 .. 5 : j # 2 => paged.fields[j] = Integer(0)
  <2>1. /\ IsAMessage(paged) /\ paged.verb = "DISPLAY" /\ paged.fields[2] = [integer |-> n, text |-> <<>>]
        /\ \A j \in DOMAIN FieldsOf(blank.verb) : j # 2 => paged.fields[j] = blank.fields[j]
    <3>1. 2 \in DOMAIN FieldsOf(blank.verb) /\ ~IsText(FieldsOf(blank.verb)[2])
      BY <1>4, <1>5 DEF fields
    <3> QED
      BY <1>2, <1>5, <3>1, SetIntegerKeeps
  <2> HIDE DEF paged
  <2> QED
    BY <1>4, <1>5, <1>6, <2>1 DEF Integer, fields
<1> HIDE DEF paged
<1>9. /\ IsAMessage(presenting) /\ presenting.verb = "DISPLAY" /\ presenting.fields[1] = Integer(1)
      /\ \A j \in 1 .. 5 : j # 1 => presenting.fields[j] = paged.fields[j]
  <2>1. /\ IsAMessage(presenting) /\ presenting.verb = "DISPLAY"
        /\ presenting.fields[1] = [integer |-> 1, text |-> <<>>]
        /\ \A j \in DOMAIN FieldsOf(paged.verb) : j # 1 => presenting.fields[j] = paged.fields[j]
    <3>1. 1 \in DOMAIN FieldsOf(paged.verb) /\ ~IsText(FieldsOf(paged.verb)[1]) /\ 1 \in Int
      BY <1>4, <1>8 DEF fields
    <3> DEFINE one == 1
    <3>2. one \in Int /\ one \in DOMAIN FieldsOf(paged.verb) /\ ~IsText(FieldsOf(paged.verb)[one])
      BY <3>1
    <3> HIDE DEF one
    <3>3. /\ IsAMessage(SetInteger(paged, one, one)) /\ SetInteger(paged, one, one).verb = paged.verb
          /\ SetInteger(paged, one, one).fields[one] = [integer |-> one, text |-> <<>>]
          /\ \A j \in DOMAIN FieldsOf(paged.verb) :
               j # one => SetInteger(paged, one, one).fields[j] = paged.fields[j]
      BY <1>8, <3>2, SetIntegerKeeps
    <3> QED
      BY <1>8, <3>3 DEF one
  <2> HIDE DEF presenting
  <2> QED
    BY <1>4, <1>8, <2>1 DEF Integer, fields
<1> HIDE DEF presenting
<1>10. /\ IsAMessage(record) /\ record.verb = "DISPLAY" /\ record.fields[3] = TextOf(KeptText(text))
       /\ \A j \in 1 .. 5 : j # 3 => record.fields[j] = presenting.fields[j]
  <2>1. 3 \in DOMAIN FieldsOf(presenting.verb) /\ IsText(FieldsOf(presenting.verb)[3])
        /\ FieldsOf(presenting.verb)[3] = fields[3] /\ DOMAIN FieldsOf(presenting.verb) = 1 .. 5
    BY <1>4, <1>9 DEF fields
  <2>2. /\ IsAMessage(record) /\ record.verb = presenting.verb
        /\ IsText(FieldsOf(presenting.verb)[3]) =>
             record.fields[3] = [integer |-> 0,
               text |-> IF TextIsValid(FieldsOf(presenting.verb)[3], text) THEN text ELSE <<>>]
        /\ \A j \in DOMAIN FieldsOf(presenting.verb) : j # 3 => record.fields[j] = presenting.fields[j]
    BY <1>3, <1>9, <2>1, SetTextKeeps
  <2> HIDE DEF record
  <2> QED
    BY <1>7, <1>9, <2>1, <2>2 DEF TextOf, KeptText
<1> HIDE DEF record
<1> QED
  BY <1>1, <1>8, <1>9, <1>10 DEF n, text

LEMMA RecordOfIsAMessage ==
  ASSUME NEW meaning \in Meanings
  PROVE  /\ IsAMessage(RecordOf(meaning)) /\ RecordOf(meaning).verb = "DISPLAY"
         /\ PayloadIsText(RecordOf(meaning))
<1> DEFINE text == KeptText(PayloadOf(meaning))
<1>1. IsAMeaning(meaning)
  BY MeaningsAre
<1>2. text \in Seq(Character)
  <2>1. PayloadOf(meaning) \in Seq(Character) /\ <<>> \in Seq(Character)
    BY <1>1, PayloadIs
  <2> QED
    BY <2>1 DEF KeptText
<1> HIDE DEF text
<1>3. TextOf(text).text = text
  BY DEF TextOf
<1>4. RecordOf(meaning).fields[3] = TextOf(text)
  BY <1>1, RecordOfIs DEF text
<1> QED
  BY <1>1, <1>2, <1>3, <1>4, RecordOfIs DEF PayloadIsText

-----------------------------------------------------------------------------
(* The line is of symbols and the message is one, at every step.           *)
LinesInv == line \in Seq(Symbol) /\ IsAMessage(message) /\ PayloadIsText(message)

LEMMA DamageKeeps ==
  ASSUME NEW s \in Seq(Symbol), NEW i \in DOMAIN s, NEW c \in 0 .. 255
  PROVE  /\ [s EXCEPT ![i] = c] \in Seq(Symbol) /\ InsertAt(s, i, c) \in Seq(Symbol)
         /\ RemoveAt(s, i) \in Seq(Symbol) /\ SubSeq(s, 1, i - 1) \in Seq(Symbol)
<1>1. c \in Symbol
  BY CharactersAreSymbols
<1> HIDE DEF Symbol
<1>2. i \in 1 .. Len(s) /\ Len(s) \in Nat /\ \A k \in 1 .. Len(s) : s[k] \in Symbol
  BY ElementOfSeq, LenProperties
<1>3. \A m \in 1 .. Len(s) + 1, n \in 0 .. Len(s) : SubSeq(s, m, n) \in Seq(Symbol)
  <2> TAKE m \in 1 .. Len(s) + 1, n \in 0 .. Len(s)
  <2>1. \A k \in m .. n : s[k] \in Symbol
    BY <1>2
  <2> QED
    BY <1>2, <2>1, SubSeqProperties
<1>4. SubSeq(s, 1, i - 1) \in Seq(Symbol) /\ SubSeq(s, i, Len(s)) \in Seq(Symbol)
      /\ SubSeq(s, i + 1, Len(s)) \in Seq(Symbol)
  BY <1>2, <1>3
<1>5. <<c>> \in Seq(Symbol)
  BY <1>1
<1>6. InsertAt(s, i, c) \in Seq(Symbol)
  <2> DEFINE a == SubSeq(s, 1, i - 1)
             b == SubSeq(s, i, Len(s))
             one == <<c>>
  <2>1. InsertAt(s, i, c) = a \o one \o b
    BY DEF InsertAt
  <2>2. a \in Seq(Symbol) /\ one \in Seq(Symbol) /\ b \in Seq(Symbol)
    BY <1>4, <1>5
  <2> HIDE DEF a, b, one
  <2>3. a \o one \in Seq(Symbol)
    BY <2>2
  <2>4. a \o one \o b \in Seq(Symbol)
    BY <2>2, <2>3
  <2> QED
    BY <2>1, <2>4
<1>7. RemoveAt(s, i) \in Seq(Symbol)
  <2> DEFINE a == SubSeq(s, 1, i - 1)
             b == SubSeq(s, i + 1, Len(s))
  <2>1. RemoveAt(s, i) = a \o b
    BY DEF RemoveAt
  <2>2. a \in Seq(Symbol) /\ b \in Seq(Symbol)
    BY <1>4
  <2> HIDE DEF a, b
  <2>3. a \o b \in Seq(Symbol)
    BY <2>2
  <2> QED
    BY <2>1, <2>3
<1>8. [s EXCEPT ![i] = c] \in Seq(Symbol)
  BY <1>1, ExceptSeq
<1> QED
  BY <1>4, <1>6, <1>7, <1>8

LEMMA NewRecordIsAMessage == IsAMessage(Initialised("DISPLAY")) /\ PayloadIsText(Initialised("DISPLAY"))
BY InitialisedIsAMessage, InitialisedHasAText DEF Verbs

LEMMA LinesBegin == Init => LinesInv
<1> SUFFICES ASSUME Init PROVE LinesInv
  OBVIOUS
<1>1. line = <<>> /\ message = Initialised("DISPLAY")
  BY DEF Init
<1>2. line \in Seq(Symbol)
  BY <1>1, NoTokens
<1>3. IsAMessage(message) /\ PayloadIsText(message)
  BY <1>1, NewRecordIsAMessage
<1> QED
  BY <1>2, <1>3 DEF LinesInv

LEMMA LinesStep == LinesInv /\ [Next]_vars => LinesInv'
<1> SUFFICES ASSUME LinesInv, [Next]_vars PROVE LinesInv'
  OBVIOUS
<1>1. line \in Seq(Symbol) /\ IsAMessage(message) /\ PayloadIsText(message)
  BY DEF LinesInv
<1>2. CASE Mean
  BY <1>1, <1>2, RecordOfIsAMessage DEF Mean, LinesInv
<1>3. CASE Draft
  <2>1. PICK draft \in Drafts : message' = Drafted(draft.verb, draft.values)
    BY <1>3 DEF Draft
  <2>2. IsADraft(draft.verb, draft.values)
    BY InputsAssumption DEF IsADraft, FieldsOf
  <2>3. IsAMessage(message') /\ PayloadIsText(message')
    BY <2>1, <2>2, DraftedIsAMessage
  <2> QED
    BY <1>1, <1>3, <2>3 DEF Draft, LinesInv
<1>4. CASE Send
  <2>1. Encode(message, MaxMessageLength) # <<>> /\ line' = Front(Encode(message, MaxMessageLength))
        /\ UNCHANGED message
    BY <1>4 DEF Send
  <2>2. MessageIsValid(message) /\ Encode(message, MaxMessageLength) = LineOf(message)
    BY <1>1, <2>1, EncodedIsTheLine
  <2>3. Front(LineOf(message)) \in Seq(Symbol)
    BY <1>1, <2>2, LineIsJoined
  <2> QED
    BY <1>1, <2>1, <2>2, <2>3 DEF LinesInv
<1>5. CASE Babble
  <2>1. line' \in Seq(0 .. 255 + Len(Names)) /\ UNCHANGED message
    BY <1>5, InputsAssumption DEF Babble
  <2> QED
    BY <1>1, <2>1 DEF LinesInv, Symbol
<1>6. CASE Damage
  <2>1. PICK i \in DOMAIN line :
          \/ \E c \in EditBytes : line' \in {Replaced(i, c), Inserted(i, c)}
          \/ line' \in {Lost(i), Truncated(i)}
    BY <1>6 DEF Damage
  <2>2. UNCHANGED message
    BY <1>6 DEF Damage
  <2>3. CASE \E c \in EditBytes : line' \in {Replaced(i, c), Inserted(i, c)}
    <3>1. PICK c \in EditBytes : line' \in {Replaced(i, c), Inserted(i, c)}
      BY <2>3
    <3>2. c \in 0 .. 255
      BY InputsAssumption
    <3>3. [line EXCEPT ![i] = c] \in Seq(Symbol) /\ InsertAt(line, i, c) \in Seq(Symbol)
      BY <1>1, <3>2, DamageKeeps
    <3> QED
      BY <1>1, <2>2, <3>1, <3>3 DEF LinesInv, Replaced, Inserted
  <2>4. CASE line' \in {Lost(i), Truncated(i)}
    <3>1. 0 \in 0 .. 255
      OBVIOUS
    <3>2. RemoveAt(line, i) \in Seq(Symbol) /\ SubSeq(line, 1, i - 1) \in Seq(Symbol)
      BY <1>1, <3>1, DamageKeeps
    <3> QED
      BY <1>1, <2>2, <2>4, <3>2 DEF LinesInv, Lost, Truncated
  <2> QED
    BY <2>1, <2>3, <2>4
<1>7. CASE Deliver \/ Discard
  <2>1. line' = <<>> /\ message' = Initialised("DISPLAY")
    BY <1>7 DEF Deliver, Discard
  <2> QED
    BY <2>1, NoTokens, NewRecordIsAMessage DEF LinesInv
<1>8. CASE ToggleLock \/ LoseLink \/ UNCHANGED vars
  <2>1. UNCHANGED <<line, message>>
    BY <1>8 DEF ToggleLock, LoseLink, vars
  <2> QED
    BY <1>1, <2>1 DEF LinesInv
<1> QED
  BY <1>2, <1>3, <1>4, <1>5, <1>6, <1>7, <1>8 DEF Next

LEMMA LinesInvariant == Spec => []LinesInv
<1>1. LinesInv /\ [Next]_vars => LinesInv'
  BY LinesStep
<1> QED
  BY <1>1, LinesBegin, PTL DEF Spec

(***************************************************************************)
(* Whatever line the parser accepts says one message, and a message has    *)
(* one line: what remote_protocol_parse_line lets in can be encoded again  *)
(* and comes back the same, in no more bytes and, unless a byte was        *)
(* escaped that need not be, in the same fields.  The oracle of            *)
(* fuzz_remote_protocol.c, for every line and every length of one.         *)
(***************************************************************************)
THEOREM EveryLineHasOneMeaning == Spec => []LinesHaveOneMeaning
<1>1. LinesInv => LinesHaveOneMeaning
  <2> SUFFICES ASSUME LinesInv PROVE LinesHaveOneMeaning
    OBVIOUS
  <2>1. line \in Seq(Symbol)
    BY DEF LinesInv
  <2>2. OverEscapes(line) <=> OverEscaped
    BY DEF OverEscapes, OverEscaped
  <2> DEFINE outcome == ReceiveLine(line)
             again == Encode(outcome.message, MaxMessageLength)
  <2>3. outcome.kind = "MESSAGE" =>
          /\ again # <<>> /\ ReceiveLine(Front(again)) = outcome
          /\ Width(again) <= Width(line) + 1
          /\ OverEscaped \/ ToSet(Tokens(Front(again))) = ToSet(Tokens(line))
    BY <2>1, <2>2, ReceivedIsEncoded
  <2> QED
    BY <2>3 DEF LinesHaveOneMeaning, AcceptedLinesReencode, SpellingIsKept, Again
<1> QED
  BY <1>1, LinesInvariant, PTL

-----------------------------------------------------------------------------
(* The fields in another order.                                            *)
Shifted(n, shift) == [k \in 2 .. 1 + n |-> 1 + ((k + shift) % n)]

Rearranges(n, g) ==
  /\ \A k \in 2 .. 1 + n : g[k] \in 1 .. n
  /\ \A k, j \in 2 .. 1 + n : g[k] = g[j] => k = j
  /\ \A i \in 1 .. n : \E k \in 2 .. 1 + n : g[k] = i

LEMMA ShiftingIsOneToOne ==
  ASSUME NEW n \in {1, 3, 5}, NEW shift \in 1 .. n
  PROVE  Rearranges(n, Shifted(n, shift))
<1> DEFINE r(k) == (k + shift) % n
<1>1. \A k \in 2 .. 1 + n : Shifted(n, shift)[k] = 1 + r(k)
  BY DEF Shifted
<1>2. ASSUME NEW k \in 2 .. 1 + n PROVE r(k) \in 0 .. n - 1
  <2>1. n \in Nat \ {0} /\ k + shift \in Nat
    OBVIOUS
  <2> DEFINE a == k + shift
  <2>2. a \in Nat
    BY <2>1
  <2> HIDE DEF a
  <2>3. (a % n) \in 0 .. n - 1
    BY <2>1, <2>2
  <2> QED
    BY <2>3 DEF a
<1>3. ASSUME NEW k \in 2 .. 1 + n, NEW j \in 2 .. 1 + n, r(k) = r(j) PROVE k = j
  <2>1. CASE n = 1
    BY <2>1
  <2>2. CASE n = 3
    BY <1>3, <2>2
  <2>3. CASE n = 5
    BY <1>3, <2>3
  <2> QED
    BY <2>1, <2>2, <2>3
<1>4. ASSUME NEW i \in 0 .. n - 1 PROVE \E k \in 2 .. 1 + n : r(k) = i
  <2>1. CASE n = 1
    BY <2>1
  <2>2. CASE n = 3
    BY <2>2
  <2>3. CASE n = 5
    BY <2>3
  <2> QED
    BY <2>1, <2>2, <2>3
<1> HIDE DEF r
<1>5. \A k \in 2 .. 1 + n : Shifted(n, shift)[k] \in 1 .. n
  BY <1>1, <1>2
<1>6. ASSUME NEW k \in 2 .. 1 + n, NEW j \in 2 .. 1 + n, Shifted(n, shift)[k] = Shifted(n, shift)[j]
      PROVE  k = j
  <2>1. r(k) \in Int /\ r(j) \in Int /\ 1 + r(k) = 1 + r(j)
    BY <1>1, <1>2, <1>6
  <2>2. r(k) = r(j)
    BY <2>1
  <2> QED
    BY <1>3, <2>2
<1>7. ASSUME NEW i \in 1 .. n PROVE \E k \in 2 .. 1 + n : Shifted(n, shift)[k] = i
  <2>1. i - 1 \in 0 .. n - 1
    OBVIOUS
  <2>2. PICK k \in 2 .. 1 + n : r(k) = i - 1
    BY <1>4, <2>1
  <2>3. Shifted(n, shift)[k] = i
    BY <1>1, <2>2
  <2> QED
    BY <2>3
<1> QED
  BY <1>5, <1>6, <1>7 DEF Rearranges

LEMMA RotatedIsArranged ==
  ASSUME NEW m, IsAMessage(m), MessageIsValid(m), NEW shift \in 1 .. Len(MessageTokens(m)) - 1
  PROVE  Arranged(m, Rotated(MessageTokens(m), shift), Shifted(Len(MessageTokens(m)) - 1, shift))
<1> DEFINE tokens == MessageTokens(m)
           n == Len(FieldsOf(m.verb))
           ts == Rotated(tokens, shift)
           g == Shifted(n, shift)
           S == Seq(Symbol)
<1>1. /\ tokens \in Seq(S) /\ Len(tokens) = 1 + n /\ n \in {1, 3, 5}
      /\ DOMAIN FieldsOf(m.verb) = 1 .. n /\ tokens[1] = VerbToken(m.verb)
      /\ \A k \in 2 .. 1 + n : tokens[k] = TokenOfField(m, k - 1)
  BY TokensOfAMessage
<1> HIDE DEF tokens, n, S
<1>2. n \in Nat /\ n >= 1 /\ Len(tokens) - 1 = n
  BY <1>1
<1>3. DOMAIN tokens = 1 .. 1 + n /\ \A k \in 1 .. 1 + n : tokens[k] \in S
  BY <1>1, LenProperties, ElementOfSeq
<1>4. shift \in 1 .. n
  BY <1>2 DEF tokens
<1>5. /\ \A k \in 2 .. 1 + n : g[k] \in 1 .. n
      /\ \A k, j \in 2 .. 1 + n : g[k] = g[j] => k = j
      /\ \A i \in 1 .. n : \E k \in 2 .. 1 + n : g[k] = i
  <2>1. Rearranges(n, Shifted(n, shift))
    BY <1>1, <1>4, ShiftingIsOneToOne
  <2> HIDE DEF g
  <2>2. Rearranges(n, g)
    BY <2>1 DEF g
  <2> QED
    BY <2>2 DEF Rearranges
<1>6. ts = [k \in 1 .. 1 + n |-> IF k = 1 THEN tokens[1] ELSE tokens[2 + ((k + shift) % n)]]
  BY <1>2, <1>3 DEF Rotated
<1>7. ASSUME NEW k \in 2 .. 1 + n PROVE ts[k] = TokenOfField(m, g[k])
  <2> DEFINE r == (k + shift) % n
  <2>1. g[k] = 1 + r
    BY DEF Shifted
  <2>2. r \in 0 .. n - 1
    <3>1. k + shift \in Nat
      BY <1>2
    <3> DEFINE a == k + shift
    <3> HIDE DEF a
    <3>2. (a % n) \in 0 .. n - 1
      BY <1>2, <3>1 DEF a
    <3> QED
      BY <3>2 DEF a
  <2>3. ts[k] = tokens[2 + r]
    BY <1>2, <1>6
  <2> HIDE DEF r
  <2>4. 2 + r \in 2 .. 1 + n /\ (2 + r) - 1 = 1 + r
    BY <1>2, <2>2
  <2> QED
    BY <1>1, <2>1, <2>3, <2>4
<1>8. ts[1] = tokens[1]
  BY <1>2, <1>6
<1> HIDE DEF g
<1>9. \A k \in 1 .. 1 + n : ts[k] \in S
  <2> TAKE k \in 1 .. 1 + n
  <2>1. CASE k = 1
    BY <1>3, <1>8, <2>1
  <2>2. CASE k # 1
    <3>1. k \in 2 .. 1 + n
      BY <1>2, <2>2
    <3>2. g[k] + 1 \in 2 .. 1 + n /\ (g[k] + 1) - 1 = g[k]
      BY <1>2, <1>5, <3>1
    <3>3. tokens[g[k] + 1] = TokenOfField(m, g[k])
      BY <1>1, <3>2
    <3>4. tokens[g[k] + 1] \in S
      BY <1>2, <1>3, <3>2
    <3> QED
      BY <1>7, <3>1, <3>3, <3>4
  <2> QED
    BY <2>1, <2>2
<1>10. ts \in Seq(S) /\ Len(ts) = 1 + n /\ ts # <<>>
  <2>1. ts = [k \in 1 .. 1 + n |-> ts[k]]
    BY <1>6
  <2> HIDE DEF ts
  <2>2. ts \in [1 .. 1 + n -> S]
    BY <1>9, <2>1
  <2>3. ts \in Seq(S) /\ Len(ts) = 1 + n
    BY <1>2, <2>2
  <2> QED
    BY <1>2, <2>3
<1> HIDE DEF ts
<1>11. Arranged(m, ts, g)
  BY <1>1, <1>5, <1>7, <1>8, <1>10 DEF Arranged, S
<1>12. Len(MessageTokens(m)) - 1 = n
  BY <1>2 DEF tokens
<1> QED
  BY <1>11, <1>12 DEF ts, g, tokens

(* What is sent is taken for itself, in any order of its fields.           *)
LEMMA SentIsTaken == LinesInv => EncodedLinesParse
<1> SUFFICES ASSUME LinesInv, Encode(message, MaxMessageLength) # <<>>,
                    NEW shift \in 1 .. Len(Tokens(Front(Encode(message, MaxMessageLength)))) - 1
             PROVE  ReceiveLine(JoinTokens(Rotated(
                      Tokens(Front(Encode(message, MaxMessageLength))), shift)))
                        = [kind |-> "MESSAGE", message |-> message]
  BY DEF EncodedLinesParse
<1>1. IsAMessage(message) /\ MessageIsValid(message)
      /\ Encode(message, MaxMessageLength) = LineOf(message)
  BY EncodedIsTheLine DEF LinesInv
<1>2. Tokens(Front(Encode(message, MaxMessageLength))) = MessageTokens(message)
  BY <1>1, LineOfAMessage
<1> DEFINE ts == Rotated(MessageTokens(message), shift)
           g == Shifted(Len(MessageTokens(message)) - 1, shift)
<1>3. Arranged(message, ts, g)
  BY <1>1, <1>2, RotatedIsArranged
<1> HIDE DEF ts, g
<1>4. ReceiveLine(Tail(Joined(ts))) = [kind |-> "MESSAGE", message |-> message]
  BY <1>1, <1>3, EncodedIsReceived
<1>5. JoinTokens(ts) = Tail(Joined(ts))
  BY DEF JoinTokens, Joined, Spaced
<1> QED
  BY <1>2, <1>4, <1>5 DEF ts

-----------------------------------------------------------------------------
(* What a message takes on the wire.                                       *)
LEMMA WidthOfBytes == \A s \in Seq(0 .. 255) : s \in Seq(Symbol) /\ Width(s) = Len(s)
<1> DEFINE B == 0 .. 255
           T == {s \in Seq(B) : s \in Seq(Symbol) /\ Width(s) = Len(s)}
<1>1. <<>> \in T
  <2> DEFINE e == <<>>
  <2>1. e \in Seq(B) /\ e \in Seq(Symbol) /\ Len(e) = 0 /\ Width(e) = 0
    BY NoTokens, WidthIsASum
  <2> HIDE DEF e
  <2>2. e \in T
    BY <2>1
  <2> QED
    BY <2>2 DEF e
<1>2. ASSUME NEW s \in T, NEW c \in B PROVE Append(s, c) \in T
  <2>1. c \in Symbol /\ WidthOf(c) = 1
    <3>1. c \in 0 .. 255 /\ ~(c > 255)
      OBVIOUS
    <3>2. c \in Symbol
      BY <3>1, CharactersAreSymbols
    <3> QED
      BY <3>1, <3>2 DEF WidthOf
  <2>2. s \in Seq(B) /\ s \in Seq(Symbol) /\ Width(s) = Len(s) /\ Len(s) \in Nat
    BY LenProperties
  <2> HIDE DEF B
  <2>3. Append(s, c) \in Seq(B) /\ Len(Append(s, c)) = Len(s) + 1
    BY <2>2, AppendProperties
  <2>4. Append(s, c) \in Seq(Symbol)
    BY <2>1, <2>2, AppendProperties
  <2>5. Width(Append(s, c)) = Width(s) + 1
    BY <2>1, <2>2, WidthIsASum
  <2> QED
    BY <2>2, <2>3, <2>4, <2>5
<1> HIDE DEF T
<1>3. T = Seq(B)
  <2>1. T \in SUBSET Seq(B)
    BY DEF T
  <2> HIDE DEF B
  <2> QED
    BY <1>1, <1>2, <2>1, EverySequenceIsReached
<1> QED
  BY <1>3 DEF T

LEMMA EscapesAreBytes ==
  ASSUME NEW c \in Character
  PROVE  /\ EscapedByte(c) \in Seq(Symbol)
         /\ Width(EscapedByte(c)) = IF IsUnreserved(c) THEN 1 ELSE 3
<1> DEFINE h == HexDigit(c \div 16)
           l == HexDigit(c % 16)
           one == <<c>>
           three == <<Percent, h, l>>
<1>1. /\ EscapedByte(c) \in Seq(Symbol) /\ h \in 48 .. 70 /\ l \in 48 .. 70
      /\ IsUnreserved(c) => EscapedByte(c) = one
      /\ ~IsUnreserved(c) => EscapedByte(c) = three
  BY EscapesAreSymbols
<1>2. c \in 0 .. 255 /\ h \in 0 .. 255 /\ l \in 0 .. 255 /\ Percent \in 0 .. 255
  BY <1>1 DEF Character, Percent
<1> HIDE DEF h, l
<1>3. one \in Seq(0 .. 255) /\ Len(one) = 1 /\ three \in Seq(0 .. 255) /\ Len(three) = 3
  BY <1>2
<1> HIDE DEF one, three
<1>4. Width(one) = 1 /\ Width(three) = 3
  BY <1>3, WidthOfBytes
<1> QED
  BY <1>1, <1>4

EscapedPlaces(text) == {i \in DOMAIN text : ~IsUnreserved(text[i])}

(* An escape is two bytes more than the byte.                              *)
LEMMA WidthOfAnEncodedText ==
  \A t \in Seq(Character) :
    /\ IsFiniteSet(EscapedPlaces(t)) /\ EscapedBytes(t) \in Nat
    /\ Width(PercentEncode(t)) = Len(t) + 2 * EscapedBytes(t)
<1> DEFINE good(t) == /\ IsFiniteSet(EscapedPlaces(t)) /\ Cardinality(EscapedPlaces(t)) \in Nat
                      /\ Width(PercentEncode(t)) = Len(t) + 2 * Cardinality(EscapedPlaces(t))
           T == {t \in Seq(Character) : good(t)}
<1>1. <<>> \in T
  <2> DEFINE e == <<>>
  <2>1. e \in Seq(Character) /\ Len(e) = 0 /\ EscapedPlaces(e) = {}
    BY DEF EscapedPlaces
  <2>2. PercentEncode(e) = e /\ Width(e) = 0
    BY PercentEncodeSteps, WidthIsASum
  <2> HIDE DEF e
  <2>3. IsFiniteSet(EscapedPlaces(e)) /\ Cardinality(EscapedPlaces(e)) = 0
    BY <2>1, FS_EmptySet
  <2>4. good(e)
    BY <2>1, <2>2, <2>3
  <2> HIDE DEF good
  <2>5. e \in T
    BY <2>1, <2>4
  <2> QED
    BY <2>5 DEF e
<1>2. ASSUME NEW t \in T, NEW c \in Character PROVE Append(t, c) \in T
  <2> DEFINE u == Append(t, c)
             P == EscapedPlaces(t)
             w == Width(PercentEncode(t))
             n == Len(t)
             k == Cardinality(P)
  <2>1. t \in Seq(Character) /\ IsFiniteSet(P) /\ k \in Nat /\ w = n + 2 * k /\ n \in Nat
        /\ DOMAIN t = 1 .. n
    BY LenProperties
  <2>2. u \in Seq(Character) /\ Len(u) = n + 1 /\ \A i \in 1 .. n : u[i] = t[i]
    BY <2>1, AppendProperties
  <2>3. u[n + 1] = c
    BY <2>1, AppendProperties
  <2>4. DOMAIN u = 1 .. n + 1
    BY <2>2, LenProperties
  <2>5. Width(PercentEncode(u)) = w + (IF IsUnreserved(c) THEN 1 ELSE 3)
    <3> DEFINE p == PercentEncode(t)
               e == EscapedByte(c)
    <3>1. PercentEncode(u) = p \o e /\ p \in Seq(Symbol)
      BY <2>1, PercentEncodeSteps
    <3>2. e \in Seq(Symbol) /\ Width(e) = IF IsUnreserved(c) THEN 1 ELSE 3
      BY EscapesAreBytes
    <3> HIDE DEF p, e
    <3>3. Width(p \o e) = Width(p) + Width(e)
      BY <3>1, <3>2, WidthIsASum
    <3> QED
      BY <3>1, <3>2, <3>3 DEF p
  <2> HIDE DEF u
  <2>6. CASE IsUnreserved(c)
    <3>1. EscapedPlaces(u) = P
      <4>1. \A i : i \in EscapedPlaces(u) <=> i \in P
        BY <2>1, <2>2, <2>3, <2>4, <2>6 DEF EscapedPlaces
      <4> QED
        BY <4>1
    <3>2. good(u)
      <4> HIDE DEF w, n, k, P
      <4>1. Width(PercentEncode(u)) = w + 1
        BY <2>5, <2>6
      <4>2. w + 1 = (n + 1) + 2 * k
        BY <2>1
      <4> QED
        BY <2>1, <2>2, <3>1, <4>1, <4>2 DEF k
    <3> QED
      BY <2>2, <3>2 DEF u
  <2>7. CASE ~IsUnreserved(c)
    <3>1. EscapedPlaces(u) = P \cup {n + 1} /\ n + 1 \notin P
      <4>1. \A i : i \in EscapedPlaces(u) <=> i \in P \/ i = n + 1
        BY <2>1, <2>2, <2>3, <2>4, <2>7 DEF EscapedPlaces
      <4>2. n + 1 \notin P
        BY <2>1 DEF EscapedPlaces
      <4> QED
        BY <4>1, <4>2
    <3>2. IsFiniteSet(P \cup {n + 1}) /\ Cardinality(P \cup {n + 1}) = k + 1
      <4> HIDE DEF P
      <4> QED
        BY <2>1, <3>1, FS_AddElement
    <3>3. good(u)
      <4> HIDE DEF w, n, k, P
      <4>1. Width(PercentEncode(u)) = w + 3
        BY <2>5, <2>7
      <4>2. w + 3 = (n + 1) + 2 * (k + 1) /\ k + 1 \in Nat
        BY <2>1
      <4> QED
        BY <2>2, <3>1, <3>2, <4>1, <4>2
    <3> QED
      BY <2>2, <3>3 DEF u
  <2> QED
    BY <2>6, <2>7
<1> HIDE DEF good
<1>3. T = Seq(Character)
  <2>1. T \in SUBSET Seq(Character)
    OBVIOUS
  <2> HIDE DEF T
  <2> QED
    BY <1>1, <1>2, <2>1, EverySequenceIsReached
<1>4. \A t \in Seq(Character) : good(t)
  BY <1>3
<1>5. \A t : EscapedBytes(t) = Cardinality(EscapedPlaces(t))
  BY DEF EscapedBytes, EscapedPlaces
<1> QED
  BY <1>4, <1>5 DEF good

(* The width of a message is that of its verb and its fields.              *)
FieldWidth(m, i) ==
  LET field == FieldsOf(m.verb)[i]
  IN  2 + Len(field.name) + Width(EncodeValue(field, m.fields[i]))

LEMMA FieldWidthIs ==
  ASSUME NEW m, IsAMessage(m), MessageIsValid(m), NEW i \in DOMAIN FieldsOf(m.verb)
  PROVE  Width(TokenOfField(m, i)) + 1 = FieldWidth(m, i) /\ FieldWidth(m, i) \in Nat
<1> DEFINE field == FieldsOf(m.verb)[i]
           v == EncodeValue(field, m.fields[i])
           name == field.name
<1>1. m.verb \in Verbs /\ IsAField(field) /\ IsAValue(field, m.fields[i])
  BY FieldsAre DEF IsAMessage
<1>2. ValueIsValid(field, m.fields[i])
  BY DEF MessageIsValid, FieldsOf
<1>3. name \in ToSet(Names)
  BY <1>1 DEF IsAField
<1>4. v \in Seq(Symbol)
  <2>1. v \in Seq(Glyph)
    BY <1>1, <1>2, DecodesItsEncoding
  <2> QED
    BY <2>1, GlyphsAre
<1>5. TokenOfField(m, i) = FieldToken(name, v)
  BY DEF TokenOfField
<1>6. FieldWidth(m, i) = 2 + Len(name) + Width(v)
  BY DEF FieldWidth
<1>7. Len(name) \in Nat
  <2>1. PICK j \in DOMAIN Names : Names[j] = name
    BY <1>3 DEF ToSet
  <2>2. Len(name) \in 1 .. 17
    BY <2>1, NamesAssumption
  <2> QED
    BY <2>2
<1> HIDE DEF name, v
<1>8. Width(FieldToken(name, v)) = Len(name) + 1 + Width(v) /\ Width(v) \in Nat
  BY <1>3, <1>4, TokenParts, WidthIsASum
<1> QED
  BY <1>5, <1>6, <1>7, <1>8

LEMMA WidthOfAVerb ==
  ASSUME NEW verb \in Verbs
  PROVE  Width(VerbToken(verb)) = Len(verb) /\ Len(verb) \in Nat
<1> DEFINE w == Word(verb)
<1>1. verb \in ToSet(Names)
  BY FieldsAre
<1>2. w \in Symbol /\ w > 255 /\ Names[w - 255] = verb
  BY <1>1, WordsAreSymbols
<1>3. VerbToken(verb) = <<w>>
  BY DEF VerbToken
<1> HIDE DEF w
<1>4. WidthOf(w) = Len(verb)
  BY <1>2 DEF WidthOf
<1>5. Width(<<w>>) = WidthOf(w) /\ WidthOf(w) \in Nat
  BY <1>2, WidthIsASum, WidthsAreNatural
<1> QED
  BY <1>3, <1>4, <1>5

(* Three forms, by the number of fields.                                   *)
LEMMA WidthOfAMessage ==
  ASSUME NEW m, IsAMessage(m), MessageIsValid(m)
  PROVE  LET n == Len(FieldsOf(m.verb))
             f(i) == FieldWidth(m, i)
         IN  /\ n = 1 => Width(LineOf(m)) = 1 + Len(m.verb) + f(1)
             /\ n = 3 => Width(LineOf(m)) = 1 + Len(m.verb) + f(1) + f(2) + f(3)
             /\ n = 5 => Width(LineOf(m)) = 1 + Len(m.verb) + f(1) + f(2) + f(3) + f(4) + f(5)
<1> DEFINE n == Len(FieldsOf(m.verb))
           f(i) == FieldWidth(m, i)
           ts == MessageTokens(m)
           a == PrefixWidths(ts)
           S == Seq(Symbol)
<1>1. /\ ts \in Seq(S) /\ Len(ts) = 1 + n /\ n \in {1, 3, 5} /\ DOMAIN FieldsOf(m.verb) = 1 .. n
      /\ ts[1] = VerbToken(m.verb)
      /\ \A k \in 2 .. 1 + n : ts[k] = TokenOfField(m, k - 1)
  BY TokensOfAMessage
<1>2. m.verb \in Verbs
  BY DEF IsAMessage
<1>3. Width(LineOf(m)) = Width(Joined(ts))
  BY LineOfAMessage
<1>4. \A i \in 1 .. n : Width(TokenOfField(m, i)) + 1 = f(i) /\ f(i) \in Nat
  BY <1>1, FieldWidthIs
<1>5. Width(ts[1]) = Len(m.verb) /\ Len(m.verb) \in Nat
  BY <1>1, <1>2, WidthOfAVerb
<1> HIDE DEF n, f, ts, S
<1>6. n \in Nat /\ ts # <<>>
  BY <1>1
<1>7. /\ \A c \in 1 .. Len(ts) : a[c] \in Nat
      /\ \A c \in 2 .. Len(ts) : a[c] = a[c - 1] + (1 + Width(ts[c])) /\ Width(ts[c]) \in Nat
      /\ a[1] = 1 + Width(ts[1]) /\ a[Len(ts)] = Width(Joined(ts))
  <2>1. ts \in Seq(Seq(Symbol))
    BY <1>1 DEF S
  <2> QED
    BY <1>6, <2>1, WidthsOfPrefixes
<1> HIDE DEF a
<1>8. a[1] = 1 + Len(m.verb)
  BY <1>5, <1>7
<1>9. ASSUME NEW c \in 2 .. 1 + n PROVE a[c] = a[c - 1] + f(c - 1) /\ f(c - 1) \in Nat /\ a[c - 1] \in Nat
  <2>1. c \in 2 .. Len(ts) /\ c - 1 \in 1 .. n /\ c - 1 \in 1 .. Len(ts)
    BY <1>1, <1>6
  <2>2. a[c] = a[c - 1] + (1 + Width(ts[c])) /\ Width(ts[c]) \in Nat /\ a[c - 1] \in Nat
    BY <1>7, <2>1
  <2>3. ts[c] = TokenOfField(m, c - 1)
    BY <1>1
  <2>4. Width(ts[c]) + 1 = f(c - 1) /\ f(c - 1) \in Nat
    BY <1>4, <2>1, <2>3
  <2> QED
    BY <2>2, <2>4
<1>10. Width(LineOf(m)) = a[1 + n]
  BY <1>1, <1>3, <1>7
<1>11. ASSUME n >= 1 PROVE a[2] = a[1] + f(1) /\ f(1) \in Nat /\ a[1] \in Nat
  <2>1. 2 \in 2 .. 1 + n /\ 2 - 1 = 1
    BY <1>6, <1>11
  <2> QED
    BY <1>9, <2>1
<1>12. ASSUME n >= 3 PROVE /\ a[3] = a[2] + f(2) /\ f(2) \in Nat /\ a[2] \in Nat
                           /\ a[4] = a[3] + f(3) /\ f(3) \in Nat /\ a[3] \in Nat
  <2>1. 3 \in 2 .. 1 + n /\ 3 - 1 = 2 /\ 4 \in 2 .. 1 + n /\ 4 - 1 = 3
    BY <1>6, <1>12
  <2> QED
    BY <1>9, <2>1
<1>13. ASSUME n >= 5 PROVE /\ a[5] = a[4] + f(4) /\ f(4) \in Nat /\ a[4] \in Nat
                           /\ a[6] = a[5] + f(5) /\ f(5) \in Nat /\ a[5] \in Nat
  <2>1. 5 \in 2 .. 1 + n /\ 5 - 1 = 4 /\ 6 \in 2 .. 1 + n /\ 6 - 1 = 5
    BY <1>6, <1>13
  <2> QED
    BY <1>9, <2>1
<1>14. n = 1 => Width(LineOf(m)) = 1 + Len(m.verb) + f(1)
  BY <1>5, <1>8, <1>10, <1>11
<1>15. ASSUME n = 3 PROVE Width(LineOf(m)) = 1 + Len(m.verb) + f(1) + f(2) + f(3)
  <2>1. n >= 1 /\ n >= 3 /\ 1 + n = 4
    BY <1>15
  <2>2. a[4] = 1 + Len(m.verb) + f(1) + f(2) + f(3)
    BY <1>5, <1>8, <1>11, <1>12, <2>1
  <2>3. Width(LineOf(m)) = a[4]
    BY <1>10, <2>1
  <2> QED
    BY <2>2, <2>3
<1>16. ASSUME n = 5 PROVE Width(LineOf(m)) = 1 + Len(m.verb) + f(1) + f(2) + f(3) + f(4) + f(5)
  <2>1. n >= 1 /\ n >= 3 /\ n >= 5 /\ 1 + n = 6
    BY <1>16
  <2>2. a[4] = 1 + Len(m.verb) + f(1) + f(2) + f(3)
    BY <1>5, <1>8, <1>11, <1>12, <2>1
  <2>3. a[6] = a[4] + f(4) + f(5)
    BY <1>13, <2>1
  <2>4. Width(LineOf(m)) = a[6]
    BY <1>10, <2>1
  <2> QED
    BY <2>2, <2>3, <2>4
<1> QED
  BY <1>14, <1>15, <1>16 DEF n, f

(* What a value takes on the wire.                                         *)
LEMMA WidthOfDigits ==
  ASSUME NEW v \in Nat
  PROVE  /\ Width(Digits[v]) = Len(Digits[v]) /\ Len(Digits[v]) \in Nat
         /\ v < 10 => Width(Digits[v]) = 1
<1>1. Digits[v] \in Seq(DigitChars) /\ Len(Digits[v]) \in Nat /\ (v < 10 => Len(Digits[v]) = 1)
  BY DigitsInTwo
<1> DEFINE d == Digits[v]
<1> HIDE DEF d
<1>2. d \in Seq(0 .. 255)
  <2>1. d \in Seq(DigitChars)
    BY <1>1 DEF d
  <2> DEFINE byte == 0 .. 255
  <2>2. DigitChars \subseteq byte
    BY DigitCharsAreSymbols
  <2> HIDE DEF byte
  <2>3. d \in Seq(byte)
    BY <2>1, <2>2, SeqMonotonic
  <2> QED
    BY <2>3 DEF byte
<1>3. Width(d) = Len(d)
  BY <1>2, WidthOfBytes
<1> QED
  BY <1>1, <1>3 DEF d

LEMMA WidthOfASymbol ==
  ASSUME NEW name \in ToSet(Names)
  PROVE  Width(<<Word(name)>>) = Len(name)
<1> DEFINE w == Word(name)
<1>1. w \in Symbol /\ w > 255 /\ Names[w - 255] = name
  BY WordsAreSymbols
<1> HIDE DEF w
<1>2. Width(<<w>>) = Len(name)
  <2>1. Width(<<w>>) = WidthOf(w)
    BY <1>1, WidthIsASum
  <2>2. WidthOf(w) = Len(name)
    BY <1>1 DEF WidthOf
  <2> QED
    BY <2>1, <2>2
<1> QED
  BY <1>2 DEF w

WidthOfAField(m, i) == Width(EncodeValue(FieldsOf(m.verb)[i], m.fields[i]))

IsAFieldOf(m, i, type) ==
  /\ IsAMessage(m) /\ MessageIsValid(m) /\ i \in DOMAIN FieldsOf(m.verb)
  /\ FieldsOf(m.verb)[i].type = type

LEMMA FieldsAreValid ==
  ASSUME NEW m, NEW i, NEW type, IsAFieldOf(m, i, type)
  PROVE  /\ IsAField(FieldsOf(m.verb)[i]) /\ IsAValue(FieldsOf(m.verb)[i], m.fields[i])
         /\ ValueIsValid(FieldsOf(m.verb)[i], m.fields[i])
<1>1. m.verb \in Verbs /\ IsAMessage(m) /\ MessageIsValid(m) /\ i \in DOMAIN FieldsOf(m.verb)
  BY DEF IsAFieldOf, IsAMessage
<1>2. IsAField(FieldsOf(m.verb)[i])
  BY <1>1, FieldsAre
<1>3. IsAValue(FieldsOf(m.verb)[i], m.fields[i])
  BY <1>1 DEF IsAMessage
<1>4. ValueIsValid(FieldsOf(m.verb)[i], m.fields[i])
  BY <1>1 DEF MessageIsValid, FieldsOf
<1> QED
  BY <1>2, <1>3, <1>4

LEMMA WidthOfANumber ==
  ASSUME NEW m, NEW i, IsAFieldOf(m, i, "INTEGER")
  PROVE  LET n == m.fields[i].integer
         IN  /\ n \in Nat /\ n <= FieldsOf(m.verb)[i].maximum
             /\ WidthOfAField(m, i) = Len(Digits[n]) /\ Len(Digits[n]) \in Nat
<1> DEFINE field == FieldsOf(m.verb)[i]
           value == m.fields[i]
<1>1. field.type = "INTEGER"
  BY DEF IsAFieldOf
<1>2. IsAField(field) /\ IsAValue(field, value) /\ ValueIsValid(field, value)
  BY FieldsAreValid
<1> HIDE DEF field, value
<1>3. field.minimum \in Nat /\ field.maximum \in 0 .. UintMax
  BY <1>1, <1>2 DEF IsAField
<1>4. value.integer \in field.minimum .. field.maximum
  BY <1>1, <1>2 DEF ValueIsValid, IsText, IntegerIsValid
<1>5. EncodeValue(field, value) = Digits[value.integer]
  BY <1>1 DEF EncodeValue
<1>6. value.integer \in Nat /\ value.integer <= field.maximum
  <2>1. UintMax \in Nat
    BY CodecAssumption
  <2> QED
    BY <1>3, <1>4, <2>1
<1>7. Width(EncodeValue(field, value)) = Len(Digits[value.integer]) /\ Len(Digits[value.integer]) \in Nat
  BY <1>5, <1>6, WidthOfDigits
<1> QED
  BY <1>6, <1>7 DEF WidthOfAField, field, value

LEMMA WidthOfABoolean ==
  ASSUME NEW m, NEW i, IsAFieldOf(m, i, "BOOLEAN")
  PROVE  WidthOfAField(m, i) = 1
<1> DEFINE field == FieldsOf(m.verb)[i]
           value == m.fields[i]
<1>1. field.type = "BOOLEAN"
  BY DEF IsAFieldOf
<1>2. IsAField(field) /\ IsAValue(field, value) /\ ValueIsValid(field, value)
  BY FieldsAreValid
<1> HIDE DEF field, value
<1>3. value.integer \in 0 .. 1
  BY <1>1, <1>2 DEF ValueIsValid, IsText, IntegerIsValid
<1>4. EncodeValue(field, value) = Digits[value.integer]
  BY <1>1 DEF EncodeValue
<1>5. value.integer \in Nat /\ value.integer < 10
  BY <1>3
<1>6. Width(EncodeValue(field, value)) = 1
  BY <1>4, <1>5, WidthOfDigits
<1> QED
  BY <1>6 DEF WidthOfAField, field, value

LEMMA WidthOfAnEnumeration ==
  ASSUME NEW m, NEW i, IsAFieldOf(m, i, "ENUMERATION")
  PROVE  \E k \in DOMAIN FieldsOf(m.verb)[i].values :
           WidthOfAField(m, i) = Len(FieldsOf(m.verb)[i].values[k])
<1> DEFINE field == FieldsOf(m.verb)[i]
           value == m.fields[i]
           k == value.integer + 1
<1>1. field.type = "ENUMERATION"
  BY DEF IsAFieldOf
<1>2. IsAField(field) /\ IsAValue(field, value) /\ ValueIsValid(field, value)
  BY FieldsAreValid
<1> HIDE DEF field, value
<1>3. field.values \in Seq(ToSet(Names))
  BY <1>1, <1>2 DEF IsAField, IsAnEnumeration
<1>4. value.integer \in 0 .. Len(field.values) - 1
  BY <1>1, <1>2 DEF ValueIsValid, IsText, IntegerIsValid
<1>5. EncodeValue(field, value) = <<Word(field.values[k])>>
  BY <1>1 DEF EncodeValue
<1>6. DOMAIN field.values = 1 .. Len(field.values) /\ Len(field.values) \in Nat
  BY <1>3, LenProperties
<1>7. k \in 1 .. Len(field.values)
  BY <1>4, <1>6
<1> HIDE DEF k
<1>8. field.values[k] \in ToSet(Names)
  BY <1>3, <1>7, ElementOfSeq
<1>9. Width(EncodeValue(field, value)) = Len(field.values[k])
  BY <1>5, <1>8, WidthOfASymbol
<1> QED
  BY <1>6, <1>7, <1>9 DEF WidthOfAField, field, value

LEMMA WidthOfAToken ==
  ASSUME NEW m, NEW i, IsAFieldOf(m, i, "TOKEN")
  PROVE  /\ WidthOfAField(m, i) = Len(m.fields[i].text) /\ Len(m.fields[i].text) \in Nat
         /\ Len(m.fields[i].text) <= FieldsOf(m.verb)[i].maximum
<1> DEFINE field == FieldsOf(m.verb)[i]
           value == m.fields[i]
           text == value.text
<1>1. field.type = "TOKEN"
  BY DEF IsAFieldOf
<1>2. IsAField(field) /\ IsAValue(field, value) /\ ValueIsValid(field, value)
  BY FieldsAreValid
<1> HIDE DEF field, value
<1>3. text \in Seq(Symbol)
  BY <1>2 DEF IsAValue, FieldValue
<1>4. Len(text) <= field.maximum /\ \A j \in DOMAIN text : IsTokenCharacter(text[j])
  BY <1>1, <1>2 DEF ValueIsValid, IsText, TextIsValid
<1>5. EncodeValue(field, value) = text
  BY <1>1 DEF EncodeValue
<1> HIDE DEF text
<1>6. text \in Seq(0 .. 255) /\ Len(text) \in Nat
  <2>1. DOMAIN text = 1 .. Len(text) /\ Len(text) \in Nat /\ text \in [1 .. Len(text) -> Symbol]
    BY <1>3, LenProperties
  <2>2. \A c : IsTokenCharacter(c) => c \in 0 .. 255
    BY DEF IsTokenCharacter, LowerCase, Digit
  <2>3. \A j \in 1 .. Len(text) : text[j] \in 0 .. 255
    BY <1>4, <2>1, <2>2
  <2> DEFINE byte == 0 .. 255
             n == Len(text)
  <2>4. text \in [1 .. n -> byte]
    BY <2>1, <2>3
  <2>5. n \in Nat
    BY <2>1
  <2> HIDE DEF byte, n
  <2>6. text \in Seq(byte)
    BY <2>4, <2>5
  <2> QED
    BY <2>1, <2>6 DEF byte
<1>7. Width(text) = Len(text)
  BY <1>6, WidthOfBytes
<1> QED
  BY <1>4, <1>5, <1>6, <1>7 DEF WidthOfAField, field, value, text

LEMMA WidthOfAText ==
  ASSUME NEW m, NEW i, IsAFieldOf(m, i, "TEXT")
  PROVE  LET text == m.fields[i].text
         IN  /\ text \in Seq(Character) /\ Len(text) \in Nat /\ Len(text) <= MaxTextLength
             /\ EscapedBytes(text) \in Nat
             /\ WidthOfAField(m, i) = Len(text) + 2 * EscapedBytes(text)
<1> DEFINE field == FieldsOf(m.verb)[i]
           value == m.fields[i]
           text == value.text
<1>1. field.type = "TEXT"
  BY DEF IsAFieldOf
<1>2. IsAField(field) /\ IsAValue(field, value) /\ ValueIsValid(field, value)
  BY FieldsAreValid
<1> HIDE DEF field, value
<1>3. text \in Seq(Symbol)
  BY <1>2 DEF IsAValue, FieldValue
<1>4. Len(text) <= field.maximum /\ \A j \in DOMAIN text : text[j] \in 32 .. 126
  BY <1>1, <1>2 DEF ValueIsValid, IsText, TextIsValid
<1>5. EncodeValue(field, value) = PercentEncode(text)
  BY <1>1 DEF EncodeValue
<1>6. field.maximum = MaxTextLength
  BY <1>1, <1>2 DEF IsAField
<1> HIDE DEF text
<1>7. text \in Seq(Character) /\ Len(text) \in Nat
  <2>1. DOMAIN text = 1 .. Len(text) /\ Len(text) \in Nat /\ text \in [1 .. Len(text) -> Symbol]
    BY <1>3, LenProperties
  <2>2. \A j \in 1 .. Len(text) : text[j] \in Character
    BY <1>4, <2>1 DEF Character
  <2>3. text \in [1 .. Len(text) -> Character]
    BY <2>1, <2>2
  <2> QED
    BY <2>1, <2>3
<1>8. EscapedBytes(text) \in Nat /\ Width(PercentEncode(text)) = Len(text) + 2 * EscapedBytes(text)
  BY <1>7, WidthOfAnEncodedText
<1> QED
  BY <1>4, <1>5, <1>6, <1>7, <1>8 DEF WidthOfAField, field, value, text

(* The four verbs.                                                         *)
IsSent(m, verb) == IsAMessage(m) /\ MessageIsValid(m) /\ m.verb = verb

HasField(verb, i, field) == i \in DOMAIN FieldsOf(verb) /\ FieldsOf(verb)[i] = field

LEMMA FieldsInTheTables ==
  /\ Len(FieldsOf("HELLO")) = 3 /\ Len(FieldsOf("BUTTON")) = 3
  /\ Len(FieldsOf("STATE")) = 1 /\ Len(FieldsOf("DISPLAY")) = 5
  /\ HasField("HELLO", 1, IntegerField("version", 1, MaxProtocolVersion))
  /\ HasField("HELLO", 2, TokenField("peripheral", MaxTokenLength))
  /\ HasField("HELLO", 3, BooleanField("locked"))
  /\ HasField("BUTTON", 1, EnumerationField("event", EventValues))
  /\ HasField("BUTTON", 2, BooleanField("foregrounded"))
  /\ HasField("BUTTON", 3, BooleanField("unlocked"))
  /\ HasField("STATE", 1, BooleanField("locked"))
  /\ HasField("DISPLAY", 1, EnumerationField("status", StatusValues))
  /\ HasField("DISPLAY", 2, EnumerationField("page", PageValues))
  /\ HasField("DISPLAY", 3, TextField("payload", MaxTextLength))
  /\ HasField("DISPLAY", 4, IntegerField("delivered", 0, MaxDeliveredCount))
  /\ HasField("DISPLAY", 5, EnumerationField("error", ErrorValues))
<1> DEFINE h1 == IntegerField("version", 1, MaxProtocolVersion)
           h2 == TokenField("peripheral", MaxTokenLength)
           h3 == BooleanField("locked")
           b1 == EnumerationField("event", EventValues)
           b2 == BooleanField("foregrounded")
           b3 == BooleanField("unlocked")
           d1 == EnumerationField("status", StatusValues)
           d2 == EnumerationField("page", PageValues)
           d3 == TextField("payload", MaxTextLength)
           d4 == IntegerField("delivered", 0, MaxDeliveredCount)
           d5 == EnumerationField("error", ErrorValues)
<1>1. /\ FieldsOf("HELLO") = <<h1, h2, h3>> /\ FieldsOf("BUTTON") = <<b1, b2, b3>>
      /\ FieldsOf("STATE") = <<h3>> /\ FieldsOf("DISPLAY") = <<d1, d2, d3, d4, d5>>
  BY DescriptorsAre
<1> HIDE DEF h1, h2, h3, b1, b2, b3, d1, d2, d3, d4, d5
<1>2. /\ Len(FieldsOf("HELLO")) = 3 /\ Len(FieldsOf("BUTTON")) = 3
      /\ Len(FieldsOf("STATE")) = 1 /\ Len(FieldsOf("DISPLAY")) = 5
  BY <1>1
<1>3. HasField("HELLO", 1, h1) /\ HasField("HELLO", 2, h2) /\ HasField("HELLO", 3, h3)
  BY <1>1 DEF HasField
<1>4. HasField("BUTTON", 1, b1) /\ HasField("BUTTON", 2, b2) /\ HasField("BUTTON", 3, b3)
  BY <1>1 DEF HasField
<1>5. HasField("STATE", 1, h3)
  BY <1>1 DEF HasField
<1>6. /\ HasField("DISPLAY", 1, d1) /\ HasField("DISPLAY", 2, d2) /\ HasField("DISPLAY", 3, d3)
      /\ HasField("DISPLAY", 4, d4) /\ HasField("DISPLAY", 5, d5)
  BY <1>1 DEF HasField
<1> QED
  BY <1>2, <1>3, <1>4, <1>5, <1>6 DEF h1, h2, h3, b1, b2, b3, d1, d2, d3, d4, d5

LEMMA WidthOfAFieldSent ==
  ASSUME NEW m, NEW verb, NEW i, NEW field, IsSent(m, verb), HasField(verb, i, field)
  PROVE  /\ IsAFieldOf(m, i, field.type) /\ FieldsOf(m.verb)[i] = field
         /\ FieldWidth(m, i) = 2 + Len(field.name) + WidthOfAField(m, i)
BY DEF IsSent, HasField, IsAFieldOf, FieldWidth, WidthOfAField

LEMMA BooleanFieldWidth ==
  ASSUME NEW m, NEW verb, NEW i, NEW name, IsSent(m, verb), HasField(verb, i, BooleanField(name))
  PROVE  FieldWidth(m, i) = 2 + Len(name) + 1
<1> DEFINE field == BooleanField(name)
<1>1. field.type = "BOOLEAN" /\ field.name = name
  BY DEF BooleanField
<1> HIDE DEF field
<1>2. IsAFieldOf(m, i, field.type) /\ FieldWidth(m, i) = 2 + Len(field.name) + WidthOfAField(m, i)
  <2>1. HasField(verb, i, field)
    BY DEF field
  <2> QED
    BY <2>1, WidthOfAFieldSent
<1>3. WidthOfAField(m, i) = 1
  BY <1>1, <1>2, WidthOfABoolean
<1> QED
  BY <1>1, <1>2, <1>3

NoLonger(values, most) == \A k \in DOMAIN values : Len(values[k]) \in Nat /\ Len(values[k]) <= most

LEMMA EnumerationFieldWidth ==
  ASSUME NEW m, NEW verb, NEW i, NEW name, NEW values, NEW most \in Nat,
         IsSent(m, verb), HasField(verb, i, EnumerationField(name, values)), NoLonger(values, most)
  PROVE  \E w \in 0 .. most : FieldWidth(m, i) = 2 + Len(name) + w
<1> DEFINE field == EnumerationField(name, values)
<1>1. field.type = "ENUMERATION" /\ field.name = name /\ field.values = values
  BY DEF EnumerationField
<1> HIDE DEF field
<1>2. /\ IsAFieldOf(m, i, field.type) /\ FieldWidth(m, i) = 2 + Len(field.name) + WidthOfAField(m, i)
      /\ FieldsOf(m.verb)[i] = field
  <2>1. HasField(verb, i, field)
    BY DEF field
  <2> QED
    BY <2>1, WidthOfAFieldSent
<1>3. \E k \in DOMAIN FieldsOf(m.verb)[i].values :
        WidthOfAField(m, i) = Len(FieldsOf(m.verb)[i].values[k])
  BY <1>1, <1>2, WidthOfAnEnumeration
<1>4. PICK k \in DOMAIN values : WidthOfAField(m, i) = Len(values[k])
  BY <1>1, <1>2, <1>3
<1>5. Len(values[k]) \in 0 .. most
  BY DEF NoLonger
<1> QED
  BY <1>1, <1>2, <1>4, <1>5

LEMMA ValuesAreShort ==
  /\ NoLonger(EventValues, 12) /\ NoLonger(StatusValues, 17)
  /\ NoLonger(PageValues, 5) /\ NoLonger(ErrorValues, 11)
<1>1. \A name \in ToSet(Names) : Len(name) \in Nat
  <2> TAKE name \in ToSet(Names)
  <2>1. PICK j \in DOMAIN Names : Names[j] = name
    BY DEF ToSet
  <2>2. Len(name) \in 1 .. 17
    BY <2>1, NamesAssumption
  <2> QED
    BY <2>2
<1>2. ASSUME NEW values, IsAnEnumeration(values), NEW k \in DOMAIN values PROVE Len(values[k]) \in Nat
  <2>1. values \in Seq(ToSet(Names))
    BY <1>2 DEF IsAnEnumeration
  <2>2. values[k] \in ToSet(Names)
    BY <2>1, LenProperties, ElementOfSeq
  <2> QED
    BY <1>1, <2>2
<1>3. /\ \A k \in DOMAIN EventValues : Len(EventValues[k]) \in Nat
      /\ \A k \in DOMAIN StatusValues : Len(StatusValues[k]) \in Nat
      /\ \A k \in DOMAIN PageValues : Len(PageValues[k]) \in Nat
      /\ \A k \in DOMAIN ErrorValues : Len(ErrorValues[k]) \in Nat
  BY <1>2, EnumerationsAre
<1> QED
  BY <1>3, NamesAssumption DEF NoLonger

LEMMA NamesTake ==
  /\ Len("HELLO") = 5 /\ Len("version") = 7 /\ Len("peripheral") = 10 /\ Len("locked") = 6
  /\ Len("BUTTON") = 6 /\ Len("event") = 5 /\ Len("foregrounded") = 12 /\ Len("unlocked") = 8
  /\ Len("STATE") = 5 /\ Len("DISPLAY") = 7 /\ Len("status") = 6 /\ Len("page") = 4
  /\ Len("payload") = 7 /\ Len("delivered") = 9 /\ Len("error") = 5
<1> DEFINE a(s) == Len(s)
<1>1. /\ <<a("HELLO"), a("version"), a("peripheral"), a("locked")>> = <<5, 7, 10, 6>>
      /\ <<a("BUTTON"), a("event"), a("foregrounded"), a("unlocked")>> = <<6, 5, 12, 8>>
      /\ <<a("STATE"), a("DISPLAY")>> = <<5, 7>>
      /\ <<a("status"), a("page"), a("payload"), a("delivered"), a("error")>> = <<6, 4, 7, 9, 5>>
  BY NamesAssumption
<1> HIDE DEF a
<1>2. a("HELLO") = 5 /\ a("version") = 7 /\ a("peripheral") = 10 /\ a("locked") = 6
  BY <1>1
<1>3. a("BUTTON") = 6 /\ a("event") = 5 /\ a("foregrounded") = 12 /\ a("unlocked") = 8
  BY <1>1
<1>4. a("STATE") = 5 /\ a("DISPLAY") = 7 /\ a("status") = 6 /\ a("page") = 4
  BY <1>1
<1>5. a("payload") = 7 /\ a("delivered") = 9 /\ a("error") = 5
  BY <1>1
<1> QED
  BY <1>2, <1>3, <1>4, <1>5 DEF a

LEMMA BoundsAre ==
  /\ MaxMessageLength \in Nat /\ MaxTextLength \in Nat /\ MaxTokenLength \in Nat
  /\ MaxIntegerDigits \in Nat /\ UintMax \in Nat
  /\ MaxProtocolVersion \in Nat /\ MaxProtocolVersion <= UintMax
  /\ MaxDeliveredCount \in Nat /\ MaxDeliveredCount <= 9999
<1>1. /\ MaxMessageLength \in Nat /\ MaxTextLength \in Nat /\ MaxTokenLength \in Nat
      /\ MaxIntegerDigits \in Nat /\ UintMax \in Nat
  BY CodecAssumption
<1>2. MaxProtocolVersion \in 0 .. UintMax /\ MaxDeliveredCount \in 0 .. UintMax
  BY CodecAssumption
<1>3. MaxDeliveredCount <= 9999
  BY RoomAssumption
<1> QED
  BY <1>1, <1>2, <1>3

LEMMA StateTakes ==
  ASSUME NEW m, IsSent(m, "STATE")
  PROVE  Width(LineOf(m)) <= 15
<1>1. IsAMessage(m) /\ MessageIsValid(m) /\ m.verb = "STATE"
  BY DEF IsSent
<1>2. Width(LineOf(m)) = 1 + Len("STATE") + FieldWidth(m, 1)
  BY <1>1, FieldsInTheTables, WidthOfAMessage
<1>3. FieldWidth(m, 1) = 2 + Len("locked") + 1
  BY FieldsInTheTables, BooleanFieldWidth
<1> DEFINE w == Width(LineOf(m))
           f == FieldWidth(m, 1)
<1>4. w = 1 + 5 + f /\ f = 2 + 6 + 1
  BY <1>2, <1>3, NamesTake
<1> HIDE DEF w, f
<1>5. w <= 15
  BY <1>4
<1> QED
  BY <1>5 DEF w

LEMMA ButtonTakes ==
  ASSUME NEW m, IsSent(m, "BUTTON")
  PROVE  Width(LineOf(m)) <= 52
<1>1. IsAMessage(m) /\ MessageIsValid(m) /\ m.verb = "BUTTON"
  BY DEF IsSent
<1> DEFINE f(i) == FieldWidth(m, i)
<1>2. Width(LineOf(m)) = 1 + Len("BUTTON") + f(1) + f(2) + f(3)
  BY <1>1, FieldsInTheTables, WidthOfAMessage
<1>3. PICK w \in 0 .. 12 : f(1) = 2 + Len("event") + w
  <2>1. HasField("BUTTON", 1, EnumerationField("event", EventValues))
    BY FieldsInTheTables
  <2>2. NoLonger(EventValues, 12) /\ 12 \in Nat
    BY ValuesAreShort
  <2>3. \E w \in 0 .. 12 : FieldWidth(m, 1) = 2 + Len("event") + w
    BY <2>1, <2>2, EnumerationFieldWidth
  <2> QED
    BY <2>3
<1>4. f(2) = 2 + Len("foregrounded") + 1
  BY FieldsInTheTables, BooleanFieldWidth
<1>5. f(3) = 2 + Len("unlocked") + 1
  BY FieldsInTheTables, BooleanFieldWidth
<1> HIDE DEF f
<1>6. Width(LineOf(m)) = 1 + 6 + (2 + 5 + w) + (2 + 12 + 1) + (2 + 8 + 1)
  BY <1>2, <1>3, <1>4, <1>5, NamesTake
<1> QED
  BY <1>6

LEMMA HelloTakes ==
  ASSUME NEW m, IsSent(m, "HELLO")
  PROVE  Width(LineOf(m)) <= 36 + MaxIntegerDigits + MaxTokenLength
<1>1. IsAMessage(m) /\ MessageIsValid(m) /\ m.verb = "HELLO"
  BY DEF IsSent
<1> DEFINE f(i) == FieldWidth(m, i)
           version == IntegerField("version", 1, MaxProtocolVersion)
           peripheral == TokenField("peripheral", MaxTokenLength)
<1>2. Width(LineOf(m)) = 1 + Len("HELLO") + f(1) + f(2) + f(3)
  BY <1>1, FieldsInTheTables, WidthOfAMessage
<1>3. f(3) = 2 + Len("locked") + 1
  BY FieldsInTheTables, BooleanFieldWidth
<1>4. f(1) <= 2 + Len("version") + MaxIntegerDigits /\ f(1) \in Nat
  <2>1. version.type = "INTEGER" /\ version.name = "version" /\ version.maximum = MaxProtocolVersion
    BY DEF IntegerField
  <2>2. HasField("HELLO", 1, version)
    BY FieldsInTheTables
  <2> HIDE DEF version
  <2>3. /\ IsAFieldOf(m, 1, version.type) /\ FieldsOf(m.verb)[1] = version
        /\ FieldWidth(m, 1) = 2 + Len(version.name) + WidthOfAField(m, 1)
    BY <2>2, WidthOfAFieldSent
  <2> DEFINE n == m.fields[1].integer
  <2>4. /\ n \in Nat /\ n <= FieldsOf(m.verb)[1].maximum
        /\ WidthOfAField(m, 1) = Len(Digits[n]) /\ Len(Digits[n]) \in Nat
    BY <2>1, <2>3, WidthOfANumber
  <2> HIDE DEF n
  <2>5. n \in 0 .. UintMax /\ UintMax \in Nat
    <3>1. n \in Nat /\ n <= MaxProtocolVersion
      BY <2>1, <2>3, <2>4
    <3> QED
      BY <3>1, BoundsAre
  <2>6. Len(Digits[n]) <= Len(Digits[UintMax])
    BY <2>5, DigitsGrow
  <2>7. Len(Digits[UintMax]) <= MaxIntegerDigits /\ Len(Digits[UintMax]) \in Nat /\ MaxIntegerDigits \in Nat
    BY <2>5, DigitsAssumption, CodecAssumption, WidthOfDigits
  <2> DEFINE l == Len(Digits[n])
             u == Len(Digits[UintMax])
  <2>8. l \in Nat /\ u \in Nat /\ l <= u /\ u <= MaxIntegerDigits /\ f(1) = 2 + Len("version") + l
    BY <2>1, <2>3, <2>4, <2>6, <2>7
  <2> HIDE DEF l, u, f
  <2> QED
    BY <2>7, <2>8, NamesTake
<1>5. f(2) <= 2 + Len("peripheral") + MaxTokenLength /\ f(2) \in Nat
  <2>1. peripheral.type = "TOKEN" /\ peripheral.name = "peripheral" /\ peripheral.maximum = MaxTokenLength
    BY DEF TokenField
  <2>2. HasField("HELLO", 2, peripheral)
    BY FieldsInTheTables
  <2> HIDE DEF peripheral
  <2>3. /\ IsAFieldOf(m, 2, peripheral.type) /\ FieldsOf(m.verb)[2] = peripheral
        /\ FieldWidth(m, 2) = 2 + Len(peripheral.name) + WidthOfAField(m, 2)
    BY <2>2, WidthOfAFieldSent
  <2> DEFINE l == Len(m.fields[2].text)
  <2>4. l \in Nat /\ l <= FieldsOf(m.verb)[2].maximum /\ WidthOfAField(m, 2) = l
    BY <2>1, <2>3, WidthOfAToken
  <2>5. MaxTokenLength \in Nat
    BY CodecAssumption
  <2>6. l <= MaxTokenLength /\ f(2) = 2 + Len("peripheral") + l
    BY <2>1, <2>3, <2>4
  <2> HIDE DEF l, f
  <2> QED
    BY <2>4, <2>5, <2>6, NamesTake
<1> HIDE DEF f
<1>6. MaxTokenLength \in Nat /\ MaxIntegerDigits \in Nat
  BY BoundsAre
<1> DEFINE w == Width(LineOf(m))
<1>7. w = 1 + 5 + f(1) + f(2) + f(3) /\ f(3) = 2 + 6 + 1
  BY <1>2, <1>3, NamesTake
<1>8. f(1) <= 2 + 7 + MaxIntegerDigits /\ f(2) <= 2 + 10 + MaxTokenLength
  BY <1>4, <1>5, NamesTake
<1> DEFINE x == f(1)
           y == f(2)
           z == f(3)
<1>9. /\ w = 1 + 5 + x + y + z /\ z = 2 + 6 + 1 /\ x \in Nat /\ y \in Nat
      /\ x <= 2 + 7 + MaxIntegerDigits /\ y <= 2 + 10 + MaxTokenLength
  BY <1>4, <1>5, <1>7, <1>8
<1> HIDE DEF w, x, y, z
<1>10. w <= 36 + MaxIntegerDigits + MaxTokenLength
  BY <1>6, <1>9
<1> QED
  BY <1>10 DEF w

LEMMA DisplayTakes ==
  ASSUME NEW m, IsSent(m, "DISPLAY")
  PROVE  LET text == m.fields[3].text
         IN  /\ EscapedBytes(text) \in Nat
             /\ Width(LineOf(m)) <= 86 + MaxTextLength + 2 * EscapedBytes(text)
<1>1. IsAMessage(m) /\ MessageIsValid(m) /\ m.verb = "DISPLAY"
  BY DEF IsSent
<1> DEFINE f(i) == FieldWidth(m, i)
           payload == TextField("payload", MaxTextLength)
           delivered == IntegerField("delivered", 0, MaxDeliveredCount)
           text == m.fields[3].text
           e == EscapedBytes(text)
<1>2. Width(LineOf(m)) = 1 + Len("DISPLAY") + f(1) + f(2) + f(3) + f(4) + f(5)
  BY <1>1, FieldsInTheTables, WidthOfAMessage
<1>3. PICK w \in 0 .. 17 : f(1) = 2 + Len("status") + w
  <2>1. HasField("DISPLAY", 1, EnumerationField("status", StatusValues))
    BY FieldsInTheTables
  <2>2. NoLonger(StatusValues, 17) /\ 17 \in Nat
    BY ValuesAreShort
  <2>3. \E w \in 0 .. 17 : FieldWidth(m, 1) = 2 + Len("status") + w
    BY SMTT(30), <2>1, <2>2, EnumerationFieldWidth
  <2> QED
    BY <2>3
<1>4. PICK v \in 0 .. 5 : f(2) = 2 + Len("page") + v
  <2>1. HasField("DISPLAY", 2, EnumerationField("page", PageValues))
    BY FieldsInTheTables
  <2>2. NoLonger(PageValues, 5) /\ 5 \in Nat
    BY ValuesAreShort
  <2>3. \E v \in 0 .. 5 : FieldWidth(m, 2) = 2 + Len("page") + v
    BY <2>1, <2>2, EnumerationFieldWidth
  <2> QED
    BY <2>3
<1>5. PICK u \in 0 .. 11 : f(5) = 2 + Len("error") + u
  <2>1. HasField("DISPLAY", 5, EnumerationField("error", ErrorValues))
    BY FieldsInTheTables
  <2>2. NoLonger(ErrorValues, 11) /\ 11 \in Nat
    BY ValuesAreShort
  <2>3. \E u \in 0 .. 11 : FieldWidth(m, 5) = 2 + Len("error") + u
    BY <2>1, <2>2, EnumerationFieldWidth
  <2> QED
    BY <2>3
<1>6. e \in Nat /\ Len(text) \in Nat /\ Len(text) <= MaxTextLength
      /\ f(3) = 2 + Len("payload") + (Len(text) + 2 * e)
  <2>1. payload.type = "TEXT" /\ payload.name = "payload"
    BY DEF TextField
  <2>2. HasField("DISPLAY", 3, payload)
    BY FieldsInTheTables
  <2> HIDE DEF payload
  <2>3. /\ IsAFieldOf(m, 3, payload.type)
        /\ FieldWidth(m, 3) = 2 + Len(payload.name) + WidthOfAField(m, 3)
    BY <2>2, WidthOfAFieldSent
  <2>4. /\ Len(text) \in Nat /\ Len(text) <= MaxTextLength /\ e \in Nat
        /\ WidthOfAField(m, 3) = Len(text) + 2 * e
    BY <2>1, <2>3, WidthOfAText
  <2> HIDE DEF text, e
  <2> QED
    BY <2>1, <2>3, <2>4
<1>7. PICK l \in 0 .. 4 : f(4) = 2 + Len("delivered") + l
  <2>1. delivered.type = "INTEGER" /\ delivered.name = "delivered" /\ delivered.maximum = MaxDeliveredCount
    BY DEF IntegerField
  <2>2. HasField("DISPLAY", 4, delivered)
    BY FieldsInTheTables
  <2> HIDE DEF delivered
  <2>3. /\ IsAFieldOf(m, 4, delivered.type) /\ FieldsOf(m.verb)[4] = delivered
        /\ FieldWidth(m, 4) = 2 + Len(delivered.name) + WidthOfAField(m, 4)
    BY <2>2, WidthOfAFieldSent
  <2> DEFINE n == m.fields[4].integer
  <2>4. /\ n \in Nat /\ n <= FieldsOf(m.verb)[4].maximum
        /\ WidthOfAField(m, 4) = Len(Digits[n]) /\ Len(Digits[n]) \in Nat
    BY <2>1, <2>3, WidthOfANumber
  <2> HIDE DEF n
  <2>5. n \in Nat /\ n <= MaxDeliveredCount
    BY <2>1, <2>3, <2>4
  <2>6. n <= 9999
    BY <2>5, BoundsAre
  <2>7. Len(Digits[n]) <= 4
    BY <2>4, <2>6, SmallNumbersAreShort
  <2> DEFINE l == Len(Digits[n])
  <2>8. l \in Nat /\ l <= 4
    BY <2>4, <2>7
  <2>9. f(4) = 2 + Len("delivered") + l
    BY <2>1, <2>3, <2>4
  <2> HIDE DEF l, f
  <2>10. l \in 0 .. 4
    BY <2>8
  <2> QED
    BY <2>9, <2>10
<1> HIDE DEF f, text, e
<1> DEFINE t == Len(text)
<1>8. t \in Nat /\ t <= MaxTextLength /\ MaxTextLength \in Nat /\ e \in Nat
  BY <1>6, CodecAssumption
<1>9. f(3) = 2 + Len("payload") + (t + 2 * e)
  BY <1>6
<1> HIDE DEF t
<1>10. Width(LineOf(m)) = 1 + 7 + (2 + 6 + w) + (2 + 4 + v) + (2 + 7 + (t + 2 * e)) + (2 + 9 + l) + (2 + 5 + u)
  BY <1>2, <1>3, <1>4, <1>5, <1>7, <1>9, NamesTake
<1>11. Width(LineOf(m)) <= 86 + MaxTextLength + 2 * e
  BY <1>8, <1>10
<1> QED
  BY <1>8, <1>11 DEF text, e

(* What is not sent has too many escapes.                                  *)
LEMMA RefusedForEscapes == LinesInv => RefusalIsForEscapes
<1> SUFFICES ASSUME LinesInv, MessageIsValid(message), Encode(message, MaxMessageLength) = <<>>
             PROVE  /\ message.verb = "DISPLAY"
                    /\ 2 * EscapedBytes(message.fields[3].text) > RoomForEscapes
  BY DEF RefusalIsForEscapes
<1> DEFINE w == Width(LineOf(message))
           e == EscapedBytes(message.fields[3].text)
<1>1. IsAMessage(message) /\ message.verb \in Verbs
  BY DEF LinesInv, IsAMessage
<1>2. ~(w <= MaxMessageLength)
  BY <1>1, EncodedIsTheLine
<1>3. w \in Nat
  BY <1>1, LineIsJoined, WidthIsASum
<1>4. /\ MaxMessageLength \in Nat /\ MaxTextLength \in Nat /\ MaxTokenLength \in Nat
      /\ MaxIntegerDigits \in Nat /\ 86 + MaxTextLength <= MaxMessageLength
      /\ 36 + MaxIntegerDigits + MaxTokenLength <= MaxMessageLength
  BY CodecAssumption, RoomAssumption
<1>5. message.verb = "STATE" => w <= 15
  BY <1>1, StateTakes DEF IsSent
<1>6. message.verb = "BUTTON" => w <= 52
  BY <1>1, ButtonTakes DEF IsSent
<1>7. message.verb = "HELLO" => w <= 36 + MaxIntegerDigits + MaxTokenLength
  BY <1>1, HelloTakes DEF IsSent
<1>8. message.verb = "DISPLAY" => e \in Nat /\ w <= 86 + MaxTextLength + 2 * e
  BY <1>1, DisplayTakes DEF IsSent
<1> HIDE DEF w, e
<1>9. message.verb = "DISPLAY"
  <2>1. message.verb \in {"HELLO", "BUTTON", "STATE", "DISPLAY"}
    BY <1>1 DEF Verbs
  <2>2. ~(w <= 15) /\ ~(w <= 52) /\ ~(w <= 36 + MaxIntegerDigits + MaxTokenLength)
    BY <1>2, <1>3, <1>4
  <2> QED
    BY <1>5, <1>6, <1>7, <2>1, <2>2
<1>10. RoomForEscapes = MaxMessageLength - 86 - MaxTextLength
  BY DEF RoomForEscapes, LongestFrame
<1>11. 2 * e > RoomForEscapes
  BY <1>2, <1>3, <1>4, <1>8, <1>9, <1>10
<1> QED
  BY <1>9, <1>11 DEF e

(***************************************************************************)
(* A message within the table's bounds arrives as it was, with its fields  *)
(* in whatever order; the encoder refuses only a record whose payload      *)
(* takes more escapes than the longest frame leaves room for               *)
(* (remote_protocol_encode and remote_protocol_parse_line).                *)
(***************************************************************************)
THEOREM EveryMessageGetsThrough == Spec => []MessagesGetThrough
<1>1. LinesInv => MessagesGetThrough
  BY SentIsTaken, RefusedForEscapes DEF MessagesGetThrough
<1> QED
  BY <1>1, LinesInvariant, PTL

LEMMA ReadFromOne ==
  ASSUME NEW s \in CodeScan, NEW c \in Character
  PROVE  ReadFrom(s, <<c>>) = ReadByte(s, c)
<1> DEFINE none == <<>>
<1>1. none \in Seq(Character) /\ Append(none, c) = <<c>>
  OBVIOUS
<1>2. ReadFrom(s, none) = s
  BY ReadFromSteps
<1> HIDE DEF none
<1>3. ReadFrom(s, Append(none, c)) = ReadByte(ReadFrom(s, none), c)
  BY <1>1, ReadFromSteps
<1> QED
  BY <1>1, <1>2, <1>3

LEMMA ReadFromTwo ==
  ASSUME NEW s \in CodeScan, NEW c \in Character, NEW d \in Character
  PROVE  ReadFrom(s, <<c, d>>) = ReadByte(ReadByte(s, c), d)
<1> DEFINE one == <<c>>
<1>0. one \in Seq(Character)
  OBVIOUS
<1>1. Append(one, d) = <<c, d>>
  BY ShortAppends
<1>2. ReadFrom(s, one) = ReadByte(s, c)
  BY ReadFromOne
<1> HIDE DEF one
<1>3. ReadFrom(s, Append(one, d)) = ReadByte(ReadFrom(s, one), d)
  BY <1>0, ReadFromSteps
<1> QED
  BY <1>1, <1>2, <1>3

LEMMA ReadFromThree ==
  ASSUME NEW s \in CodeScan, NEW c \in Character, NEW d \in Character, NEW e \in Character
  PROVE  ReadFrom(s, <<c, d, e>>) = ReadByte(ReadByte(ReadByte(s, c), d), e)
<1> DEFINE two == <<c, d>>
<1>0. two \in Seq(Character)
  OBVIOUS
<1>1. Append(two, e) = <<c, d, e>>
  BY ShortAppends
<1>2. ReadFrom(s, two) = ReadByte(ReadByte(s, c), d)
  BY ReadFromTwo
<1> HIDE DEF two
<1>3. ReadFrom(s, Append(two, e)) = ReadByte(ReadFrom(s, two), e)
  BY <1>0, ReadFromSteps
<1> QED
  BY <1>1, <1>2, <1>3

(* Where the pass may stand.                                               *)
LEMMA StandsSomewhere ==
  ASSUME NEW key \in WifiKeys, NEW seen \in SUBSET WifiKeys, NEW value \in Values,
         NEW at \in {"KEY", "COLON", "VALUE", "ESCAPED", "END", "BAD"}
  PROVE  Standing(at, key, seen, value) \in CodeScan
BY DEF Standing, CodeScan

LEMMA BytesOfACode ==
  /\ Semicolon \in Character /\ Colon \in Character /\ Backslash \in Character
  /\ WifiKeys \subseteq Character /\ Semicolon \notin WifiKeys /\ Reserved \subseteq Character
  /\ Semicolon \in Reserved /\ Backslash \in Reserved /\ Semicolon # Backslash
  /\ KeyT # KeyS /\ KeyS # KeyP /\ KeyT # KeyP /\ WifiKeys = {KeyT, KeyS, KeyP}
  /\ 0 \notin WifiKeys
BY DEF Semicolon, Colon, Backslash, WifiKeys, KeyT, KeyS, KeyP, Reserved, Character

(* What is refused stays refused.                                          *)
LEMMA BadStaysBad ==
  ASSUME NEW s \in CodeScan, s.at = "BAD", NEW t \in Seq(Character)
  PROVE  ReadFrom(s, t).at = "BAD"
<1> DEFINE T == {u \in Seq(Character) : ReadFrom(s, u).at = "BAD"}
<1>1. <<>> \in T
  <2> DEFINE e == <<>>
  <2>1. e \in Seq(Character)
    OBVIOUS
  <2>2. ReadFrom(s, e) = s
    BY ReadFromSteps
  <2> HIDE DEF e
  <2>3. e \in T
    BY <2>1, <2>2
  <2> QED
    BY <2>3 DEF e
<1>2. ASSUME NEW u \in T, NEW c \in Character PROVE Append(u, c) \in T
  <2> DEFINE r == ReadFrom(s, u)
  <2>1. u \in Seq(Character) /\ r.at = "BAD" /\ r \in CodeScan
    BY ReadFromSteps
  <2>2. ReadFrom(s, Append(u, c)) = ReadByte(r, c)
    BY <2>1, ReadFromSteps
  <2>3. Append(u, c) \in Seq(Character)
    BY <2>1, AppendProperties
  <2> HIDE DEF r
  <2>4. r = Standing("BAD", r.key, r.seen, r.value)
    BY <2>1 DEF CodeScan, Standing
  <2>5. ReadByte(r, c) = Standing("BAD", r.key, r.seen, r.value)
    <3> DEFINE k == r.key
               n == r.seen
               v == r.value
    <3> HIDE DEF k, n, v
    <3>1. ReadByte(Standing("BAD", k, n, v), c) = Standing("BAD", k, n, v)
      BY ReadsNoMore
    <3> QED
      BY <2>4, <3>1 DEF k, n, v
  <2>6. ReadByte(r, c).at = "BAD"
    BY <2>1, <2>4, <2>5
  <2> QED
    BY <2>2, <2>3, <2>6
<1> HIDE DEF T
<1>3. T = Seq(Character)
  <2>1. T \in SUBSET Seq(Character)
    BY DEF T
  <2> QED
    BY <1>1, <1>2, <2>1, EverySequenceIsReached
<1> QED
  BY <1>3 DEF T

(* A byte that was escaped, if it had to be, is read as itself.            *)
LEMMA EscapedInCodeIsRead ==
  ASSUME NEW key \in WifiKeys, NEW seen \in SUBSET WifiKeys, NEW value \in Values, NEW c \in Character
  PROVE  ReadFrom(Standing("VALUE", key, seen, value), EscapedInCode(c)) = Kept(key, seen, value, c)
<1> DEFINE s == Standing("VALUE", key, seen, value)
           e == Standing("ESCAPED", key, seen, value)
<1>1. s \in CodeScan
  BY StandsSomewhere
<1>2. ReadByte(s, Backslash) = e
  BY ReadsAtAValue, BytesOfACode
<1>3. ReadByte(e, c) = Kept(key, seen, value, c)
  BY ReadsAtAnEscape
<1>4. c \notin Reserved => ReadByte(s, c) = Kept(key, seen, value, c)
  BY ReadsAtAValue, BytesOfACode
<1> HIDE DEF s, e
<1>5. CASE c \in Reserved
  <2>1. ReadFrom(s, <<Backslash, c>>) = ReadByte(ReadByte(s, Backslash), c)
    BY <1>1, BytesOfACode, ReadFromTwo
  <2> QED
    BY <1>2, <1>3, <1>5, <2>1 DEF EscapedInCode, s
<1>6. CASE c \notin Reserved
  <2>1. ReadFrom(s, <<c>>) = ReadByte(s, c)
    BY <1>1, ReadFromOne
  <2> QED
    BY <1>4, <1>6, <2>1 DEF EscapedInCode, s
<1> QED
  BY <1>5, <1>6

(* A value is read as it was before it was escaped, if there is room.      *)
TextRead(key, seen, value, t, s) ==
  IF Len(t) <= Room[key] THEN s = Standing("VALUE", key, seen, [value EXCEPT ![key] = t])
  ELSE s.at = "BAD"

LEMMA OneMoreIsRead ==
  ASSUME NEW key \in WifiKeys, NEW seen \in SUBSET WifiKeys, NEW value \in Values,
         NEW t \in Seq(Character), NEW c \in Character, NEW s \in CodeScan,
         TextRead(key, seen, value, t, s)
  PROVE  TextRead(key, seen, value, Append(t, c), ReadFrom(s, EscapedInCode(c)))
<1> DEFINE room == Room[key]
           longer == Append(t, c)
           v == [value EXCEPT ![key] = t]
           after == ReadFrom(s, EscapedInCode(c))
<1>1. room \in Nat /\ Len(t) \in Nat /\ Len(longer) = Len(t) + 1 /\ longer \in Seq(Character)
  BY RoomIs, LenProperties, AppendProperties
<1>2. v \in Values /\ v[key] = t
  BY DEF Values
<1>3. [v EXCEPT ![key] = longer] = [value EXCEPT ![key] = longer]
  BY DEF Values
<1>4. CASE Len(t) <= room
  <2>1. s = Standing("VALUE", key, seen, v)
    BY <1>4 DEF TextRead
  <2>2. after = Kept(key, seen, v, c)
    <3> HIDE DEF v
    <3>1. ReadFrom(Standing("VALUE", key, seen, v), EscapedInCode(c)) = Kept(key, seen, v, c)
      BY <1>2, EscapedInCodeIsRead
    <3> QED
      BY <2>1, <3>1
  <2>3. Kept(key, seen, v, c) =
          IF Len(t) >= room THEN Standing("BAD", key, seen, v)
          ELSE Standing("VALUE", key, seen, [value EXCEPT ![key] = longer])
    <3> DEFINE w == [value EXCEPT ![key] = longer]
    <3>1. Append(v[key], c) = longer
      BY <1>2
    <3> HIDE DEF v, longer, w
    <3>2. [v EXCEPT ![key] = Append(v[key], c)] = w
      BY <1>3, <3>1 DEF w
    <3>3. v[key] = t
      BY <1>2
    <3>4. Kept(key, seen, v, c) = IF Len(t) >= room THEN Standing("BAD", key, seen, v)
                                  ELSE Standing("VALUE", key, seen, w)
      BY <3>2, <3>3 DEF Kept
    <3> QED
      BY <3>4 DEF w
  <2>4. Standing("BAD", key, seen, v).at = "BAD"
    BY DEF Standing
  <2> HIDE DEF v, after, longer, room
  <2>5. CASE Len(t) >= room
    <3>1. ~(Len(longer) <= room) /\ after.at = "BAD"
      BY <1>1, <2>2, <2>3, <2>4, <2>5
    <3> QED
      BY <3>1 DEF TextRead, longer, room, after
  <2>6. CASE ~(Len(t) >= room)
    <3>1. Len(longer) <= room /\ after = Standing("VALUE", key, seen, [value EXCEPT ![key] = longer])
      BY <1>1, <2>2, <2>3, <2>6
    <3> QED
      BY <3>1 DEF TextRead, longer, room, after
  <2> QED
    BY <2>5, <2>6
<1>5. CASE ~(Len(t) <= room)
  <2>1. s.at = "BAD"
    BY <1>5 DEF TextRead
  <2>2. after.at = "BAD"
    BY <2>1, EscapedInCodeIs, BadStaysBad
  <2> HIDE DEF v, after, longer, room
  <2>3. ~(Len(longer) <= room)
    BY <1>1, <1>5
  <2> QED
    BY <2>2, <2>3 DEF TextRead, longer, room, after
<1> QED
  BY <1>4, <1>5

LEMMA EscapedValueIsRead ==
  ASSUME NEW key \in WifiKeys, NEW seen \in SUBSET WifiKeys, NEW value \in Values, value[key] = <<>>
  PROVE  \A t \in Seq(Character) :
           TextRead(key, seen, value, t, ReadFrom(Standing("VALUE", key, seen, value), WifiEscape(t)))
<1> DEFINE s == Standing("VALUE", key, seen, value)
           T == {t \in Seq(Character) : TextRead(key, seen, value, t, ReadFrom(s, WifiEscape(t)))}
<1>1. s \in CodeScan
  BY StandsSomewhere
<1>2. <<>> \in T
  <2> DEFINE e == <<>>
  <2>1. e \in Seq(Character) /\ Len(e) = 0 /\ value[key] = e
    OBVIOUS
  <2>2. WifiEscape(e) = e
    BY WifiEscapeSteps
  <2>3. ReadFrom(s, e) = s
    BY <1>1, ReadFromSteps
  <2> HIDE DEF e
  <2>4. [value EXCEPT ![key] = e] = value
    BY <2>1 DEF Values
  <2>5. Len(e) <= Room[key]
    BY <2>1, RoomIs
  <2>6. TextRead(key, seen, value, e, s)
    BY <2>4, <2>5 DEF TextRead
  <2>7. e \in T
    BY <2>1, <2>2, <2>3, <2>6
  <2> QED
    BY <2>7 DEF e
<1>3. ASSUME NEW t \in T, NEW c \in Character PROVE Append(t, c) \in T
  <2> DEFINE r == ReadFrom(s, WifiEscape(t))
  <2>1. t \in Seq(Character) /\ TextRead(key, seen, value, t, r)
    OBVIOUS
  <2>2. WifiEscape(t) \in Seq(Character) /\ EscapedInCode(c) \in Seq(Character)
    BY <2>1, WifiEscapeIs, EscapedInCodeIs
  <2>3. WifiEscape(Append(t, c)) = WifiEscape(t) \o EscapedInCode(c)
    BY <2>1, WifiEscapeSteps
  <2>4. ReadFrom(s, WifiEscape(t) \o EscapedInCode(c)) = ReadFrom(r, EscapedInCode(c))
    BY <1>1, <2>2, ReadFromSteps
  <2>5. r \in CodeScan
    BY <1>1, <2>2, ReadFromSteps
  <2>6. Append(t, c) \in Seq(Character)
    BY <2>1, AppendProperties
  <2> HIDE DEF r, s
  <2>7. TextRead(key, seen, value, Append(t, c), ReadFrom(r, EscapedInCode(c)))
    BY <2>1, <2>5, OneMoreIsRead
  <2> QED
    BY <2>3, <2>4, <2>6, <2>7
<1> HIDE DEF T
<1>4. T = Seq(Character)
  <2>1. T \in SUBSET Seq(Character)
    BY DEF T
  <2> QED
    BY <1>2, <1>3, <2>1, EverySequenceIsReached
<1> QED
  BY <1>4 DEF T, s

(* From one key to the next, and to the end.                               *)
LEMMA NextKeyIsRead ==
  ASSUME NEW key \in WifiKeys, NEW seen \in SUBSET WifiKeys, NEW value \in Values, NEW other \in WifiKeys
  PROVE  ReadFrom(Standing("VALUE", key, seen, value), <<Semicolon, other, Colon>>)
           = Standing("VALUE", other, seen \cup {other}, [value EXCEPT ![other] = <<>>])
<1> DEFINE s == Standing("VALUE", key, seen, value)
           r == Standing("KEY", key, seen, value)
           c == Standing("COLON", other, seen, value)
           v == Standing("VALUE", other, seen \cup {other}, [value EXCEPT ![other] = <<>>])
<1>1. s \in CodeScan
  BY StandsSomewhere
<1>2. ReadByte(s, Semicolon) = r
  BY ReadsAtAValue, BytesOfACode
<1>3. ReadByte(r, other) = c
  <2>1. other # Semicolon
    BY BytesOfACode
  <2> QED
    BY <2>1, ReadsAtAKey
<1>4. ReadByte(c, Colon) = v
  BY ReadsAtAColon
<1>5. Semicolon \in Character /\ other \in Character /\ Colon \in Character
  BY BytesOfACode
<1> HIDE DEF s, r, c, v
<1>6. ReadFrom(s, <<Semicolon, other, Colon>>) = ReadByte(ReadByte(ReadByte(s, Semicolon), other), Colon)
  BY <1>1, <1>5, ReadFromThree
<1>7. ReadFrom(s, <<Semicolon, other, Colon>>) = v
  BY <1>2, <1>3, <1>4, <1>6
<1> QED
  BY <1>7 DEF s, v

LEMMA EndIsRead ==
  ASSUME NEW key \in WifiKeys, NEW seen \in SUBSET WifiKeys, NEW value \in Values
  PROVE  ReadFrom(Standing("VALUE", key, seen, value), <<Semicolon, Semicolon>>)
           = Standing("END", key, seen, value)
<1> DEFINE s == Standing("VALUE", key, seen, value)
           r == Standing("KEY", key, seen, value)
           e == Standing("END", key, seen, value)
<1>1. s \in CodeScan
  BY StandsSomewhere
<1>2. ReadByte(s, Semicolon) = r
  BY ReadsAtAValue, BytesOfACode
<1>3. ReadByte(r, Semicolon) = e
  BY ReadsAtAKey
<1>4. Semicolon \in Character
  BY BytesOfACode
<1> HIDE DEF s, r, e
<1>5. ReadFrom(s, <<Semicolon, Semicolon>>) = ReadByte(ReadByte(s, Semicolon), Semicolon)
  BY <1>1, <1>4, ReadFromTwo
<1>6. ReadFrom(s, <<Semicolon, Semicolon>>) = e
  BY <1>2, <1>3, <1>5
<1> QED
  BY <1>6 DEF s, e

NoValues == [key \in WifiKeys |-> <<>>]

LEMMA StartIs ==
  /\ StartOfCode = Standing("KEY", 0, {}, NoValues) /\ StartOfCode \in CodeScan /\ NoValues \in Values
  /\ \A key \in WifiKeys : NoValues[key] = <<>>
<1>1. <<>> \in Seq(Character)
  OBVIOUS
<1>2. NoValues \in Values
  BY <1>1 DEF NoValues, Values
<1>3. StartOfCode = Standing("KEY", 0, {}, NoValues)
  BY DEF StartOfCode, NoValues, Standing
<1>4. \A key \in WifiKeys : NoValues[key] = <<>>
  BY DEF NoValues
<1>5. Standing("KEY", 0, {}, NoValues) \in CodeScan
  BY <1>2 DEF Standing, CodeScan
<1> QED
  BY <1>2, <1>3, <1>4, <1>5

(* The first key, whose value takes the three bytes of WPA.                *)
Typed == [NoValues EXCEPT ![KeyT] = Wpa]

LEMMA StartIsRead ==
  /\ ReadFrom(StartOfCode, <<KeyT, Colon>>) = Standing("VALUE", KeyT, {KeyT}, NoValues)
  /\ ReadFrom(Standing("VALUE", KeyT, {KeyT}, NoValues), Wpa) = Standing("VALUE", KeyT, {KeyT}, Typed)
  /\ Typed \in Values /\ Typed[KeyT] = Wpa /\ Typed[KeyS] = <<>> /\ Typed[KeyP] = <<>>
<1> DEFINE s == Standing("VALUE", KeyT, {KeyT}, NoValues)
<1>1. KeyT \in WifiKeys /\ KeyS \in WifiKeys /\ KeyP \in WifiKeys /\ KeyT \in Character
      /\ Colon \in Character /\ KeyT # Semicolon /\ KeyS # KeyT /\ KeyP # KeyT
  BY BytesOfACode
<1>2. NoValues \in Values /\ \A key \in WifiKeys : NoValues[key] = <<>>
  BY StartIs
<1>3. ReadFrom(StartOfCode, <<KeyT, Colon>>) = s
  <2> DEFINE c == Standing("COLON", KeyT, {}, NoValues)
             again == [NoValues EXCEPT ![KeyT] = <<>>]
  <2>1. ReadFrom(StartOfCode, <<KeyT, Colon>>) = ReadByte(ReadByte(StartOfCode, KeyT), Colon)
    BY <1>1, StartIs, ReadFromTwo
  <2>2. ReadByte(Standing("KEY", 0, {}, NoValues), KeyT) = c
    BY <1>1, ReadsAtAKey
  <2>3. ReadByte(c, Colon) = Standing("VALUE", KeyT, {} \cup {KeyT}, again)
    BY ReadsAtAColon
  <2>4. again = NoValues /\ {} \cup {KeyT} = {KeyT}
    BY <1>1, <1>2 DEF Values
  <2> HIDE DEF c, again
  <2> QED
    BY <2>1, <2>2, <2>3, <2>4, StartIs
<1>4. Wpa \in Seq(Character) /\ Len(Wpa) = 3 /\ WifiEscape(Wpa) = Wpa
  <2> DEFINE one == <<87>>
             two == <<87, 80>>
             three == <<87, 80, 65>>
             e == <<>>
  <2>1. 87 \in Character /\ 80 \in Character /\ 65 \in Character
    BY DEF Character
  <2>2. one \in Seq(Character)
    BY <2>1
  <2>3. two \in Seq(Character)
    BY <2>1
  <2>4. three \in Seq(Character) /\ Len(three) = 3
    BY <2>1
  <2>5. e \in Seq(Character) /\ Append(e, 87) = one
    BY <2>1
  <2>6. Append(one, 80) = two /\ Append(two, 65) = three
    BY ShortAppends
  <2>7. EscapedInCode(87) = one /\ EscapedInCode(80) = <<80>> /\ EscapedInCode(65) = <<65>>
    BY DEF EscapedInCode, Reserved, Backslash, Semicolon, Colon
  <2>8. WifiEscape(e) = e
    BY WifiEscapeSteps
  <2>9. e \o one = one /\ one \o <<80>> = two /\ two \o <<65>> = three
    <3>1. e \o one = one
      BY <2>2, ConcatEmptySeq
    <3> QED
      BY <3>1, JoinOfOnes, JoinOfThree
  <2> HIDE DEF e
  <2>10. WifiEscape(one) = one
    <3> HIDE DEF one
    <3>1. WifiEscape(Append(e, 87)) = WifiEscape(e) \o EscapedInCode(87)
      BY <2>1, <2>5, WifiEscapeSteps
    <3> QED
      BY <2>5, <2>7, <2>8, <2>9, <3>1
  <2> HIDE DEF one
  <2>11. WifiEscape(two) = two
    <3>1. WifiEscape(Append(one, 80)) = WifiEscape(one) \o EscapedInCode(80)
      BY <2>1, <2>2, WifiEscapeSteps
    <3> HIDE DEF two
    <3> QED
      BY <2>6, <2>7, <2>9, <2>10, <3>1
  <2> HIDE DEF two
  <2>12. WifiEscape(three) = three
    <3>1. WifiEscape(Append(two, 65)) = WifiEscape(two) \o EscapedInCode(65)
      BY <2>1, <2>3, WifiEscapeSteps
    <3> HIDE DEF three
    <3> QED
      BY <2>6, <2>7, <2>9, <2>11, <3>1
  <2> QED
    BY <2>4, <2>12 DEF Wpa
<1>5. Len(Wpa) <= Room[KeyT]
  <2>1. MaxSecurityTypeLength >= 3
    BY RoomAssumption
  <2> QED
    BY <1>4, <2>1, RoomIs
<1>6. ReadFrom(s, Wpa) = Standing("VALUE", KeyT, {KeyT}, Typed)
  <2>1. {KeyT} \in SUBSET WifiKeys /\ NoValues[KeyT] = <<>>
    BY <1>1, <1>2
  <2>2. TextRead(KeyT, {KeyT}, NoValues, Wpa, ReadFrom(s, WifiEscape(Wpa)))
    BY <1>1, <1>2, <1>4, <2>1, EscapedValueIsRead
  <2> HIDE DEF s
  <2> QED
    BY <1>4, <1>5, <2>2 DEF TextRead, Typed
<1>7. Typed \in Values /\ Typed[KeyT] = Wpa /\ Typed[KeyS] = <<>> /\ Typed[KeyP] = <<>>
  <2> HIDE DEF s
  <2> QED
    BY <1>1, <1>2, <1>4 DEF Typed, Values
<1> QED
  BY <1>3, <1>6, <1>7

(* The whole of a code is read as the network it was made of.              *)
CodeRead(ssid, key, scan) ==
  IF Len(ssid) <= MaxSsidLength /\ Len(key) <= MaxNetworkKeyLength
  THEN /\ scan.at = "END" /\ scan.seen = WifiKeys
       /\ scan.value[KeyT] = Wpa /\ scan.value[KeyS] = ssid /\ scan.value[KeyP] = key
  ELSE scan.at = "BAD"

LEMMA KeyIsRead ==
  ASSUME NEW seen \in SUBSET WifiKeys, NEW value \in Values, value[KeyP] = <<>>, value[KeyT] = Wpa,
         seen \cup {KeyP} = WifiKeys, Len(value[KeyS]) <= MaxSsidLength, NEW key \in Seq(Character)
  PROVE  CodeRead(value[KeyS], key,
           ReadFrom(ReadFrom(ReadFrom(Standing("VALUE", KeyS, seen, value), <<Semicolon, KeyP, Colon>>),
                             WifiEscape(key)), <<Semicolon, Semicolon>>))
<1> DEFINE s == Standing("VALUE", KeyS, seen, value)
           e == <<Semicolon, KeyP, Colon>>
           g == <<Semicolon, Semicolon>>
           s4 == Standing("VALUE", KeyP, WifiKeys, value)
           s5 == ReadFrom(s4, WifiEscape(key))
           full == [value EXCEPT ![KeyP] = key]
           last == ReadFrom(s5, g)
<1>1. KeyS \in WifiKeys /\ KeyP \in WifiKeys /\ KeyT \in WifiKeys /\ KeyP # KeyS /\ KeyP # KeyT
      /\ Semicolon \in Character
  BY BytesOfACode
<1>2. ReadFrom(s, e) = s4
  <2>1. [value EXCEPT ![KeyP] = <<>>] = value
    BY <1>1 DEF Values
  <2>2. ReadFrom(s, e) = Standing("VALUE", KeyP, seen \cup {KeyP}, [value EXCEPT ![KeyP] = <<>>])
    BY <1>1, NextKeyIsRead
  <2> HIDE DEF s, e
  <2> QED
    BY <2>1, <2>2
<1>3. TextRead(KeyP, WifiKeys, value, key, s5)
  <2>1. WifiKeys \in SUBSET WifiKeys
    OBVIOUS
  <2> QED
    BY <1>1, <2>1, EscapedValueIsRead
<1>4. s5 \in CodeScan /\ g \in Seq(Character)
  <2>1. WifiKeys \in SUBSET WifiKeys
    OBVIOUS
  <2>2. s4 \in CodeScan
    BY <1>1, <2>1, StandsSomewhere
  <2>3. WifiEscape(key) \in Seq(Character)
    BY WifiEscapeIs
  <2>4. g \in Seq(Character)
    BY <1>1
  <2> HIDE DEF s4, g
  <2>5. s5 \in CodeScan
    BY <2>2, <2>3, ReadFromSteps
  <2> QED
    BY <2>4, <2>5
<1>5. full \in Values /\ full[KeyT] = Wpa /\ full[KeyS] = value[KeyS] /\ full[KeyP] = key
  BY <1>1 DEF Values
<1>6. Room[KeyP] = MaxNetworkKeyLength
  BY RoomIs
<1>7. CASE Len(key) <= MaxNetworkKeyLength
  <2>1. s5 = Standing("VALUE", KeyP, WifiKeys, full)
    <3> HIDE DEF s4, s5
    <3> QED
      BY <1>3, <1>6, <1>7 DEF TextRead
  <2>2. ReadFrom(Standing("VALUE", KeyP, WifiKeys, full), g) = Standing("END", KeyP, WifiKeys, full)
    <3>1. WifiKeys \in SUBSET WifiKeys
      OBVIOUS
    <3> HIDE DEF full
    <3> QED
      BY <1>1, <1>5, <3>1, EndIsRead
  <2> HIDE DEF s5, g, full
  <2>3. last = Standing("END", KeyP, WifiKeys, full)
    BY <2>1, <2>2
  <2> HIDE DEF last
  <2>4. last.at = "END" /\ last.seen = WifiKeys /\ last.value = full
    BY <2>3, StandingIs
  <2>5. CodeRead(value[KeyS], key, last)
    BY <1>5, <1>7, <2>4 DEF CodeRead
  <2> HIDE DEF s4
  <2> QED
    BY <1>2, <2>5 DEF last, s5, s, e, g
<1>8. CASE ~(Len(key) <= MaxNetworkKeyLength)
  <2>1. s5.at = "BAD"
    <3> HIDE DEF s4, s5
    <3> QED
      BY <1>3, <1>6, <1>8 DEF TextRead
  <2> HIDE DEF s5, g
  <2>2. last.at = "BAD"
    BY <1>4, <2>1, BadStaysBad
  <2> HIDE DEF last
  <2>3. CodeRead(value[KeyS], key, last)
    BY <1>8, <2>2 DEF CodeRead
  <2> HIDE DEF s4
  <2> QED
    BY <1>2, <2>3 DEF last, s5, s, e, g
<1> QED
  BY <1>7, <1>8

LEMMA CodeIsRead ==
  ASSUME NEW ssid \in Seq(Character), NEW key \in Seq(Character)
  PROVE  CodeRead(ssid, key, ReadFrom(StartOfCode, CodeRest(ssid, key)))
<1> DEFINE S == Seq(Character)
           a == <<KeyT, Colon>>
           b == Wpa
           c == <<Semicolon, KeyS, Colon>>
           d == WifiEscape(ssid)
           e == <<Semicolon, KeyP, Colon>>
           f == WifiEscape(key)
           g == <<Semicolon, Semicolon>>
           R(s, t) == ReadFrom(s, t)
           r3 == ((a \o b) \o c) \o d
           r6 == ((r3 \o e) \o f) \o g
<1>1. /\ KeyT \in Character /\ KeyS \in Character /\ KeyP \in Character
      /\ Colon \in Character /\ Semicolon \in Character
      /\ KeyT \in WifiKeys /\ KeyS \in WifiKeys /\ KeyP \in WifiKeys
      /\ KeyS # KeyT /\ KeyP # KeyT /\ KeyP # KeyS /\ WifiKeys = {KeyT, KeyS, KeyP}
  BY BytesOfACode
<1>2. a \in S /\ c \in S /\ e \in S /\ g \in S
  BY <1>1
<1>3. b \in S
  <2>1. 87 \in Character /\ 80 \in Character /\ 65 \in Character
    BY DEF Character
  <2> QED
    BY <2>1 DEF Wpa
<1>4. d \in S /\ f \in S
  BY WifiEscapeIs
<1>5. CodeRest(ssid, key) = r6
  BY DEF CodeRest
<1> DEFINE s0 == StartOfCode
           s1 == Standing("VALUE", KeyT, {KeyT}, NoValues)
           s2 == Standing("VALUE", KeyT, {KeyT}, Typed)
           both == {KeyT, KeyS}
           s3 == Standing("VALUE", KeyS, both, Typed)
           s4 == R(s3, d)
<1>6. s0 \in CodeScan /\ R(s0, a) = s1 /\ R(s1, b) = s2
  BY StartIs, StartIsRead
<1>7. Typed \in Values /\ Typed[KeyT] = Wpa /\ Typed[KeyS] = <<>> /\ Typed[KeyP] = <<>>
  BY StartIsRead
<1>8. both \in SUBSET WifiKeys /\ both \cup {KeyP} = WifiKeys /\ {KeyT} \in SUBSET WifiKeys
  BY <1>1
<1>9. R(s2, c) = s3
  <2> DEFINE again == [Typed EXCEPT ![KeyS] = <<>>]
  <2>1. again = Typed
    BY <1>1, <1>7 DEF Values
  <2>2. {KeyT} \cup {KeyS} = both
    OBVIOUS
  <2>3. R(s2, c) = Standing("VALUE", KeyS, {KeyT} \cup {KeyS}, again)
    <3> DEFINE one == {KeyT}
    <3>1. one \in SUBSET WifiKeys
      BY <1>8
    <3>0. KeyT \in WifiKeys /\ KeyS \in WifiKeys
      BY <1>1
    <3>a. Typed \in Values
      BY <1>7
    <3> HIDE DEF one
    <3>2. ReadFrom(Standing("VALUE", KeyT, one, Typed), <<Semicolon, KeyS, Colon>>)
            = Standing("VALUE", KeyS, one \cup {KeyS}, [Typed EXCEPT ![KeyS] = <<>>])
      BY <3>0, <3>1, <3>a, NextKeyIsRead
    <3> QED
      BY <3>2 DEF one
  <2> HIDE DEF s2, c, again, both
  <2> QED
    BY <2>1, <2>2, <2>3
<1>10. s3 \in CodeScan
  BY <1>1, <1>7, <1>8, StandsSomewhere
<1>11. TextRead(KeyS, both, Typed, ssid, s4)
  <2> HIDE DEF both
  <2> QED
    BY <1>1, <1>7, <1>8, EscapedValueIsRead
<1>12. CASE Len(ssid) <= MaxSsidLength => CodeRead(ssid, key, R(R(R(s4, e), f), g))
  <2> HIDE DEF a, b, c, d, e, f, g, s0, s1, s2, s3, s4
  <2>1. \A s \in CodeScan : \A x \in S : \A y \in S : R(s, x \o y) = R(R(s, x), y)
    BY ReadFromSteps
  <2>2. \A s \in CodeScan : \A x \in S : R(s, x) \in CodeScan
    BY ReadFromSteps
  <2>3. \A x \in S : \A y \in S : x \o y \in S
    BY ConcatProperties
  <2> HIDE DEF S, R
  <2> DEFINE r1 == a \o b
             r2 == r1 \o c
  <2>a. r1 \in S /\ R(s0, r1) = s2
    BY <1>2, <1>3, <1>6, <2>1, <2>3
  <2> HIDE DEF r1
  <2>b. r2 \in S /\ R(s0, r2) = s3
    BY <1>2, <1>6, <1>9, <2>1, <2>3, <2>a
  <2> HIDE DEF r2
  <2>c. r2 \o d \in S /\ R(s0, r2 \o d) = R(s3, d)
    BY <1>4, <1>6, <2>1, <2>3, <2>b
  <2>4. r3 \in S /\ R(s0, r3) = R(s3, d)
    BY <2>c DEF r1, r2
  <2> HIDE DEF r3
  <2>5. R(s0, r6) = R(R(R(R(s3, d), e), f), g)
    BY <1>2, <1>4, <1>6, <2>1, <2>2, <2>3, <2>4
  <2>6. R(s3, d) = s4
    BY DEF s4
  <2>7. R(s0, r6) = R(R(R(s4, e), f), g)
    BY <2>5, <2>6
  <2> HIDE DEF r6
  <2>8. CASE Len(ssid) <= MaxSsidLength
    BY <1>5, <1>12, <2>7, <2>8 DEF R, s0
  <2>9. CASE ~(Len(ssid) <= MaxSsidLength)
    <3>1. Room[KeyS] = MaxSsidLength
      BY RoomIs
    <3>2. s4.at = "BAD"
      BY <1>11, <2>9, <3>1 DEF TextRead
    <3>3. s4 \in CodeScan
      BY <1>4, <1>10, <2>2, <2>6
    <3>4. \A s \in CodeScan : \A x \in S : s.at = "BAD" => R(s, x).at = "BAD"
      BY BadStaysBad DEF R, S
    <3>5. R(R(R(s4, e), f), g).at = "BAD"
      BY <1>2, <1>4, <2>2, <3>2, <3>3, <3>4
    <3>6. ReadFrom(StartOfCode, CodeRest(ssid, key)).at = "BAD"
      BY <1>5, <2>7, <3>5 DEF R, s0
    <3> QED
      BY <2>9, <3>6 DEF CodeRead
  <2> QED
    BY <2>8, <2>9
<1>13. Len(ssid) <= MaxSsidLength => CodeRead(ssid, key, R(R(R(s4, e), f), g))
  <2> SUFFICES ASSUME Len(ssid) <= MaxSsidLength PROVE CodeRead(ssid, key, R(R(R(s4, e), f), g))
    OBVIOUS
  <2> DEFINE named == [Typed EXCEPT ![KeyS] = ssid]
  <2>1. named \in Values /\ named[KeyT] = Wpa /\ named[KeyS] = ssid /\ named[KeyP] = <<>>
    BY <1>1, <1>7 DEF Values
  <2>2. s4 = Standing("VALUE", KeyS, both, named)
    <3>1. Room[KeyS] = MaxSsidLength
      BY RoomIs
    <3> HIDE DEF s4, both
    <3> QED
      BY <1>11, <3>1 DEF TextRead
  <2> HIDE DEF s4, named, both
  <2>3. CodeRead(named[KeyS], key,
          ReadFrom(ReadFrom(ReadFrom(Standing("VALUE", KeyS, both, named), <<Semicolon, KeyP, Colon>>),
                            WifiEscape(key)), <<Semicolon, Semicolon>>))
    <3>1. Len(named[KeyS]) <= MaxSsidLength
      BY <2>1
    <3> QED
      BY <1>8, <2>1, <3>1, KeyIsRead
  <2> QED
    BY <2>1, <2>2, <2>3
<1> QED
  BY <1>12, <1>13

-----------------------------------------------------------------------------
(* A sequence that stands in another, from a place on.                     *)
Sits(s, at, t) == at + Len(t) - 1 <= Len(s) /\ \A k \in 1 .. Len(t) : s[at - 1 + k] = t[k]

LEMMA SitsIs ==
  ASSUME NEW S, NEW s \in Seq(S), NEW t \in Seq(S), NEW at \in Nat \ {0}, Sits(s, at, t)
  PROVE  SubSeq(s, at, at - 1 + Len(t)) = t
<1> DEFINE n == at - 1 + Len(t)
           sub == SubSeq(s, at, n)
<1>1. Len(s) \in Nat /\ Len(t) \in Nat /\ at \in Int /\ n \in Int /\ n <= Len(s) /\ n - at + 1 = Len(t)
  BY LenProperties DEF Sits
<1>2. \A i \in at .. n : s[i] \in S
  BY <1>1, ElementOfSeq
<1>3. sub \in Seq(S) /\ Len(sub) = (IF at <= n THEN n - at + 1 ELSE 0)
      /\ \A i \in 1 .. n - at + 1 : sub[i] = s[at + i - 1]
  <2> HIDE DEF n
  <2> QED
    BY <1>1, <1>2, SubSeqProperties
<1> HIDE DEF sub
<1>4. Len(sub) = Len(t)
  BY <1>1, <1>3
<1>5. ASSUME NEW i \in 1 .. Len(t) PROVE sub[i] = t[i]
  <2>1. at + i - 1 = at - 1 + i
    BY <1>1
  <2>2. s[at - 1 + i] = t[i]
    BY DEF Sits
  <2>3. i \in 1 .. n - at + 1
    BY <1>1
  <2>4. sub[i] = s[at + i - 1]
    BY <1>3, <2>3
  <2> QED
    BY <2>1, <2>2, <2>4
<1>6. sub = t
  BY <1>3, <1>4, <1>5, SeqEqual
<1> QED
  BY <1>6 DEF sub

LEMMA SitsInAJoin ==
  ASSUME NEW S, NEW s \in Seq(S), NEW t \in Seq(S)
  PROVE  /\ Sits(s \o t, 1, s) /\ Sits(s \o t, Len(s) + 1, t)
         /\ \A at \in Nat \ {0} : \A u \in Seq(S) : Sits(s, at, u) => Sits(s \o t, at, u)
<1> DEFINE j == s \o t
<1>1. /\ j \in Seq(S) /\ Len(j) = Len(s) + Len(t)
      /\ \A k \in 1 .. Len(s) + Len(t) : j[k] = IF k <= Len(s) THEN s[k] ELSE t[k - Len(s)]
  BY ConcatProperties
<1>2. Len(s) \in Nat /\ Len(t) \in Nat
  BY LenProperties
<1> HIDE DEF j
<1>3. Sits(j, 1, s)
  <2>1. 1 + Len(s) - 1 <= Len(j)
    BY <1>1, <1>2
  <2>2. \A k \in 1 .. Len(s) : j[1 - 1 + k] = s[k]
    BY <1>1, <1>2
  <2> QED
    BY <2>1, <2>2 DEF Sits
<1>4. Sits(j, Len(s) + 1, t)
  <2>1. Len(s) + 1 + Len(t) - 1 <= Len(j)
    BY <1>1, <1>2
  <2>2. ASSUME NEW k \in 1 .. Len(t) PROVE j[Len(s) + 1 - 1 + k] = t[k]
    <3>1. Len(s) + 1 - 1 + k = Len(s) + k /\ Len(s) + k \in 1 .. Len(s) + Len(t)
          /\ ~(Len(s) + k <= Len(s)) /\ (Len(s) + k) - Len(s) = k
      BY <1>2
    <3> QED
      BY <1>1, <3>1
  <2> QED
    BY <2>1, <2>2 DEF Sits
<1>5. ASSUME NEW at \in Nat \ {0}, NEW u \in Seq(S), Sits(s, at, u) PROVE Sits(j, at, u)
  <2>1. Len(u) \in Nat /\ at + Len(u) - 1 <= Len(s)
    BY <1>5, LenProperties DEF Sits
  <2>2. at + Len(u) - 1 <= Len(j)
    BY <1>1, <1>2, <2>1
  <2>3. ASSUME NEW k \in 1 .. Len(u) PROVE j[at - 1 + k] = u[k]
    <3>1. at - 1 + k \in 1 .. Len(s) + Len(t) /\ at - 1 + k <= Len(s)
      BY <1>2, <2>1
    <3>2. s[at - 1 + k] = u[k]
      BY <1>5 DEF Sits
    <3> QED
      BY <1>1, <3>1, <3>2
  <2> QED
    BY <2>2, <2>3 DEF Sits
<1> QED
  BY <1>3, <1>4, <1>5 DEF j

LEMMA PrefixOfAJoin ==
  ASSUME NEW S, NEW s \in Seq(S), NEW t \in Seq(S)
  PROVE  IsPrefix(s, s \o t) /\ SubSeq(s \o t, Len(s) + 1, Len(s \o t)) = t
<1> DEFINE j == s \o t
<1>1. j \in Seq(S) /\ Len(j) = Len(s) + Len(t) /\ Len(s) \in Nat /\ Len(t) \in Nat
  BY ConcatProperties, LenProperties
<1>2. Sits(j, 1, s) /\ Sits(j, Len(s) + 1, t) /\ Sits(s, 1, s)
  <2>1. Sits(j, 1, s) /\ Sits(j, Len(s) + 1, t)
    BY SitsInAJoin
  <2>2. Sits(s, 1, s)
    <3>1. 1 + Len(s) - 1 <= Len(s)
      BY <1>1
    <3>2. \A k \in 1 .. Len(s) : s[1 - 1 + k] = s[k]
      BY <1>1
    <3> QED
      BY <3>1, <3>2 DEF Sits
  <2> QED
    BY <2>1, <2>2
<1> DEFINE first == 1
           second == Len(s) + 1
<1>3. first \in Nat \ {0} /\ second \in Nat \ {0} /\ first - 1 + Len(s) = Len(s)
      /\ second - 1 + Len(t) = Len(j)
  BY <1>1
<1>4. Sits(j, first, s) /\ Sits(j, second, t) /\ Sits(s, first, s)
  BY <1>2
<1> HIDE DEF j, first, second
<1>5. SubSeq(j, first, first - 1 + Len(s)) = s /\ SubSeq(s, first, first - 1 + Len(s)) = s
  BY <1>1, <1>3, <1>4, SitsIs
<1>6. SubSeq(j, second, second - 1 + Len(t)) = t
  BY <1>1, <1>3, <1>4, SitsIs
<1>7. SubSeq(j, 1, Len(s)) = s /\ SubSeq(s, 1, Len(s)) = s
  BY <1>3, <1>5 DEF first
<1>8. SubSeq(j, Len(s) + 1, Len(j)) = t
  BY <1>3, <1>6 DEF second
<1>9. IsPrefix(s, j)
  BY <1>1, <1>7 DEF IsPrefix
<1> QED
  BY <1>8, <1>9 DEF j

(* The pass over the code of a network, and over nothing.                  *)
LEMMA NetworkIsParsed ==
  ASSUME NEW ssid \in Seq(Character), NEW key \in Seq(Character)
  PROVE  CodeRead(ssid, key, ParseWifiCode(WifiCode(ssid, key)))
<1> DEFINE code == WifiCode(ssid, key)
           rest == CodeRest(ssid, key)
<1>1. code = WifiStart \o rest /\ WifiStart \in Seq(Character) /\ rest \in Seq(Character)
  BY CodeIsJoined
<1> HIDE DEF code, rest
<1>2. IsPrefix(WifiStart, code) /\ SubSeq(code, Len(WifiStart) + 1, Len(code)) = rest
  BY <1>1, PrefixOfAJoin
<1>3. ParseWifiCode(code) = ReadFrom(StartOfCode, rest)
  BY <1>2 DEF ParseWifiCode, ReadFrom
<1> QED
  BY <1>3, CodeIsRead DEF code, rest

LEMMA NothingIsParsed == ParseWifiCode(<<>>).at = "BAD"
<1> DEFINE none == <<>>
<1>1. Len(none) = 0 /\ Len(WifiStart) = 5
  BY DEF WifiStart
<1> HIDE DEF none
<1>2. ~IsPrefix(WifiStart, none)
  BY <1>1 DEF IsPrefix
<1>3. ParseWifiCode(none).at = "BAD"
  BY <1>2 DEF ParseWifiCode, StartOfCode
<1> QED
  BY <1>3 DEF none

(* An attribute, as it is read.                                            *)
LEMMA BigEndianIs ==
  ASSUME NEW n \in Nat
  PROVE  /\ BigEndian16(n) \in Seq(Nat) /\ Len(BigEndian16(n)) = 2
         /\ 256 * BigEndian16(n)[1] + BigEndian16(n)[2] = n
<1>1. (n \div 256) \in Nat /\ (n % 256) \in Nat /\ 256 * (n \div 256) + (n % 256) = n
  OBVIOUS
<1> DEFINE q == n \div 256
           r == n % 256
<1>2. BigEndian16(n) = <<q, r>>
  BY DEF BigEndian16
<1>3. q \in Nat /\ r \in Nat /\ 256 * q + r = n
  BY <1>1
<1> HIDE DEF q, r
<1>4. <<q, r>> \in Seq(Nat) /\ Len(<<q, r>>) = 2 /\ <<q, r>>[1] = q /\ <<q, r>>[2] = r
  BY <1>3
<1> QED
  BY <1>2, <1>3, <1>4

Attribute(id, value, bytes, at, read) ==
  Sits(bytes, at, WscAttribute(id, value)) =>
    read.id = id /\ read.next = at + 4 + Len(value) /\ read.value = value

Parts(id, value, w) ==
  /\ w \in Seq(Nat) /\ Len(w) = 4 + Len(value)
  /\ 256 * w[1] + w[2] = id /\ 256 * w[3] + w[4] = Len(value)
  /\ \A k \in 1 .. Len(value) : w[4 + k] = value[k]

LEMMA AttributeIsOf ==
  ASSUME NEW id \in Nat, NEW value \in Seq(Nat)
  PROVE  Parts(id, value, WscAttribute(id, value))
<1> DEFINE N == Nat
           n == Len(value)
           a == BigEndian16(id)
           b == BigEndian16(n)
           h == a \o b
           w == h \o value
<1>1. n \in Nat /\ value \in Seq(N)
  BY LenProperties
<1>2. a \in Seq(N) /\ Len(a) = 2 /\ 256 * a[1] + a[2] = id
  BY BigEndianIs
<1>3. b \in Seq(N) /\ Len(b) = 2 /\ 256 * b[1] + b[2] = n
  <2> HIDE DEF n
  <2> QED
    BY <1>1, BigEndianIs
<1>4. WscAttribute(id, value) = w
  BY DEF WscAttribute
<1> HIDE DEF a, b, N
<1>a. a \in Seq(N) /\ b \in Seq(N) /\ value \in Seq(N)
  BY <1>1, <1>2, <1>3
<1>5. /\ h \in Seq(N) /\ Len(h) = Len(a) + Len(b)
      /\ \A k \in 1 .. Len(a) + Len(b) : h[k] = IF k <= Len(a) THEN a[k] ELSE b[k - Len(a)]
  BY <1>a, ConcatProperties
<1> HIDE DEF h
<1>6. Len(h) = 4 /\ h[1] = a[1] /\ h[2] = a[2] /\ h[3] = b[1] /\ h[4] = b[2]
  BY <1>2, <1>3, <1>5
<1>7. /\ w \in Seq(N) /\ Len(w) = Len(h) + Len(value)
      /\ \A k \in 1 .. Len(h) + Len(value) : w[k] = IF k <= Len(h) THEN h[k] ELSE value[k - Len(h)]
  <2>1. h \in Seq(N)
    BY <1>5
  <2> QED
    BY <1>a, <2>1, ConcatProperties
<1> HIDE DEF w
<1>8. Len(w) = 4 + n /\ w[1] = h[1] /\ w[2] = h[2] /\ w[3] = h[3] /\ w[4] = h[4]
  BY <1>1, <1>6, <1>7
<1>9. ASSUME NEW k \in 1 .. n PROVE w[4 + k] = value[k]
  <2>1. 4 + k \in 1 .. Len(h) + Len(value) /\ ~(4 + k <= 4) /\ (4 + k) - 4 = k
    BY <1>1, <1>6
  <2> QED
    BY <1>6, <1>7, <2>1
<1>10. 256 * w[1] + w[2] = id /\ 256 * w[3] + w[4] = n
  BY <1>2, <1>3, <1>6, <1>8
<1>11. w \in Seq(Nat)
  BY <1>7 DEF N
<1>12. Parts(id, value, w)
  BY <1>8, <1>9, <1>10, <1>11 DEF Parts
<1> QED
  BY <1>4, <1>12

LEMMA AttributeSize ==
  ASSUME NEW id \in Nat, NEW value \in Seq(Nat)
  PROVE  WscAttribute(id, value) \in Seq(Nat) /\ Len(WscAttribute(id, value)) = 4 + Len(value)
<1> DEFINE w == WscAttribute(id, value)
<1>1. Parts(id, value, w)
  BY AttributeIsOf
<1> HIDE DEF w
<1>2. w \in Seq(Nat) /\ Len(w) = 4 + Len(value)
  BY <1>1 DEF Parts
<1> QED
  BY <1>2 DEF w

LEMMA AttributeIsRead ==
  ASSUME NEW id \in Nat, NEW value \in Seq(Nat), NEW bytes \in Seq(Nat), NEW at \in Nat \ {0}
  PROVE  Attribute(id, value, bytes, at, AttributeAt(bytes, at))
<1> DEFINE w == WscAttribute(id, value)
           n == Len(value)
           read == AttributeAt(bytes, at)
<1> SUFFICES ASSUME Sits(bytes, at, w)
             PROVE  read.id = id /\ read.next = at + 4 + n /\ read.value = value
  BY DEF Attribute
<1>1. /\ w \in Seq(Nat) /\ Len(w) = 4 + n
      /\ 256 * w[1] + w[2] = id /\ 256 * w[3] + w[4] = n
      /\ \A k \in 1 .. n : w[4 + k] = value[k]
  BY AttributeIsOf DEF Parts
<1>2. n \in Nat /\ Len(bytes) \in Nat
  BY LenProperties
<1> HIDE DEF w
<1>3. at + Len(w) - 1 <= Len(bytes) /\ \A k \in 1 .. Len(w) : bytes[at - 1 + k] = w[k]
  BY DEF Sits
<1>4. bytes[at] = w[1] /\ bytes[at + 1] = w[2] /\ bytes[at + 2] = w[3] /\ bytes[at + 3] = w[4]
  <2>1. 1 \in 1 .. Len(w) /\ 2 \in 1 .. Len(w) /\ 3 \in 1 .. Len(w) /\ 4 \in 1 .. Len(w)
    BY <1>1, <1>2
  <2>2. at - 1 + 1 = at /\ at - 1 + 2 = at + 1 /\ at - 1 + 3 = at + 2 /\ at - 1 + 4 = at + 3
    OBVIOUS
  <2>3. bytes[at - 1 + 1] = w[1] /\ bytes[at - 1 + 2] = w[2]
        /\ bytes[at - 1 + 3] = w[3] /\ bytes[at - 1 + 4] = w[4]
    BY <1>3, <2>1
  <2> QED
    BY <2>2, <2>3
<1>5. 256 * bytes[at + 2] + bytes[at + 3] = n /\ 256 * bytes[at] + bytes[at + 1] = id
  BY <1>1, <1>4
<1>6. read = [id |-> 256 * bytes[at] + bytes[at + 1],
              next |-> at + 4 + (256 * bytes[at + 2] + bytes[at + 3]),
              value |-> SubSeq(bytes, at + 4, at + 3 + (256 * bytes[at + 2] + bytes[at + 3]))]
  BY DEF AttributeAt
<1>7. Sits(bytes, at + 4, value)
  <2> DEFINE from == at + 4
  <2>0. from \in Nat /\ from = at + 4
    OBVIOUS
  <2> HIDE DEF from
  <2>1. from + Len(value) - 1 <= Len(bytes)
    BY <1>1, <1>2, <1>3, <2>0
  <2>2. ASSUME NEW k \in 1 .. Len(value) PROVE bytes[from - 1 + k] = value[k]
    <3>1. 4 + k \in 1 .. Len(w) /\ at - 1 + (4 + k) = from - 1 + k
      BY <1>1, <1>2, <2>0
    <3>2. bytes[at - 1 + (4 + k)] = w[4 + k]
      BY <1>3, <3>1
    <3> QED
      BY <1>1, <3>1, <3>2
  <2>3. Sits(bytes, from, value)
    BY <2>1, <2>2 DEF Sits
  <2> QED
    BY <2>3 DEF from
<1>8. SubSeq(bytes, at + 4, at + 3 + n) = value
  <2> DEFINE after == at + 4
  <2>1. after \in Nat \ {0} /\ after - 1 + n = at + 3 + n
    BY <1>2
  <2>2. Sits(bytes, after, value)
    BY <1>7
  <2> HIDE DEF after
  <2>3. SubSeq(bytes, after, after - 1 + Len(value)) = value
    BY <2>1, <2>2, SitsIs
  <2> QED
    BY <2>1, <2>3 DEF after
<1> HIDE DEF read
<1> QED
  BY <1>5, <1>6, <1>8

LEMMA SitsWhole == ASSUME NEW S, NEW s \in Seq(S) PROVE Sits(s, 1, s)
<1>1. Len(s) \in Nat
  BY LenProperties
<1>2. 1 + Len(s) - 1 <= Len(s)
  BY <1>1
<1>3. \A k \in 1 .. Len(s) : s[1 - 1 + k] = s[k]
  BY <1>1
<1> QED
  BY <1>2, <1>3 DEF Sits

(* The credential of a network, and the tag's bytes around it.             *)
CredentialOf(ssid, key) ==
  WscAttribute(Ssid, ssid) \o WscAttribute(AuthType, Wpa2Personal) \o WscAttribute(NetworkKey, key)

BytesOf(ssid, key) == WscAttribute(Credential, CredentialOf(ssid, key))

LEMMA IdsAre ==
  /\ Ssid \in Nat /\ AuthType \in Nat /\ NetworkKey \in Nat /\ Credential \in Nat
  /\ Wpa2Personal \in Seq(Nat) /\ Len(Wpa2Personal) = 2
<1>1. Ssid \in Nat
  BY DEF Ssid
<1>2. AuthType \in Nat
  BY DEF AuthType
<1>3. NetworkKey \in Nat
  BY DEF NetworkKey
<1>4. Credential \in Nat
  BY DEF Credential
<1>5. Wpa2Personal \in Seq(Nat) /\ Len(Wpa2Personal) = 2
  BY DEF Wpa2Personal
<1> QED
  BY <1>1, <1>2, <1>3, <1>4, <1>5

LEMMA BytesAreRead ==
  ASSUME NEW ssid \in Seq(Nat), NEW key \in Seq(Nat)
  PROVE  /\ BytesOf(ssid, key) \in Seq(Nat) /\ Len(BytesOf(ssid, key)) = 18 + Len(ssid) + Len(key)
         /\ ReadsAs(BytesOf(ssid, key), ssid, key)
<1> DEFINE N == Nat
           s == WscAttribute(Ssid, ssid)
           a == WscAttribute(AuthType, Wpa2Personal)
           k == WscAttribute(NetworkKey, key)
           sa == s \o a
           c == sa \o k
           bytes == WscAttribute(Credential, c)
           second == Len(s) + 1
           third == Len(sa) + 1
<1>1. s \in Seq(N) /\ Len(s) = 4 + Len(ssid)
  BY IdsAre, AttributeSize
<1>2. a \in Seq(N) /\ Len(a) = 6
  <2>1. a \in Seq(Nat) /\ Len(a) = 4 + Len(Wpa2Personal)
    BY IdsAre, AttributeSize
  <2> HIDE DEF a
  <2> QED
    BY <2>1, IdsAre
<1>3. k \in Seq(N) /\ Len(k) = 4 + Len(key)
  BY IdsAre, AttributeSize
<1>4. Len(ssid) \in Nat /\ Len(key) \in Nat
  BY LenProperties
<1> HIDE DEF s, a, k, N
<1>5. sa \in Seq(N) /\ Len(sa) = Len(s) + Len(a)
  BY <1>1, <1>2, ConcatProperties
<1>6. Sits(sa, 1, s) /\ Sits(sa, second, a)
  BY <1>1, <1>2, SitsInAJoin
<1> HIDE DEF sa
<1>7. c \in Seq(N) /\ Len(c) = Len(sa) + Len(k)
  BY <1>3, <1>5, ConcatProperties
<1>8. second \in Nat \ {0} /\ third \in Nat \ {0} /\ 1 \in Nat \ {0}
  BY <1>1, <1>2, <1>4, <1>5
<1>9. Sits(c, 1, s) /\ Sits(c, second, a) /\ Sits(c, third, k)
  <2> DEFINE first == 1
  <2>1. first \in Nat \ {0} /\ Sits(sa, first, s)
    BY <1>6
  <2>2. Sits(c, third, k)
    BY <1>3, <1>5, SitsInAJoin
  <2>3. \A at \in Nat \ {0} : \A u \in Seq(N) : Sits(sa, at, u) => Sits(c, at, u)
    BY <1>3, <1>5, SitsInAJoin
  <2> HIDE DEF first, second, third, c
  <2>4. Sits(c, first, s) /\ Sits(c, second, a)
    BY <1>1, <1>2, <1>6, <1>8, <2>1, <2>3
  <2> QED
    BY <2>2, <2>4 DEF first
<1> HIDE DEF c, second, third
<1>10. bytes \in Seq(Nat) /\ Len(bytes) = 4 + Len(c)
  BY <1>7, IdsAre, AttributeSize DEF N
<1>11. Sits(bytes, 1, bytes)
  BY <1>10, SitsWhole
<1>12. Len(c) = 14 + Len(ssid) + Len(key) /\ second = 5 + Len(ssid) /\ third = 11 + Len(ssid)
  BY <1>1, <1>2, <1>3, <1>4, <1>5, <1>7 DEF second, third
<1> DEFINE outer == AttributeAt(bytes, 1)
           r1 == AttributeAt(c, 1)
           r2 == AttributeAt(c, second)
           r3 == AttributeAt(c, third)
           one == 1
<1>13. c \in Seq(Nat)
  BY <1>7 DEF N
<1>14. one \in Nat \ {0}
  OBVIOUS
<1>15. outer.id = Credential /\ outer.next = 5 + Len(c) /\ outer.value = c
  <2> HIDE DEF one
  <2>1. Attribute(Credential, c, bytes, one, AttributeAt(bytes, one))
    BY <1>10, <1>13, <1>14, IdsAre, AttributeIsRead
  <2>2. Attribute(Credential, c, bytes, 1, AttributeAt(bytes, 1))
    BY <2>1 DEF one
  <2>3. Len(c) \in Nat
    BY <1>13, LenProperties
  <2> QED
    BY <1>11, <2>2, <2>3 DEF Attribute
<1>16. r1.id = Ssid /\ r1.next = 5 + Len(ssid) /\ r1.value = ssid
  <2> HIDE DEF one
  <2>1. Attribute(Ssid, ssid, c, one, AttributeAt(c, one))
    BY <1>13, <1>14, IdsAre, AttributeIsRead
  <2>2. Attribute(Ssid, ssid, c, 1, AttributeAt(c, 1))
    BY <2>1 DEF one
  <2> QED
    BY <1>4, <1>9, <2>2 DEF Attribute, s
<1>17. r2.id = AuthType /\ r2.next = 11 + Len(ssid) /\ r2.value = Wpa2Personal
  <2>1. Attribute(AuthType, Wpa2Personal, c, second, AttributeAt(c, second))
    BY <1>8, <1>13, IdsAre, AttributeIsRead
  <2>2. Sits(c, second, WscAttribute(AuthType, Wpa2Personal))
    BY <1>9 DEF a
  <2>3. r2.id = AuthType /\ r2.next = second + 4 + Len(Wpa2Personal) /\ r2.value = Wpa2Personal
    BY <2>1, <2>2 DEF Attribute
  <2> QED
    BY <1>4, <1>12, <2>3, IdsAre
<1>18. r3.id = NetworkKey /\ r3.next = 15 + Len(ssid) + Len(key) /\ r3.value = key
  <2>1. Attribute(NetworkKey, key, c, third, AttributeAt(c, third))
    BY <1>8, <1>13, IdsAre, AttributeIsRead
  <2>2. Sits(c, third, WscAttribute(NetworkKey, key))
    BY <1>9 DEF k
  <2>3. r3.id = NetworkKey /\ r3.next = third + 4 + Len(key) /\ r3.value = key
    BY <2>1, <2>2 DEF Attribute
  <2> QED
    BY <1>4, <1>12, <2>3
<1>19. BytesOf(ssid, key) = bytes
  BY DEF BytesOf, CredentialOf, c, sa, s, a, k
<1> HIDE DEF bytes, outer, r1, r2, r3
<1>20. r1.next = second /\ r2.next = third
  BY <1>12, <1>16, <1>17
<1>21. outer.next = Len(bytes) + 1 /\ r3.next = Len(c) + 1
  BY <1>4, <1>10, <1>12, <1>15, <1>18
<1>22. ReadsAs(bytes, ssid, key)
  <2>1. outer = AttributeAt(bytes, 1) /\ r1 = AttributeAt(outer.value, 1)
        /\ r2 = AttributeAt(outer.value, r1.next) /\ r3 = AttributeAt(outer.value, r2.next)
    BY <1>15, <1>20 DEF outer, r1, r2, r3
  <2> QED
    BY <1>15, <1>16, <1>17, <1>18, <1>21, <2>1 DEF ReadsAs
<1>23. Len(bytes) = 18 + Len(ssid) + Len(key)
  BY <1>4, <1>10, <1>12
<1> QED
  BY <1>10, <1>19, <1>22, <1>23

-----------------------------------------------------------------------------
(* A record that is short enough is written, and no other.                 *)
Written(type, payload, record) ==
  IF Len(payload) <= ShortRecordMaxPayload /\ 3 + TypeLength[type] + Len(payload) <= MessageCapacity
  THEN record # NoMessage /\ record.type = type /\ record.payload = payload
  ELSE record = NoMessage

LEMMA RoomInATag ==
  /\ ShortRecordMaxPayload \in Nat /\ MessageCapacity \in Nat
  /\ MaxSsidLength \in Nat /\ MaxNetworkKeyLength \in Nat /\ MaxTextLength \in Nat
  /\ 18 + 2 * (MaxSsidLength + MaxNetworkKeyLength) <= MaxTextLength
  /\ 18 + MaxSsidLength + MaxNetworkKeyLength <= ShortRecordMaxPayload
  /\ 44 + MaxSsidLength + MaxNetworkKeyLength <= MessageCapacity
<1>1. ShortRecordMaxPayload \in Nat /\ MessageCapacity \in Nat
  BY NdefAssumption
<1>2. MaxSsidLength \in Nat /\ MaxNetworkKeyLength \in Nat
  <2>1. {MaxSecurityTypeLength, MaxSsidLength, MaxNetworkKeyLength} \subseteq Nat \ {0}
    BY NdefAssumption
  <2> QED
    BY <2>1
<1>3. /\ 18 + 2 * (MaxSsidLength + MaxNetworkKeyLength) <= MaxTextLength
      /\ 18 + MaxSsidLength + MaxNetworkKeyLength <= ShortRecordMaxPayload
      /\ 44 + MaxSsidLength + MaxNetworkKeyLength <= MessageCapacity
  BY RoomAssumption
<1>4. MaxTextLength \in Nat
  BY BoundsAre
<1> QED
  BY <1>1, <1>2, <1>3, <1>4

LEMMA ShortRecordIs ==
  ASSUME NEW format \in Nat, NEW type \in {"U", "WSC"}, NEW payload, Len(payload) \in Nat
  PROVE  Written(type, payload, SingleShortRecord(format, type, payload))
<1> DEFINE n == Len(payload)
           header == TypeLength[type]
           length == 3 + header + n
           flags == 128 + 64 + 16 + format
           record == [length |-> length, flags |-> flags, type |-> type,
                      payload_length |-> n, payload |-> payload]
<1>1. header \in Nat
  BY DEF TypeLength
<1> HIDE DEF header
<1>2. length \in Nat /\ length >= 3
  BY <1>1
<1>3. SingleShortRecord(format, type, payload) =
        IF n > ShortRecordMaxPayload \/ length > MessageCapacity THEN NoMessage ELSE record
  BY DEF SingleShortRecord, header
<1>4. (n > ShortRecordMaxPayload <=> ~(n <= ShortRecordMaxPayload))
      /\ (length > MessageCapacity <=> ~(length <= MessageCapacity))
  BY <1>2, RoomInATag
<1> HIDE DEF length, flags
<1>5. record.length = length /\ record.type = type /\ record.payload = payload
  OBVIOUS
<1>6. NoMessage.length = 0
  BY DEF NoMessage
<1> HIDE DEF record
<1>7. record # NoMessage
  BY <1>2, <1>5, <1>6
<1>8. CASE n <= ShortRecordMaxPayload /\ length <= MessageCapacity
  <2>1. SingleShortRecord(format, type, payload) = record
    BY <1>3, <1>4, <1>8
  <2> QED
    BY <1>5, <1>7, <1>8, <2>1 DEF Written, length, header
<1>9. CASE ~(n <= ShortRecordMaxPayload /\ length <= MessageCapacity)
  <2>1. SingleShortRecord(format, type, payload) = NoMessage
    BY <1>3, <1>4, <1>9
  <2> QED
    BY <1>9, <2>1 DEF Written, length, header
<1> QED
  BY <1>8, <1>9

(* What the tag made of a network says.                                    *)
TagSays(ssid, key, made) ==
  /\ (made # NoMessage) <=>
       (Len(ssid) \in 1 .. MaxSsidLength /\ Len(key) \in 1 .. MaxNetworkKeyLength)
  /\ made # NoMessage => made.type = "WSC" /\ ReadsAs(made.payload, ssid, key)

LEMMA TagOfACode ==
  ASSUME NEW ssid \in Seq(Character), NEW key \in Seq(Character)
  PROVE  TagSays(ssid, key, WifiMessage(WifiCode(ssid, key)))
<1> DEFINE scan == ParseWifiCode(WifiCode(ssid, key))
           bytes == BytesOf(ssid, key)
           made == WifiMessage(WifiCode(ssid, key))
           record == SingleShortRecord(MediaType, "WSC", bytes)
           others == WscAttribute(Credential, WscAttribute(Ssid, scan.value[KeyS])
                       \o WscAttribute(AuthType, Wpa2Personal)
                       \o WscAttribute(NetworkKey, scan.value[KeyP]))
<1>1. CodeRead(ssid, key, scan)
  BY NetworkIsParsed
<1>2. made = IF ~NamesANetwork(scan) \/ Len(others) > MessageCapacity THEN NoMessage
             ELSE SingleShortRecord(MediaType, "WSC", others)
  BY DEF WifiMessage
<1> HIDE DEF scan, made
<1>3. Len(ssid) \in Nat /\ Len(key) \in Nat /\ (ssid # <<>> <=> Len(ssid) # 0) /\ (key # <<>> <=> Len(key) # 0)
  BY LenProperties, EmptySeq
<1>4. CASE ~(Len(ssid) <= MaxSsidLength /\ Len(key) <= MaxNetworkKeyLength)
  <2>1. scan.at = "BAD"
    BY <1>1, <1>4 DEF CodeRead
  <2>2. ~NamesANetwork(scan)
    BY <2>1 DEF NamesANetwork
  <2>3. made = NoMessage
    BY <1>2, <2>2
  <2> QED
    BY <1>4, <2>3 DEF TagSays, made
<1>5. CASE Len(ssid) <= MaxSsidLength /\ Len(key) <= MaxNetworkKeyLength
  <2>1. /\ scan.at = "END" /\ scan.seen = WifiKeys
        /\ scan.value[KeyT] = Wpa /\ scan.value[KeyS] = ssid /\ scan.value[KeyP] = key
    BY <1>1, <1>5 DEF CodeRead
  <2>2. NamesANetwork(scan) <=> (ssid # <<>> /\ key # <<>>)
    BY <2>1 DEF NamesANetwork
  <2>3. others = bytes
    BY <2>1 DEF BytesOf, CredentialOf
  <2> HIDE DEF others
  <2>4. Len(bytes) = 18 + Len(ssid) + Len(key) /\ ReadsAs(bytes, ssid, key)
    <3> DEFINE N == Nat
    <3>1. Character \subseteq N
      BY DEF Character
    <3> HIDE DEF N
    <3>2. ssid \in Seq(N) /\ key \in Seq(N)
      BY <3>1, SeqMonotonic
    <3>3. ssid \in Seq(Nat) /\ key \in Seq(Nat)
      BY <3>2 DEF N
    <3> QED
      BY <3>3, BytesAreRead
  <2> HIDE DEF bytes
  <2>5. Len(bytes) \in Nat /\ Len(bytes) <= ShortRecordMaxPayload /\ 26 + Len(bytes) <= MessageCapacity
        /\ ~(Len(bytes) > MessageCapacity)
    BY <1>3, <1>5, <2>4, RoomInATag
  <2>6. record # NoMessage /\ record.type = "WSC" /\ record.payload = bytes
    <3>1. Written("WSC", bytes, record)
      <4>1. MediaType \in Nat
        BY DEF MediaType
      <4> QED
        BY <2>5, <4>1, ShortRecordIs
    <3>2. 3 + TypeLength["WSC"] = 26
      BY DEF TypeLength
    <3> HIDE DEF record
    <3>3. 3 + TypeLength["WSC"] + Len(bytes) <= MessageCapacity
      BY <2>5, <3>2
    <3> QED
      BY <2>5, <3>1, <3>3 DEF Written
  <2> HIDE DEF record
  <2>7. CASE ssid # <<>> /\ key # <<>>
    <3>1. made = record
      BY <1>2, <2>2, <2>3, <2>5, <2>7 DEF record
    <3>2. Len(ssid) \in 1 .. MaxSsidLength /\ Len(key) \in 1 .. MaxNetworkKeyLength
      BY <1>3, <1>5, <2>7, RoomInATag
    <3> QED
      BY <2>4, <2>6, <3>1, <3>2 DEF TagSays, made
  <2>8. CASE ~(ssid # <<>> /\ key # <<>>)
    <3>1. made = NoMessage
      BY <1>2, <2>2, <2>8
    <3>2. ~(Len(ssid) \in 1 .. MaxSsidLength /\ Len(key) \in 1 .. MaxNetworkKeyLength)
      BY <1>3, <2>8
    <3> QED
      BY <3>1, <3>2 DEF TagSays, made
  <2> QED
    BY <2>7, <2>8
<1> QED
  BY <1>4, <1>5

(* The same, through the text of a record.                                 *)
LEMMA TagOfANetwork ==
  ASSUME NEW ssid \in Seq(Character), NEW key \in Seq(Character)
  PROVE  TagSays(ssid, key, WifiMessage(KeptText(WifiCode(ssid, key))))
<1> DEFINE code == WifiCode(ssid, key)
<1>1. CASE Len(code) <= MaxTextLength
  <2>1. KeptText(code) = code
    BY <1>1 DEF KeptText
  <2>2. TagSays(ssid, key, WifiMessage(code))
    BY TagOfACode
  <2> HIDE DEF code
  <2> QED
    BY <2>1, <2>2 DEF code
<1>2. CASE ~(Len(code) <= MaxTextLength)
  <2> DEFINE none == <<>>
             made == WifiMessage(none)
  <2>1. KeptText(code) = none
    BY <1>2 DEF KeptText
  <2>2. made = NoMessage
    <3>1. ~NamesANetwork(ParseWifiCode(none))
      BY NothingIsParsed DEF NamesANetwork
    <3> HIDE DEF none
    <3> QED
      BY <3>1 DEF WifiMessage
  <2>3. ~(Len(ssid) \in 1 .. MaxSsidLength /\ Len(key) \in 1 .. MaxNetworkKeyLength)
    <3>1. Len(code) = 18 + Len(WifiEscape(ssid)) + Len(WifiEscape(key))
      BY CodeIsJoined
    <3>2. /\ Len(WifiEscape(ssid)) <= 2 * Len(ssid) /\ Len(WifiEscape(key)) <= 2 * Len(key)
          /\ Len(WifiEscape(ssid)) \in Nat /\ Len(WifiEscape(key)) \in Nat
          /\ Len(ssid) \in Nat /\ Len(key) \in Nat
      BY WifiEscapeIs, LenProperties
    <3> HIDE DEF code
    <3> QED
      BY <1>2, <3>1, <3>2, RoomInATag
  <2> HIDE DEF none, made, code
  <2>4. TagSays(ssid, key, made)
    BY <2>2, <2>3 DEF TagSays
  <2> QED
    BY <2>1, <2>4 DEF made, code
<1> QED
  BY <1>1, <1>2

(* An address, in a tag and out of it.                                     *)
AddressSays(address, made) ==
  /\ (made # NoMessage) <=> AddressFits(address)
  /\ made # NoMessage =>
       LET scheme == Abbreviated(made.payload[1])
       IN  /\ made.type = "U" /\ StartsWithCaseInsensitive(address, scheme)
           /\ Tail(made.payload) = SubSeq(address, Len(scheme) + 1, Len(address))

SchemeOf(address) == Abbreviated(PrefixCode(address))

LEMMA SchemesAre ==
  ASSUME NEW address \in Seq(Character)
  PROVE  /\ PrefixCode(address) \in Nat /\ StartsWithCaseInsensitive(address, SchemeOf(address))
         /\ Len(SchemeOf(address)) \in Nat /\ Len(SchemeOf(address)) <= Len(address)
<1> DEFINE lower == [i \in DOMAIN address |-> ToLower(address[i])]
           code == PrefixCode(address)
           scheme == SchemeOf(address)
<1>1. Len(address) \in Nat /\ lower \in Seq(Nat) /\ Len(lower) = Len(address)
  <2>1. address \in Seq(Character) /\ DOMAIN address = 1 .. Len(address) /\ Len(address) \in Nat
    BY LenProperties
  <2>2. \A i \in 1 .. Len(address) : ToLower(address[i]) \in Nat
    <3>1. \A i \in 1 .. Len(address) : address[i] \in 32 .. 126
      BY <2>1, ElementOfSeq DEF Character
    <3>2. ASSUME NEW c \in 32 .. 126 PROVE ToLower(c) \in Nat
      BY DEF ToLower
    <3> QED
      BY <3>1, <3>2
  <2> QED
    BY <2>1, <2>2
<1> HIDE DEF lower
<1>2. \A prefix : StartsWithCaseInsensitive(address, prefix) <=> IsPrefix(prefix, lower)
  BY DEF StartsWithCaseInsensitive, lower
<1>3. Len(Http) = 7 /\ Len(Https) = 8
  BY DEF Http, Https
<1>4. CASE StartsWithCaseInsensitive(address, Https)
  <2>1. code = 4 /\ scheme = Https
    BY <1>4 DEF PrefixCode, SchemeOf, Abbreviated
  <2> HIDE DEF code, scheme
  <2>2. Len(scheme) <= Len(lower)
    BY <1>2, <1>4, <2>1 DEF IsPrefix
  <2> QED
    BY <1>1, <1>3, <1>4, <2>1, <2>2 DEF code, scheme
<1>5. CASE ~StartsWithCaseInsensitive(address, Https) /\ StartsWithCaseInsensitive(address, Http)
  <2>1. code = 3 /\ scheme = Http
    BY <1>5 DEF PrefixCode, SchemeOf, Abbreviated
  <2> HIDE DEF code, scheme
  <2>2. Len(scheme) <= Len(lower)
    BY <1>2, <1>5, <2>1 DEF IsPrefix
  <2> QED
    BY <1>1, <1>3, <1>5, <2>1, <2>2 DEF code, scheme
<1>6. CASE ~StartsWithCaseInsensitive(address, Https) /\ ~StartsWithCaseInsensitive(address, Http)
  <2> DEFINE none == <<>>
  <2>1. code = 0 /\ scheme = none
    BY <1>6 DEF PrefixCode, SchemeOf, Abbreviated
  <2>2. Len(none) = 0
    OBVIOUS
  <2>3. SubSeq(none, 1, 0) = none /\ SubSeq(lower, 1, 0) = none
    BY SubSeqEmpty
  <2> HIDE DEF code, scheme, none
  <2>4. IsPrefix(scheme, lower)
    BY <1>1, <2>1, <2>2, <2>3 DEF IsPrefix
  <2>5. StartsWithCaseInsensitive(address, scheme)
    BY <1>2, <2>4
  <2> QED
    BY <1>1, <2>1, <2>2, <2>5 DEF code, scheme
<1> QED
  BY <1>4, <1>5, <1>6

LEMMA TagOfAnAddress ==
  ASSUME NEW address \in Seq(Character)
  PROVE  AddressSays(address, UriMessage(KeptText(address)))
<1> DEFINE code == PrefixCode(address)
           scheme == SchemeOf(address)
           rest == SubSeq(address, Len(scheme) + 1, Len(address))
           one == <<code>>
           payload == one \o rest
           n == 1 + Len(address) - Len(scheme)
           record == SingleShortRecord(WellKnown, "U", payload)
           none == <<>>
<1>1. /\ code \in Nat /\ StartsWithCaseInsensitive(address, scheme)
      /\ Len(scheme) \in Nat /\ Len(scheme) <= Len(address) /\ Len(address) \in Nat
  BY SchemesAre, LenProperties
<1>2. scheme = Abbreviated(code)
  BY DEF SchemeOf
<1> HIDE DEF code, scheme
<1>3. rest \in Seq(Nat) /\ Len(rest) = Len(address) - Len(scheme)
  <2> DEFINE from == Len(scheme) + 1
             to == Len(address)
             N == Nat
  <2>1. from \in Int /\ to \in Int /\ \A i \in from .. to : address[i] \in N
    <3>1. \A i \in 1 .. Len(address) : address[i] \in Character
      BY ElementOfSeq
    <3>2. Character \subseteq Nat
      BY DEF Character
    <3>3. ASSUME NEW i \in from .. to PROVE address[i] \in N
      <4>1. i \in 1 .. Len(address)
        BY <1>1
      <4> QED
        BY <3>1, <3>2, <4>1
    <3>4. from \in Int /\ to \in Int
      BY <1>1
    <3> HIDE DEF N, from, to
    <3> QED
      BY <3>3, <3>4
  <2> HIDE DEF from, to, N
  <2>2. SubSeq(address, from, to) \in Seq(N)
        /\ Len(SubSeq(address, from, to)) = (IF from <= to THEN to - from + 1 ELSE 0)
    BY <2>1, SubSeqProperties
  <2> HIDE DEF rest
  <2>3. rest \in Seq(N) /\ Len(rest) = (IF from <= to THEN to - from + 1 ELSE 0)
    BY <2>2 DEF rest, from, to
  <2>4. rest \in Seq(Nat)
    BY <2>3 DEF N
  <2> QED
    BY <1>1, <2>3, <2>4 DEF from, to
<1> HIDE DEF rest
<1>4. /\ payload \in Seq(Nat) /\ Len(payload) = n /\ payload[1] = code /\ Tail(payload) = rest
  <2> DEFINE N == Nat
  <2>1. one \in Seq(N) /\ Len(one) = 1 /\ one[1] = code
    BY <1>1
  <2>2. rest \in Seq(N)
    BY <1>3
  <2> HIDE DEF one, N
  <2>3. /\ payload \in Seq(N) /\ Len(payload) = Len(one) + Len(rest)
        /\ \A k \in 1 .. Len(one) + Len(rest) :
             payload[k] = IF k <= Len(one) THEN one[k] ELSE rest[k - Len(one)]
    BY <2>1, <2>2, ConcatProperties
  <2>4. Tail(payload) = rest
    BY <1>1, <2>2, TailOfAPrepended DEF one, N
  <2> HIDE DEF payload
  <2>5. Len(payload) = n
    BY <1>1, <1>3, <2>1, <2>3
  <2>7. payload[1] = code
    <3>1. 1 \in 1 .. Len(one) + Len(rest) /\ 1 <= Len(one)
      BY <1>1, <1>3, <2>1
    <3>2. payload[1] = one[1]
      BY <2>3, <3>1
    <3> QED
      BY <2>1, <3>2
  <2>6. payload \in Seq(Nat)
    BY <2>3 DEF N
  <2> QED
    BY <2>4, <2>5, <2>6, <2>7
<1> HIDE DEF payload
<1>5. n \in Nat
  BY <1>1
<1>6. Written("U", payload, record)
  <2>1. WellKnown \in Nat /\ Len(payload) \in Nat
    BY <1>4, <1>5 DEF WellKnown
  <2> QED
    BY <2>1, ShortRecordIs
<1>7. 3 + TypeLength["U"] + Len(payload) = n + 4
  <2>1. TypeLength["U"] = 1
    BY DEF TypeLength
  <2> HIDE DEF n
  <2> QED
    BY <1>4, <1>5, <2>1
<1>8. AddressFits(address) <=>
        (address # <<>> /\ Len(address) <= MaxTextLength /\ n <= ShortRecordMaxPayload
         /\ n + 4 <= MessageCapacity)
  BY <1>2 DEF AddressFits, code
<1>9. UriMessage(address) = IF address = none THEN NoMessage ELSE record
  BY <1>2 DEF UriMessage, code, payload, one, rest
<1> HIDE DEF n, record
<1>10. CASE Len(address) <= MaxTextLength /\ address # none
  <2>1. KeptText(address) = address
    BY <1>10 DEF KeptText
  <2>2. UriMessage(KeptText(address)) = record
    BY <1>9, <1>10, <2>1
  <2>3. CASE n <= ShortRecordMaxPayload /\ n + 4 <= MessageCapacity
    <3>1. record # NoMessage /\ record.type = "U" /\ record.payload = payload
      BY <1>4, <1>6, <1>7, <2>3 DEF Written
    <3>2. AddressFits(address)
      BY <1>8, <1>10, <2>3
    <3>3. LET first == Abbreviated(record.payload[1])
          IN  /\ record.type = "U" /\ StartsWithCaseInsensitive(address, first)
              /\ Tail(record.payload) = SubSeq(address, Len(first) + 1, Len(address))
      BY <1>1, <1>2, <1>4, <3>1 DEF rest
    <3> QED
      BY <2>2, <3>1, <3>2, <3>3 DEF AddressSays
  <2>4. CASE ~(n <= ShortRecordMaxPayload /\ n + 4 <= MessageCapacity)
    <3>1. record = NoMessage
      BY <1>4, <1>6, <1>7, <2>4 DEF Written
    <3>2. ~AddressFits(address)
      BY <1>8, <2>4
    <3> QED
      BY <2>2, <3>1, <3>2 DEF AddressSays
  <2> QED
    BY <2>3, <2>4
<1>11. CASE ~(Len(address) <= MaxTextLength /\ address # none)
  <2>1. KeptText(address) = none
    BY <1>11 DEF KeptText
  <2>2. UriMessage(none) = NoMessage
    BY DEF UriMessage
  <2>3. ~AddressFits(address)
    BY <1>8, <1>11
  <2> HIDE DEF none
  <2> QED
    BY <2>1, <2>2, <2>3 DEF AddressSays
<1> QED
  BY <1>10, <1>11

-----------------------------------------------------------------------------
(***************************************************************************)
(* What is meant waits to be sent, or to arrive, or is shown.  Whatever    *)
(* else may happen to the message or to the line, nothing is meant by it.  *)
(***************************************************************************)
TagOf(meaning) ==
  LET text == KeptText(PayloadOf(meaning))
  IN  IF meaning.page = "WIFI" THEN WifiMessage(text) ELSE UriMessage(text)

(* A screen presents the page and the payload of a meaning.                *)
Presents(state, meaning) ==
  /\ state.link_connected = TRUE /\ state.link_incompatible = FALSE
  /\ state.status = "PRESENTING" /\ state.page = meaning.page
  /\ state.payload = KeptText(PayloadOf(meaning))

Waiting ==
  /\ display.link_connected = FALSE /\ message = RecordOf(meant)
  /\ line # <<>> =>
       /\ Encode(message, MaxMessageLength) # <<>>
       /\ line = Front(Encode(message, MaxMessageLength))

Shown ==
  /\ line = <<>> /\ message = Initialised("DISPLAY")
  /\ Presents(display, meant) /\ tag = TagOf(meant)

MeantInv == IsAMeaning(meant) /\ (meant.page # "NONE" => Waiting \/ Shown)

(* A screen that presents a page has the tag of its payload.               *)
LEMMA RecomposePresents ==
  ASSUME NEW state, CanBeShown(state), NEW meaning, IsAMeaning(meaning), meaning.page # "NONE",
         Presents(state, meaning), Recompose(state)
  PROVE  Presents(display', meaning) /\ tag' = TagOf(meaning)
<1> DEFINE shown == [state EXCEPT !.nfc_presenting = TRUE]
<1>1. /\ tag' = TagFor(state, Compose(state))
      /\ display' = IF tag' = NoMessage THEN state ELSE shown
  BY DEF Recompose
<1>2. meaning.page \in {"WIFI", "GUEST"}
  BY PayloadIs
<1>3. Compose(state).code_page_active = TRUE
  <2>1. ShowsTheRecord(state) /\ ShowsACode(state)
    BY <1>2 DEF Presents, ShowsTheRecord, ShowsACode, Active, PageNamed
  <2> QED
    BY <2>1 DEF Compose
<1>4. tag' = TagOf(meaning)
  BY <1>1, <1>2, <1>3 DEF TagFor, TagOf, Presents
<1>5. \A f \in StateFields \ {"nfc_presenting"} : shown[f] = state[f]
  BY DEF CanBeShown, StateFields
<1> HIDE DEF shown
<1>6. Presents(shown, meaning)
  BY <1>5 DEF Presents, StateFields
<1> QED
  BY <1>1, <1>4, <1>6

(* The record of a meaning, on the screen.                                 *)
LEMMA RecordPresents ==
  ASSUME NEW meaning, IsAMeaning(meaning), meaning.page # "NONE", NEW size, NEW locked
  PROVE  Presents(DisplayOf(RecordOf(meaning), size, locked), meaning)
<1> DEFINE down == LinkDownDisplay(locked)
           record == RecordOf(meaning)
           field(i) == record.fields[i]
           shown == DisplayOf(record, size, locked)
           n == IndexOf(PageValues, meaning.page)
           text == KeptText(PayloadOf(meaning))
<1>1. field(1) = Integer(1) /\ field(2) = Integer(n) /\ field(3) = TextOf(text)
  BY RecordOfIs
<1>2. field(1).integer = 1 /\ field(2).integer = n /\ field(3).text = text
  BY <1>1 DEF Integer, TextOf
<1>3. PageValues[n + 1] = meaning.page /\ StatusValues[1 + 1] = "PRESENTING"
  <2>1. meaning.page \in {"WIFI", "GUEST"}
    BY PayloadIs
  <2> QED
    BY <2>1, IndexOfIs DEF PageValues, StatusValues
<1>4. DOMAIN down = StateFields /\ down.link_incompatible = FALSE
  BY DEF LinkDownDisplay, StateFields
<1> HIDE DEF down, record, n, text
<1>5. shown = [down EXCEPT
         !.link_connected = TRUE,
         !.status    = StatusValues[field(1).integer + 1],
         !.page      = PageValues[field(2).integer + 1],
         !.payload   = field(3).text,
         !.kind      = size.kind,
         !.length    = size.length,
         !.delivered = field(4).integer,
         !.error     = ErrorValues[field(5).integer + 1]]
  BY DEF DisplayOf, down
<1> HIDE DEF shown
<1>6. /\ shown.link_connected = TRUE /\ shown.link_incompatible = FALSE
      /\ shown.status = StatusValues[field(1).integer + 1]
      /\ shown.page = PageValues[field(2).integer + 1]
      /\ shown.payload = field(3).text
  BY <1>4, <1>5 DEF StateFields
<1>7. Presents(shown, meaning)
  BY <1>2, <1>3, <1>6 DEF Presents, text
<1> QED
  BY <1>7 DEF shown, record

(* A record of a meaning is one that was set.                              *)
LEMMA RecordIsNotBlank ==
  ASSUME NEW meaning, IsAMeaning(meaning)
  PROVE  RecordOf(meaning) # Initialised("DISPLAY")
<1>1. RecordOf(meaning).fields[1] = Integer(1)
  BY RecordOfIs
<1>2. 1 \in DOMAIN Descriptors["DISPLAY"]
  BY DisplayFieldsAre DEF FieldsOf
<1>3. Initialised("DISPLAY").fields[1] = Integer(0)
  BY <1>2 DEF Initialised, Integer
<1>4. Integer(1).integer # Integer(0).integer
  BY DEF Integer
<1> QED
  BY <1>1, <1>3, <1>4

(* What was sent is what arrives.                                          *)
LEMMA SentArrives ==
  ASSUME NEW m, IsAMessage(m), Encode(m, MaxMessageLength) # <<>>
  PROVE  ReceiveLine(Front(Encode(m, MaxMessageLength))) = [kind |-> "MESSAGE", message |-> m]
<1> DEFINE ts == MessageTokens(m)
<1>1. MessageIsValid(m) /\ Encode(m, MaxMessageLength) = LineOf(m)
  BY EncodedIsTheLine
<1>2. Front(LineOf(m)) = Tail(Joined(ts))
  BY <1>1, LineOfAMessage
<1>3. Arranged(m, ts, [k \in 2 .. Len(ts) |-> k - 1])
  BY <1>1, EncoderIsArranged
<1> HIDE DEF ts
<1>4. ReceiveLine(Tail(Joined(ts))) = [kind |-> "MESSAGE", message |-> m]
  BY <1>3, EncodedIsReceived
<1> QED
  BY <1>1, <1>2, <1>4

LEMMA MeantBegins == Init => MeantInv
<1> SUFFICES ASSUME Init PROVE MeantInv
  OBVIOUS
<1>1. meant = NoMeaning
  BY DEF Init
<1> QED
  BY <1>1 DEF MeantInv, IsAMeaning, NoMeaning

LEMMA NothingMeantIsKept == meant' = NoMeaning => MeantInv'
  BY DEF MeantInv, IsAMeaning, NoMeaning

LEMMA MeantStep == MeantInv /\ ShownInv /\ [Next]_vars => MeantInv'
<1> SUFFICES ASSUME MeantInv, ShownInv, [Next]_vars PROVE MeantInv'
  OBVIOUS
<1>0. IsAMeaning(meant) /\ CanBeShown(display) /\ display.screen_locked \in BOOLEAN
  BY DEF MeantInv, ShownInv, CanBeShown
<1>1. CASE Draft \/ Damage \/ Discard \/ LoseLink
  <2>1. meant' = NoMeaning
    BY <1>1 DEF Draft, Damage, Discard, LoseLink
  <2> QED
    BY <2>1, NothingMeantIsKept
<1>2. CASE Mean
  <2>1. /\ IsAMeaning(meant') /\ message' = RecordOf(meant')
        /\ line' = <<>> /\ display' = LinkDownDisplay(FALSE)
    BY <1>2, MeaningsAre DEF Mean, Fresh
  <2>2. display'.link_connected = FALSE
    BY <2>1 DEF LinkDownDisplay
  <2> QED
    BY <2>1, <2>2 DEF MeantInv, Waiting
<1>3. CASE meant.page = "NONE" /\ UNCHANGED meant
  BY <1>0, <1>3 DEF MeantInv
<1>4. CASE UNCHANGED vars
  <2>1. UNCHANGED <<meant, message, line, display, tag>>
    BY <1>4 DEF vars
  <2> QED
    BY <2>1 DEF MeantInv, Waiting, Shown
<1>5. CASE Send /\ meant.page # "NONE"
  <2>1. /\ UNCHANGED <<meant, message, display>> /\ Encode(message, MaxMessageLength) # <<>>
        /\ line' = Front(Encode(message, MaxMessageLength)) /\ ~display.link_connected
    BY <1>5 DEF Send
  <2>2. Waiting
    BY <1>5, <2>1 DEF MeantInv, Shown, Presents
  <2> QED
    BY <1>0, <2>1, <2>2 DEF MeantInv, Waiting
<1>6. CASE Babble /\ meant.page # "NONE"
  <2>1. message = Initialised("DISPLAY") /\ display = LinkDownDisplay(FALSE)
    BY <1>6 DEF Babble, Fresh
  <2>2. display.link_connected # TRUE
    BY <2>1 DEF LinkDownDisplay
  <2>3. ~Waiting /\ ~Shown
    BY <1>0, <2>1, <2>2, RecordIsNotBlank DEF Waiting, Shown, Presents
  <2> QED
    BY <1>6, <2>3 DEF MeantInv
<1>7. CASE Deliver /\ meant.page # "NONE"
  <2>1. /\ line # <<>> /\ IsARecord(ReceiveLine(line))
        /\ line' = <<>> /\ message' = Initialised("DISPLAY") /\ UNCHANGED meant
    BY <1>7 DEF Deliver
  <2>2. PICK size \in PayloadSizes :
          Recompose(DisplayOf(ReceiveLine(line).message, size, display.screen_locked))
    BY <1>7 DEF Deliver
  <2>3. /\ message = RecordOf(meant) /\ Encode(message, MaxMessageLength) # <<>>
        /\ line = Front(Encode(message, MaxMessageLength))
    BY <1>7, <2>1 DEF MeantInv, Waiting, Shown
  <2>4. ReceiveLine(line).message = RecordOf(meant)
    <3>1. IsAMessage(message)
      BY <1>0, <2>3, RecordOfIs
    <3>2. ReceiveLine(line) = [kind |-> "MESSAGE", message |-> message]
      BY <2>3, <3>1, SentArrives
    <3> QED
      BY <2>3, <3>2
  <2> DEFINE state == DisplayOf(RecordOf(meant), size, display.screen_locked)
  <2>5. Recompose(state) /\ CanBeShown(state)
    BY <1>0, <2>1, <2>2, <2>4, RecordCanBeShown
  <2>6. Presents(state, meant)
    BY <1>0, <1>7, RecordPresents
  <2> HIDE DEF state
  <2>7. Presents(display', meant) /\ tag' = TagOf(meant)
    BY <1>0, <1>7, <2>5, <2>6, RecomposePresents
  <2> QED
    BY <1>0, <2>1, <2>7 DEF MeantInv, Shown
<1>8. CASE ToggleLock /\ meant.page # "NONE"
  <2> DEFINE state == [display EXCEPT !.screen_locked = ~@, !.nfc_presenting = FALSE]
  <2>1. /\ line = <<>> /\ message = Initialised("DISPLAY") /\ Recompose(state)
        /\ UNCHANGED <<meant, message, line>>
    BY <1>8 DEF ToggleLock
  <2>2. Presents(display, meant)
    BY <1>0, <1>8, <2>1, RecordIsNotBlank DEF MeantInv, Waiting, Shown
  <2>3. /\ DOMAIN state = DOMAIN display /\ state.screen_locked = ~display.screen_locked
        /\ \A f \in StateFields \ {"screen_locked", "nfc_presenting"} : state[f] = display[f]
    BY <1>0 DEF CanBeShown, StateFields
  <2> HIDE DEF state
  <2>4. CanBeShown(state) /\ Presents(state, meant)
    BY <1>0, <2>2, <2>3 DEF CanBeShown, Presents, StateFields
  <2>5. Presents(display', meant) /\ tag' = TagOf(meant)
    BY <1>0, <1>8, <2>1, <2>4, RecomposePresents
  <2> QED
    BY <1>0, <2>1, <2>5 DEF MeantInv, Shown
<1>9. Send \/ Babble \/ Deliver \/ ToggleLock => UNCHANGED meant
  BY DEF Send, Babble, Deliver, ToggleLock
<1> QED
  BY <1>1, <1>2, <1>3, <1>4, <1>5, <1>6, <1>7, <1>8, <1>9 DEF Next

LEMMA MeantInvariant == Spec => []MeantInv
  BY MeantBegins, MeantStep, ShownInvariant, PTL DEF Spec

(***************************************************************************)
(* The tag of a page that is shown says what the appliance meant: a phone  *)
(* reads the network's name and key byte for byte, or the address but for  *)
(* the case of its scheme, and there is a tag unless they are too long     *)
(* (remote_ndef_build_wifi_message, remote_ndef_build_uri_message).        *)
(***************************************************************************)
THEOREM PhoneReadsTheMeaning == Spec => []PhoneReadsWhatWasMeant
<1>1. MeantInv => PhoneReadsWhatWasMeant
  <2> SUFFICES ASSUME MeantInv, display.link_connected PROVE PhoneReadsWhatWasMeant
    BY DEF PhoneReadsWhatWasMeant, PhoneJoinsTheNetworkMeant, PhoneOpensTheAddressMeant
  <2>1. meant.page # "NONE" => tag = TagOf(meant)
    BY DEF MeantInv, Waiting, Shown
  <2>2. ASSUME meant.page = "WIFI"
        PROVE  /\ (tag # NoMessage) = NetworkFits(meant)
               /\ tag # NoMessage => tag.type = "WSC" /\ ReadsAs(tag.payload, meant.ssid, meant.key)
    <3>1. /\ meant.ssid \in Seq(Character) /\ meant.key \in Seq(Character)
          /\ PayloadOf(meant) = WifiCode(meant.ssid, meant.key)
      BY <2>2 DEF MeantInv, IsAMeaning, NoMeaning
    <3>2. tag = WifiMessage(KeptText(WifiCode(meant.ssid, meant.key)))
      BY <2>1, <2>2, <3>1 DEF TagOf
    <3>3. TagSays(meant.ssid, meant.key, tag)
      BY <3>1, <3>2, TagOfANetwork
    <3> QED
      BY <3>3 DEF TagSays, NetworkFits
  <2>3. ASSUME meant.page = "GUEST"
        PROVE  /\ (tag # NoMessage) = AddressFits(meant.address)
               /\ tag # NoMessage =>
                    LET scheme == Abbreviated(tag.payload[1])
                    IN  /\ tag.type = "U"
                        /\ StartsWithCaseInsensitive(meant.address, scheme)
                        /\ Tail(tag.payload) = SubSeq(meant.address, Len(scheme) + 1, Len(meant.address))
    <3>1. meant.address \in Seq(Character) /\ PayloadOf(meant) = meant.address
      BY <2>3 DEF MeantInv, IsAMeaning, NoMeaning
    <3>2. tag = UriMessage(KeptText(meant.address))
      BY <2>1, <2>3, <3>1 DEF TagOf
    <3>3. AddressSays(meant.address, tag)
      BY <3>1, <3>2, TagOfAnAddress
    <3> QED
      BY <3>3 DEF AddressSays, AddressFits
  <2> QED
    BY <2>2, <2>3 DEF PhoneReadsWhatWasMeant, PhoneJoinsTheNetworkMeant, PhoneOpensTheAddressMeant
<1> QED
  BY <1>1, MeantInvariant, PTL

-----------------------------------------------------------------------------
(***************************************************************************)
(* The payload of every record is read as such a code or as none           *)
(* (remote_ndef_build_wifi_message).                                       *)
(***************************************************************************)
THEOREM EveryCodeIsReadWhole == Spec => []WifiScanAgrees
<1>1. LinesInv => WifiScanAgrees
  <2> SUFFICES ASSUME LinesInv, message.verb = "DISPLAY"
               PROVE  LET code == message.fields[3].text
                          scan == ParseWifiCode(code)
                      IN  /\ (scan.at = "END" /\ scan.seen = WifiKeys) = IsACode(code)
                          /\ IsACode(code) => scan.value = ReadWhole(code)
    BY DEF WifiScanAgrees
  <2>1. message.fields[3].text \in Seq(Character)
    BY DEF LinesInv, PayloadIsText
  <2> QED
    BY <2>1, ThePassReadsTheCode
<1> QED
  BY <1>1, LinesInvariant, PTL
=============================================================================
