------------------------------ MODULE RemoteQr ------------------------------
(***************************************************************************)
(* How large a code a payload needs, and where its modules go: remote_qr.c *)
(* over the vendored encoder's choice of mode, version and level           *)
(* (qrcodegen.c).  Which modules are dark is left open: a code is any set  *)
(* of them.  A payload is its length and its kind, the narrowest character *)
(* set that holds it.                                                      *)
(***************************************************************************)
EXTENDS Integers

CodeKind == {"NUMERIC", "ALPHANUMERIC", "BYTE"}

CodeSize == 58              \* REMOTE_LAYOUT_QR_SIZE
QrMaxVersion == 3           \* REMOTE_QR_MAX_VERSION
PixelsPerModule == 2        \* REMOTE_QR_PIXELS_PER_MODULE
XbmRowBytes == (CodeSize + 7) \div 8

SideOf(version) == 4 * version + 17
BufferLength(version) == (SideOf(version) * SideOf(version) + 7) \div 8 + 1

Levels == 0 .. 3            \* LOW, MEDIUM, QUARTILE, HIGH
Versions == 1 .. QrMaxVersion

(* The tables' first columns, by level and version.                        *)
EccCodewordsPerBlock ==
  [level \in Levels |-> CASE level = 0 -> <<7, 10, 15>>
                          [] level = 1 -> <<10, 16, 26>>
                          [] level = 2 -> <<13, 22, 18>>
                          [] level = 3 -> <<17, 28, 22>>]

ErrorCorrectionBlocks ==
  [level \in Levels |-> CASE level \in {0, 1} -> <<1, 1, 1>>
                          [] level \in {2, 3} -> <<1, 1, 2>>]

(* Below version 7 there is no version block to leave out.                 *)
RawDataModules(version) ==
  LET alignments == version \div 7 + 2
  IN  (16 * version + 128) * version + 64
      - (IF version < 2 THEN 0 ELSE (25 * alignments - 10) * alignments - 55)

DataCodewords(version, level) ==
  RawDataModules(version) \div 8
  - EccCodewordsPerBlock[level][version] * ErrorCorrectionBlocks[level][version]

-----------------------------------------------------------------------------
(* calcSegmentBitLength: ten bits for three digits, eleven for two         *)
(* characters, eight for a byte, the last group rounded up.                *)
SegmentBits(kind, length) ==
  CASE kind = "NUMERIC"      -> (10 * length + 2) \div 3
    [] kind = "ALPHANUMERIC" -> (11 * length + 1) \div 2
    [] kind = "BYTE"         -> 8 * length

(* Of versions 1 to 9.                                                     *)
CharCountBits(kind) ==
  CASE kind = "NUMERIC" -> 10 [] kind = "ALPHANUMERIC" -> 9 [] kind = "BYTE" -> 8

(* getTotalBits; -1 when the count does not fit its own field.             *)
(* Mutant: the mode is not counted.                                        *)
TotalBitsWithoutMode(kind, length) ==
  IF length >= 2 ^ CharCountBits(kind) THEN -1 ELSE CharCountBits(kind) + SegmentBits(kind, length)

TotalBits(kind, length) ==
  IF length >= 2 ^ CharCountBits(kind) THEN -1
  ELSE 4 + CharCountBits(kind) + SegmentBits(kind, length)

FitsBuffer(kind, length) == (SegmentBits(kind, length) + 7) \div 8 <= BufferLength(QrMaxVersion)

Holds(version, level, kind, length) ==
  /\ TotalBits(kind, length) # -1
  /\ TotalBits(kind, length) <= 8 * DataCodewords(version, level)

-----------------------------------------------------------------------------
(* remote_qr_encode: version 0 for no code.                                *)
NoCode == [version |-> 0, level |-> 0, side |-> 0]

SmallestVersion(kind, length) ==
  CHOOSE version \in Versions :
    /\ Holds(version, 0, kind, length)
    /\ \A smaller \in 1 .. version - 1 : ~Holds(smaller, 0, kind, length)

(* Each level is tried in turn, and the last that holds the data is kept.  *)
BoostedLevel(version, kind, length) ==
  CHOOSE level \in Levels :
    /\ level > 0 => Holds(version, level, kind, length)
    /\ \A higher \in level + 1 .. 3 : ~Holds(version, higher, kind, length)

QrEncode(kind, length) ==
  IF \/ length = 0
     \/ ~FitsBuffer(kind, length)
     \/ \A version \in Versions : ~Holds(version, 0, kind, length)
  THEN NoCode
  ELSE LET version == SmallestVersion(kind, length)
       IN  [version |-> version, level |-> BoostedLevel(version, kind, length),
            side |-> SideOf(version)]

QrCanEncode(kind, length) == QrEncode(kind, length) # NoCode

-----------------------------------------------------------------------------
(* remote_qr_render_bitmap: the bits set in the bitmap, each by its place  *)
(* in the array, for a code of the given side with the given dark modules. *)
Origin(side) == (CodeSize - side * PixelsPerModule) \div 2

BitAt(x, y) == [byte |-> y * XbmRowBytes + x \div 8, bit |-> x % 8]

RenderBitmap(side, dark) ==
  {BitAt(Origin(side) + module[1] * PixelsPerModule + dx,
         Origin(side) + module[2] * PixelsPerModule + dy) :
     module \in dark, dx \in 0 .. PixelsPerModule - 1, dy \in 0 .. PixelsPerModule - 1}

BitmapPixelIsDark(bitmap, x, y) ==
  x \in 0 .. CodeSize - 1 /\ y \in 0 .. CodeSize - 1 /\ BitAt(x, y) \in bitmap
=============================================================================
