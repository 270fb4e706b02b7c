----------------------------- MODULE RemoteNdef -----------------------------
(***************************************************************************)
(* The NFC record of a page's payload: remote_ndef.c.  A payload is a      *)
(* sequence of bytes; a record is its header's fields and the bytes of its *)
(* payload, its type named rather than spelled.                            *)
(***************************************************************************)
EXTENDS Integers, Sequences, SequencesExt, RemoteScan

CONSTANTS
  MaxSecurityTypeLength,  \* sizeof(security_type) - 1
  MaxSsidLength,          \* REMOTE_NDEF_MAX_SSID_LENGTH
  MaxNetworkKeyLength,    \* REMOTE_NDEF_MAX_NETWORK_KEY_LENGTH
  ShortRecordMaxPayload,  \* NDEF_SHORT_RECORD_MAX_PAYLOAD
  MessageCapacity         \* REMOTE_NDEF_MESSAGE_CAPACITY

ASSUME NdefAssumption ==
  /\ {MaxSecurityTypeLength, MaxSsidLength, MaxNetworkKeyLength} \subseteq Nat \ {0}
  /\ ShortRecordMaxPayload \in 0 .. 255 /\ MessageCapacity \in Nat

-----------------------------------------------------------------------------
(* The record: begin, end and short flags over the type name format.       *)
WellKnown == 1
MediaType == 2
TypeLength == [U |-> 1, WSC |-> 23]

NoMessage == [length |-> 0]

(* write_single_short_record: all of it, or an empty message.              *)
SingleShortRecord(format, type, payload) ==
  LET length == 3 + TypeLength[type] + Len(payload)
  IN  IF Len(payload) > ShortRecordMaxPayload \/ length > MessageCapacity THEN NoMessage
      ELSE [length |-> length, flags |-> 128 + 64 + 16 + format, type |-> type,
            payload_length |-> Len(payload), payload |-> payload]

-----------------------------------------------------------------------------
(* remote_ndef_build_uri_message: a scheme, in either case, becomes a code.*)
ToLower(c) == IF c \in 65 .. 90 THEN c + 32 ELSE c

Http  == <<104, 116, 116, 112, 58, 47, 47>>
Https == <<104, 116, 116, 112, 115, 58, 47, 47>>

StartsWithCaseInsensitive(text, prefix) ==
  IsPrefix(prefix, [i \in DOMAIN text |-> ToLower(text[i])])

PrefixCode(address) ==
  IF StartsWithCaseInsensitive(address, Https) THEN 4
  ELSE IF StartsWithCaseInsensitive(address, Http) THEN 3 ELSE 0

Abbreviated(code) == CASE code = 4 -> Https [] code = 3 -> Http [] OTHER -> <<>>

UriMessage(address) ==
  LET code      == PrefixCode(address)
      remainder == SubSeq(address, Len(Abbreviated(code)) + 1, Len(address))
  IN  IF address = <<>> THEN NoMessage
      ELSE SingleShortRecord(WellKnown, "U", <<code>> \o remainder)

-----------------------------------------------------------------------------
(* The Wi-Fi code: WIFI: then T, S and P with their values, in any order,  *)
(* each ended by a semicolon, and one semicolon more.  A backslash escapes *)
(* the next byte of a value.                                               *)
Semicolon == 59
Colon     == 58
Backslash == 92
WifiStart == <<87, 73, 70, 73, Colon>>
Wpa       == <<87, 80, 65>>
KeyT == 84
KeyS == 83
KeyP == 80
WifiKeys == {KeyT, KeyS, KeyP}

Room == [key \in WifiKeys |->
           CASE key = KeyT -> MaxSecurityTypeLength
             [] key = KeyS -> MaxSsidLength
             [] key = KeyP -> MaxNetworkKeyLength]

(***************************************************************************)
(* parse_wifi_code and read_escaped_value as one pass.  "at" is what the   *)
(* pass stands before: a KEY or the close, the COLON of a key, a byte of a *)
(* VALUE, an ESCAPED byte of one, the END of the payload; BAD is refused.  *)
(***************************************************************************)
StartOfCode == [at |-> "KEY", key |-> 0, seen |-> {}, value |-> [key \in WifiKeys |-> <<>>]]

ReadKey(scan, c) ==
  IF c = Semicolon THEN [scan EXCEPT !.at = "END"]
  ELSE IF c \in WifiKeys THEN [scan EXCEPT !.at = "COLON", !.key = c]
  ELSE [scan EXCEPT !.at = "BAD"]

(* Mutant: a key named again goes on with its value.                       *)
ReadColonGoingOn(scan, c) ==
  IF c # Colon THEN [scan EXCEPT !.at = "BAD"]
  ELSE [scan EXCEPT !.at = "VALUE", !.seen = @ \cup {scan.key}]

(* A key named again starts its value anew.                                *)
ReadColon(scan, c) ==
  IF c # Colon THEN [scan EXCEPT !.at = "BAD"]
  ELSE [scan EXCEPT !.at = "VALUE", !.seen = @ \cup {scan.key}, !.value[scan.key] = <<>>]

(* Mutant: one byte more than there is room for.                           *)
KeepByteTooMany(scan, c) ==
  IF Len(scan.value[scan.key]) > Room[scan.key] THEN [scan EXCEPT !.at = "BAD"]
  ELSE [scan EXCEPT !.at = "VALUE", !.value[scan.key] = Append(@, c)]

KeepByte(scan, c) ==
  IF Len(scan.value[scan.key]) >= Room[scan.key] THEN [scan EXCEPT !.at = "BAD"]
  ELSE [scan EXCEPT !.at = "VALUE", !.value[scan.key] = Append(@, c)]

ReadValue(scan, c) ==
  CASE c = Semicolon -> [scan EXCEPT !.at = "KEY"]
    [] c = Backslash -> [scan EXCEPT !.at = "ESCAPED"]
    [] OTHER         -> KeepByte(scan, c)

ReadByte(scan, c) ==
  CASE scan.at = "KEY"     -> ReadKey(scan, c)
    [] scan.at = "COLON"   -> ReadColon(scan, c)
    [] scan.at = "VALUE"   -> ReadValue(scan, c)
    [] scan.at = "ESCAPED" -> KeepByte(scan, c)
    [] OTHER               -> [scan EXCEPT !.at = "BAD"]

ParseWifiCode(payload) ==
  IF IsPrefix(WifiStart, payload)
  THEN ScanOf(ReadByte, StartOfCode, SubSeq(payload, Len(WifiStart) + 1, Len(payload)))
  ELSE [StartOfCode EXCEPT !.at = "BAD"]

(* What the code must hold before a tag is made of it.                     *)
NamesANetwork(scan) ==
  /\ scan.at = "END" /\ scan.seen = WifiKeys
  /\ scan.value[KeyT] = Wpa
  /\ scan.value[KeyS] # <<>> /\ scan.value[KeyP] # <<>>

-----------------------------------------------------------------------------
(* The Wi-Fi Simple Configuration attributes.                              *)
Credential  == 4110  \* 0x100E
Ssid        == 4165  \* 0x1045
AuthType    == 4099  \* 0x1003
NetworkKey  == 4135  \* 0x1027
Wpa2Personal == <<0, 32>>

BigEndian16(n) == <<n \div 256, n % 256>>

WscAttribute(id, value) == BigEndian16(id) \o BigEndian16(Len(value)) \o value

(* remote_ndef_build_wifi_message.                                         *)
WifiMessage(payload) ==
  LET scan == ParseWifiCode(payload)
      credential == WscAttribute(Ssid, scan.value[KeyS])
                    \o WscAttribute(AuthType, Wpa2Personal)
                    \o WscAttribute(NetworkKey, scan.value[KeyP])
      bytes == WscAttribute(Credential, credential)
  IN  IF ~NamesANetwork(scan) \/ Len(bytes) > MessageCapacity THEN NoMessage
      ELSE SingleShortRecord(MediaType, "WSC", bytes)

-----------------------------------------------------------------------------
(***************************************************************************)
(* The Wi-Fi code read as a whole rather than byte after byte.  A byte is  *)
(* escaped by an odd run of backslashes before it; the semicolons that are *)
(* not cut the code into fields, the last of which is empty and ends it.   *)
(***************************************************************************)
RunBefore(code, i) ==
  i - 1 - Max({0} \cup {j \in 1 .. i - 1 : code[j] # Backslash})

EscapedIn(code, i) == RunBefore(code, i) % 2 = 1

UnescapedValue(code, first, last) ==
  LET Keep(value, i) ==
        IF code[i] = Backslash /\ ~EscapedIn(code, i) THEN value ELSE Append(value, code[i])
  IN  ScanOf(Keep, <<>>, [k \in 1 .. last - first + 1 |-> first + k - 1])

CodeCuts(code) ==
  {Len(WifiStart)} \cup {i \in Len(WifiStart) + 1 .. Len(code) :
                          code[i] = Semicolon /\ ~EscapedIn(code, i)}

NextCut(code, cut) == Min({i \in CodeCuts(code) : i > cut})

CodeField(code, cut) ==
  [key |-> code[cut + 1], colon |-> code[cut + 2],
   value |-> UnescapedValue(code, cut + 3, NextCut(code, cut) - 1)]

FieldIsSound(code, cut) ==
  LET field == CodeField(code, cut)
  IN  /\ NextCut(code, cut) >= cut + 3
      /\ field.key \in WifiKeys /\ field.colon = Colon /\ Len(field.value) <= Room[field.key]

(* A field begins at every cut but the two that end the code; of those     *)
(* with the same key the last counts.                                      *)
CodeFields(code) == {cut \in CodeCuts(code) : cut < Len(code) - 1}

FieldsNamed(code, key) == {cut \in CodeFields(code) : code[cut + 1] = key}

IsACode(code) ==
  /\ IsPrefix(WifiStart, code) /\ {Len(code) - 1, Len(code)} \subseteq CodeCuts(code)
  /\ \A cut \in CodeFields(code) : FieldIsSound(code, cut)
  /\ \A key \in WifiKeys : FieldsNamed(code, key) # {}

ReadWhole(code) == [key \in WifiKeys |-> CodeField(code, Max(FieldsNamed(code, key))).value]
=============================================================================
