-------------------------- MODULE RemoteContentsMC --------------------------
(***************************************************************************)
(* The inputs TLC gives the contents.                                      *)
(***************************************************************************)
EXTENDS RemoteContents

Number(value)  == [integer |-> value, text |-> <<>>]
Characters(value) == [integer |-> 0, text |-> value]

a == 97

-----------------------------------------------------------------------------
(* Networks with and without reserved bytes, at and over the bounds of     *)
(* their names and keys, and addresses with each scheme and with none.     *)
Ssids == {<<>>, <<a>>, <<Semicolon>>, <<a, Backslash>>, <<Backslash, Semicolon>>,
          <<32, a, 32>>, <<a, a, a, a>>}
NetworkKeys == {<<>>, <<a>>, <<Backslash>>, <<34, Colon>>, <<a, 44, a, a>>, <<a, a, a, a, a>>}
Addresses == {<<>>, Http, <<72>> \o Tail(Http) \o <<49, 47>>, Https \o <<a>>,
              <<72, 84, 84, 80, 83, 58, 47, 47, a>>, SubSeq(Http, 1, 6), <<32>> \o Http}

MCMeanings ==
  {NoMeaning}
  \cup {[page |-> "WIFI", ssid |-> ssid, key |-> key] : ssid \in Ssids, key \in NetworkKeys}
  \cup {[page |-> "GUEST", address |-> address] : address \in Addresses}

-----------------------------------------------------------------------------
(* Texts that are nearly Wi-Fi codes: three pieces or fewer after a start.  *)
Pieces == {<<KeyS, Colon>>, <<KeyS, Colon, a, Semicolon>>, <<KeyP, Colon, a, Semicolon>>,
           <<a>>, <<Backslash>>, <<Semicolon>>}
Starts == {WifiStart \o <<KeyT, Colon>> \o Wpa \o <<Semicolon>>}

NearCodes ==
  {start \o FlattenSeq(pieces) : start \in Starts, pieces \in UNION {[1 .. n -> Pieces] : n \in 0 .. 3}}
  \cup {WifiStart \o <<KeyS, Colon, a, Semicolon, KeyP, Colon, a, Semicolon>> \o end :
          end \in {<<Semicolon>>, <<KeyT, Colon, a, Semicolon, Semicolon>>,
                   <<KeyT, Colon>> \o Wpa \o <<Semicolon, Semicolon>>,
                   <<KeyS, Colon, 98, Semicolon, KeyT, Colon>> \o Wpa \o <<Semicolon, Semicolon>>}}

Run(c, n) == [i \in 1 .. n |-> c]

(* Texts at the bounds of the field and of the line.                       *)
Texts == {<<>>, <<127>>, Run(a, MaxTextLength), Run(a, MaxTextLength + 1), Run(32, MaxTextLength),
          <<a>> \o Run(Percent, 20), Run(32, 16), Run(32, 17)}

DisplayDraft(status, page, payload, delivered, error) ==
  [verb |-> "DISPLAY", values |->
     <<Number(status), Number(page), Characters(payload), Number(delivered), Number(error)>>]

(* Every screen of the record: each status and page, the counts where the  *)
(* width changes, no error, a short code, the two widest.                  *)
Screens ==
  {DisplayDraft(status, page, payload, delivered, error) :
     status \in 0 .. 4, page \in 0 .. 2, payload \in {<<>>, Http \o <<a>>},
     delivered \in {0, 999, 1000}, error \in {0, 1, 14}}

Bounds ==
  {DisplayDraft(status, 2, text, delivered, error) :
     status \in {4, 5}, text \in Texts, delivered \in {0, 9999, 10000}, error \in {14, 16, 17}}

Greetings ==
  {[verb |-> "HELLO", values |-> <<Number(version), Characters(peripheral), Number(locked)>>] :
     version \in {0, 7, 65535, 65536}, locked \in 0 .. 2,
     peripheral \in {<<>>, <<a>>, <<a, 45, 57>>, <<65>>, Run(a, MaxTokenLength), Run(a, MaxTokenLength + 1)}}

Reports ==
  {[verb |-> "BUTTON", values |-> <<Number(event), Number(1), Number(1)>>] : event \in {0, 3, 4}}
  \cup {[verb |-> "STATE", values |-> <<Number(locked)>>] : locked \in 0 .. 1}

MCDrafts ==
  Screens \cup Bounds \cup Greetings \cup Reports
  \cup {DisplayDraft(1, 1, code, 0, 0) : code \in NearCodes}
  \cup {DisplayDraft(1, 1, <<a, 32>>, 11, 0)}

-----------------------------------------------------------------------------
(* Numbers that wrap, and lines at and over the length bound.              *)
HelloLine(version) ==
  <<Word("HELLO"), Space, Word("peripheral"), EqualsSign, a, Space, Word("locked"), EqualsSign, 48,
    Space, Word("version"), EqualsSign>> \o version

PayloadLine(raw) ==
  <<Word("DISPLAY"), Space, Word("status"), EqualsSign, Word("RECOVERY_REQUIRED"), Space,
    Word("page"), EqualsSign, Word("GUEST"), Space, Word("delivered"), EqualsSign>>
  \o Digits[9999] \o <<Space, Word("error"), EqualsSign, Word("BAD_VERSION"), Space,
    Word("payload"), EqualsSign>> \o raw

MCGarbage ==
  {HelloLine(Digits[version]) : version \in {UintMax, UintMax + 1, UintMax + 8, 9999999, 10000000}}
  \cup {HelloLine(<<48, 55>>), HelloLine(<<48>>), <<>>}
  \cup {PayloadLine(FlattenSeq([i \in 1 .. n |-> <<Percent, 50, 48>>]) \o Run(a, extra)) :
          n \in 15 .. 16, extra \in 0 .. 3}
  \cup {PayloadLine(Run(a, MaxTextLength + extra)) : extra \in 0 .. 1}
  \cup {PayloadLine(<<Percent, high, low>>) : high \in {48, 50, 54, 55, a}, low \in {48, 49, 70, 102, 32}}

(* One line of each verb, with every type of field, is damaged.            *)
MCFragile ==
  {Front(LineOf(Drafted(draft.verb, draft.values))) :
     draft \in {DisplayDraft(1, 1, <<a, 32>>, 11, 0),
                [verb |-> "HELLO", values |-> <<Number(7), Characters(<<a, 45, 57>>), Number(1)>>],
                [verb |-> "BUTTON", values |-> <<Number(3), Number(1), Number(1)>>],
                [verb |-> "STATE", values |-> <<Number(1)>>]}}

MCEditBytes == {a, 48, 49, Space, EqualsSign, Percent, 127}

(* Each kind at the end of what one of the versions holds, or just past it.*)
MCPayloadSizes ==
  {[kind |-> "BYTE", length |-> length] : length \in {0, 17, 53, 54}}
  \cup {[kind |-> "ALPHANUMERIC", length |-> length] : length \in {38, 78}}
  \cup {[kind |-> "NUMERIC", length |-> 127]}
=============================================================================
