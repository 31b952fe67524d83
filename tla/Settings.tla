------------------------------ MODULE Settings ------------------------------
(***************************************************************************)
(* How a node comes to its settings: config.yml (internal/conf/conf.go),   *)
(* the panel's node body (SudokuSettings.UnmarshalJSON and Normalize in    *)
(* internal/panel/client.go), the copy of it in the panel cache            *)
(* (controller.go), the configuration of the Sudoku server built from them *)
(* (internal/runtime/config.go) and the intervals of the tasks.            *)
(*                                                                         *)
(* A text is a short string that shows whether it is empty, blank, or has  *)
(* blanks around it.  Durations are integers of Width bits that wrap, as   *)
(* time.Duration does at 64.                                               *)
(*                                                                         *)
(* A definition whose comment begins with "Mutant" is a faulty variant of  *)
(* the one that follows it.                                                *)
(***************************************************************************)
EXTENDS Integers, Sequences

CONSTANTS
  Body,        \* bodies the panel may send
  File,        \* Runtime sections config.yml may have
  Width,       \* bits of a duration
  Second,      \* durations, in the model's units
  Minute,
  MaxFetches   \* bound: bodies fetched from the panel

ASSUME DurationAssumption ==
  /\ Width \in Nat \ {0}
  /\ Second \in Nat \ {0} /\ Minute \in Nat \ {0}
  /\ 2 ^ (Width - 1) \in Nat
  /\ Minute < 2 ^ (Width - 1)
  /\ MaxFetches \in Nat

\* An interval of the body; a number that a duration cannot hold has become some
\* number by the conversion.
IntervalValue == [kind : {"nil", "seconds", "other"}, n : Int]

ASSUME BodyAssumption ==
  \A b \in Body : /\ b.push \in IntervalValue /\ b.pull \in IntervalValue
                  /\ b.pushInterval = 0 /\ b.pullInterval = 0
                  /\ b.tables["_"] \in Seq(STRING) /\ b.tables["-"] \in Seq(STRING)

VARIABLES
  local,    \* RuntimeConfig after LoadFromPath, or Nothing before
  node,     \* NodeInfo the controller starts with, or Nothing
  origin,   \* where node came from: "none", "panel" or "cache"
  cache,    \* the JSON of the node in panel-cache.json, or Nothing
  server,   \* what the runtime and the tasks were started with, or Nothing
  fetches,  \* bodies fetched
  sent,     \* ghost: the last body the panel sent
  saved     \* ghost: the node that was saved last

vars == <<local, node, origin, cache, server, fetches, sent, saved>>

Nothing == [none |-> TRUE]
Absent == "absent"

-----------------------------------------------------------------------------
(* Texts.                                                                  *)

Text == {"", " ", "a", " b", "b"}

TrimSpace(t) == CASE t = " " -> ""
                  [] t = " b" -> "b"
                  [] OTHER -> t

firstNonEmpty(ts) ==
  LET set == {i \in DOMAIN ts : TrimSpace(ts[i]) # ""}
  IN  IF set = {} THEN "" ELSE TrimSpace(ts[CHOOSE i \in set : \A j \in set : i <= j])

firstNonZero(a, b) == IF a # 0 THEN a ELSE b

\* Items of a JSON array, or of a string cut at commas and blanks; any other value
\* gives no items.  Blank items are skipped.
toStringSlice(v) ==
  LET kept[n \in 0..Len(v)] ==
        IF n = 0 THEN <<>>
        ELSE IF TrimSpace(v[n]) = "" THEN kept[n - 1]
        ELSE Append(kept[n - 1], TrimSpace(v[n]))
  IN  kept[Len(v)]
firstNonEmptyStringSlice(v, w) ==
  IF toStringSlice(v) # <<>> THEN toStringSlice(v) ELSE toStringSlice(w)

-----------------------------------------------------------------------------
(* The panel's body.  A setting may be spelled with underscores ("_") or   *)
(* with hyphens ("-"), some also by an older name ("old").                 *)

Aliased == {"aead", "ascii", "custom_table", "mask_host", "path_root"}
HasOld == {"aead", "ascii", "mask_host"}
Plain == {"multiplex", "fallback_address", "suspicious_action", "mode", "mask_multiplex"}
Spelling == {"_", "-", "old"}
Padding == {"min", "max"}
Pointer == {"nil", "true", "false"}

\* Mutant: the spelling with hyphens is not read.
spelledUnderscore(f, w) == firstNonEmpty(<<w["_"], IF f \in HasOld THEN w["old"] ELSE "">>)

spelled(f, w) == firstNonEmpty(<<w["_"], w["-"], IF f \in HasOld THEN w["old"] ELSE "">>)

\* Mutant: the master keys are taken as they come.
untrimmedKey(t) == t

masterKey(t) == TrimSpace(t)

UnmarshalJSON(b) ==
  [protocol |-> b.protocol, port |-> b.port, listen |-> b.listen,
   push |-> b.push, pull |-> b.pull,
   pushInterval |-> b.pushInterval, pullInterval |-> b.pullInterval,
   public |-> masterKey(b.public), private |-> masterKey(b.private),
   text |-> [f \in Aliased |-> spelled(f, b.text[f])],
   plain |-> [f \in Plain |-> TrimSpace(b.plain[f])],
   pad |-> [p \in Padding |-> firstNonZero(b.pad[p]["_"], b.pad[p]["-"])],
   pure |-> IF b.pure["_"] # "nil" THEN b.pure["_"] ELSE b.pure["-"],
   mask |-> b.mask,
   tables |-> firstNonEmptyStringSlice(b.tables["_"], b.tables["-"])]

-----------------------------------------------------------------------------
(* Durations.                                                              *)

Half == 2 ^ (Width - 1)
MaxDuration == Half - 1
wrap(n) == ((n + Half) % (2 * Half)) - Half

\* The seconds of an interval in the body: a number, or the number a string spells
\* (0 if none).  No value, or one of another type, is 0.
seconds(v) == IF v.kind = "seconds" THEN v.n ELSE 0

intervalToDuration(v) == wrap(seconds(v) * Second)

\* Mutant: only the value zero is replaced by a minute.
intervalZero(v, d) ==
  LET i == IF v.kind # "nil" THEN intervalToDuration(v) ELSE d
  IN  IF i = 0 THEN Minute ELSE i

\* One interval in Normalize: v from base_config, d the duration decoded before.
interval(v, d) ==
  LET i == IF v.kind # "nil" THEN intervalToDuration(v) ELSE d
  IN  IF i <= 0 THEN Minute ELSE i

Accepts(n) ==
  /\ n.protocol = "sudoku"
  /\ n.port > 0
  /\ n.public # "" \/ n.private # ""

Normalize(n) ==
  [n EXCEPT !.listen = IF @ = "" THEN "0.0.0.0" ELSE @,
            !.pushInterval = interval(n.push, @),
            !.pullInterval = interval(n.pull, @)]

-----------------------------------------------------------------------------
(* The process.                                                            *)

Default(f) == CASE f = "Engine" -> "embedded"
                [] f = "WorkingDir" -> "/var/lib/v2sudoku"
                [] f = "SudokuPath" -> "/opt/v2sudoku/sudoku"
                [] f = "FallbackAddress" -> "127.0.0.1:80"
                [] f = "ClientKeySource" -> "deterministic_split"
                [] f = "ClientKeyFile" -> "/var/lib/v2sudoku/client-keys.json"

Option == {"Engine", "WorkingDir", "SudokuPath", "FallbackAddress", "ClientKeySource",
           "ClientKeyFile"}
DefaultLimit == 10000

limitOf(n) == IF n <= 0 THEN DefaultLimit ELSE n

\* What the file leaves out keeps the value of New; what it leaves empty, normalize
\* fills in.
LoadFromPath(c) ==
  /\ local = Nothing
  /\ local' = [opt |-> [f \in Option |-> IF c.opt[f] \in {Absent, ""} THEN Default(f) ELSE c.opt[f]],
               limit |-> limitOf(c.limit)]
  /\ UNCHANGED <<node, origin, cache, server, fetches, sent, saved>>

\* A body that does not decode, or that Normalize refuses, leaves no node.
GetNodeInfo(b) ==
  /\ local # Nothing /\ node = Nothing
  /\ fetches < MaxFetches
  /\ fetches' = fetches + 1
  /\ sent' = b
  /\ IF b.decodes /\ Accepts(UnmarshalJSON(b))
     THEN node' = Normalize(UnmarshalJSON(b)) /\ origin' = "panel"
     ELSE UNCHANGED <<node, origin>>
  /\ UNCHANGED <<local, cache, server, saved>>

\* Mutant: settings are written by their old names.
marshalOld(n) ==
  [n EXCEPT !.text = [f \in Aliased |-> [w \in Spelling |-> IF w = "old" THEN n.text[f] ELSE ""]],
            !.pad = [p \in Padding |-> [w \in Spelling |-> IF w = "_" THEN n.pad[p] ELSE 0]],
            !.pure = [w \in Spelling |-> IF w = "_" THEN n.pure ELSE "nil"],
            !.tables = [w \in Spelling |-> IF w = "_" THEN n.tables ELSE <<>>]]

\* json.Marshal of a node: underscores, the old names next to them, and the two
\* durations, which have no place in the panel's own bodies.
marshal(n) ==
  [n EXCEPT !.text = [f \in Aliased |->
                        [w \in Spelling |-> IF w = "_" \/ (w = "old" /\ f \in HasOld)
                                            THEN n.text[f] ELSE ""]],
            !.pad = [p \in Padding |-> [w \in Spelling |-> IF w = "_" THEN n.pad[p] ELSE 0]],
            !.pure = [w \in Spelling |-> IF w = "_" THEN n.pure ELSE "nil"],
            !.tables = [w \in Spelling |-> IF w = "_" THEN n.tables ELSE <<>>]]

savePanelSnapshot ==
  /\ node # Nothing
  /\ cache' = marshal(Normalize(node))
  /\ saved' = node
  /\ UNCHANGED <<local, node, origin, server, fetches, sent>>

readPanelSnapshot ==
  /\ local # Nothing /\ node = Nothing
  /\ cache # Nothing
  /\ Accepts(UnmarshalJSON(cache))
  /\ node' = Normalize(UnmarshalJSON(cache))
  /\ origin' = "cache"
  /\ UNCHANGED <<local, cache, server, fetches, sent, saved>>

-----------------------------------------------------------------------------
(* The server.                                                             *)

ValidScalar == {"a"}                \* private keys the library accepts
RecoverPublicKey(t) == IF t \in ValidScalar THEN "public key" ELSE ""

fallbackOf(n, l) == firstNonEmpty(<<n.plain["fallback_address"], l.opt["FallbackAddress"]>>)

\* Mutant: an address is looked for in the panel's settings only.
suspiciousPanel(n, l) ==
  IF n.plain["fallback_address"] = "" THEN "silent"
  ELSE firstNonEmpty(<<n.plain["suspicious_action"], "fallback">>)

suspiciousAction(n, l) ==
  IF fallbackOf(n, l) = "" THEN "silent"
  ELSE firstNonEmpty(<<n.plain["suspicious_action"], "fallback">>)

padding(n, p) == firstNonZero(n.pad[p], IF p = "min" THEN 5 ELSE 15)

keyOf(n) == IF TrimSpace(n.public) # "" THEN TrimSpace(n.public) ELSE RecoverPublicKey(n.private)

buildSudokuConfig(n, l) ==
  [key |-> keyOf(n),
   port |-> n.port,
   fallback |-> fallbackOf(n, l),
   action |-> suspiciousAction(n, l),
   aead |-> firstNonEmpty(<<n.text["aead"], "chacha20-poly1305">>),
   ascii |-> firstNonEmpty(<<n.text["ascii"], "prefer_entropy">>),
   pad |-> [p \in Padding |-> padding(n, p)],
   pure |-> n.pure # "false",
   mode |-> firstNonEmpty(<<n.plain["mode"], "legacy">>),
   host |-> n.text["mask_host"],
   root |-> n.text["path_root"],
   multiplex |-> firstNonEmpty(<<n.plain["mask_multiplex"], n.plain["multiplex"]>>),
   disable |-> n.mask["disable"] = "true",
   tls |-> n.mask["tls"] = "true",
   table |-> n.text["custom_table"],
   tables |-> n.tables]

Lower(t) == IF t = "External" THEN "external" ELSE t

\* Every name but "external" stands for the embedded engine.
EngineName(l) == IF Lower(TrimSpace(l.opt["Engine"])) = "external" THEN "external" ELSE "embedded"

\* Start of the server and of the tasks; without a key, or when the library rejects
\* the configuration, there is none.
startServer ==
  /\ node # Nothing /\ server = Nothing
  /\ keyOf(node) # ""
  /\ server' = [config |-> buildSudokuConfig(node, local),
                engine |-> EngineName(local),
                pull |-> node.pullInterval,
                push |-> node.pushInterval]
  /\ UNCHANGED <<local, node, origin, cache, fetches, sent, saved>>

\* The process ends and is started again.
restart ==
  /\ local # Nothing
  /\ local' = Nothing
  /\ node' = Nothing
  /\ origin' = "none"
  /\ server' = Nothing
  /\ UNCHANGED <<cache, fetches, sent, saved>>

-----------------------------------------------------------------------------

Init ==
  /\ local = Nothing
  /\ node = Nothing
  /\ origin = "none"
  /\ cache = Nothing
  /\ server = Nothing
  /\ fetches = 0
  /\ sent = Nothing
  /\ saved = Nothing

Next ==
  \/ \E c \in File : LoadFromPath(c)
  \/ \E b \in Body : GetNodeInfo(b)
  \/ savePanelSnapshot
  \/ readPanelSnapshot
  \/ startServer
  \/ restart

Spec == Init /\ [][Next]_vars

-----------------------------------------------------------------------------
(* Properties.                                                             *)

Duration == 1..MaxDuration

\* A node that starts from the cache has the settings it saved, although they went
\* through JSON and through the aliases and defaults a second time.
CacheFaithful ==
  origin = "cache" => node = saved

\* A timer that is not positive would fire without end: whatever the panel sends,
\* with overflow and all, the intervals are positive, and one that can be expressed
\* is taken as it is.
IntervalsUsable ==
  node # Nothing =>
    \A p \in {<<node.push, node.pushInterval>>, <<node.pull, node.pullInterval>>} :
      /\ p[2] \in Duration
      /\ p[1].kind = "seconds" /\ p[1].n * Second \in Duration => p[2] = p[1].n * Second

\* Connections that fail the handshake are passed on (PassThroughOnReject in
\* handleConn) as the panel says, to its address or to the one of config.yml: the
\* server never falls back without an address, blank or missing, and is silenced
\* against the panel's wish only if neither source has one.
FallbackHonoured ==
  server # Nothing =>
    /\ server.config.action = "fallback" => TrimSpace(server.config.fallback) # ""
    /\ server.config.action # firstNonEmpty(<<node.plain["suspicious_action"], "fallback">>) =>
         TrimSpace(node.plain["fallback_address"]) = "" /\ TrimSpace(local.opt["FallbackAddress"]) = ""

\* A node that Normalize accepts has a key to build its server from: what it takes
\* for a key is still one after buildSudokuConfig has trimmed it.
AcceptedHasKey ==
  node # Nothing => TrimSpace(node.public) # "" \/ TrimSpace(node.private) # ""

SpellingsOf(f) == IF f \in HasOld THEN Spelling ELSE {"_", "-"}

\* A setting that the panel gives in one spelling reaches the node, whichever of its
\* spellings it is.
EverySpelling ==
  origin = "panel" =>
    /\ \A f \in Aliased : \A w \in SpellingsOf(f) :
         (\A o \in SpellingsOf(f) \ {w} : TrimSpace(sent.text[f][o]) = "") =>
            node.text[f] = TrimSpace(sent.text[f][w])
    /\ \A p \in Padding, w, o \in {"_", "-"} :
         w # o /\ sent.pad[p][o] = 0 => node.pad[p] = sent.pad[p][w]
    /\ \A w, o \in {"_", "-"} :
         w # o /\ sent.pure[o] = "nil" => node.pure = sent.pure[w]

=============================================================================
