------------------------------- MODULE MCParts -------------------------------
(***************************************************************************)
(* The parts of the extensions that run on their own, each on a small      *)
(* instance: the key-value and document drivers, the object trees of the   *)
(* SQL drivers, the importers, and the parts of the RDP helper beside the  *)
(* display (the backlog of deltas alone, files copied on the server, files *)
(* copied on the host, what either side accepts as a list of files).  They *)
(* share no state, so the run explores one part at a time: `part' says     *)
(* which, and the variables of the others are off.                         *)
(***************************************************************************)
EXTENDS StoreDrivers, SchemaRequests, SessionImports, SecureCrtImport, RdpBacklog,
        RdpClipboard, RdpClipShare

CONSTANT Parts

VARIABLE part

Off == "off"

RedisOff ==
    rdCached = Off /\ rdReq = Off /\ rdLast = Off /\ rdSeen = Off /\ rdResult = Off /\
    rdAsked = Off /\ rdFaults = Off /\ rdStream = Off /\ rdTask = Off /\ rdQueue = Off /\
    rdSubs = Off /\ rdWire = Off /\ rdChan = Off /\ rdDropped = Off /\ rdDrained = Off /\
    rdGot = Off /\ rdLost = Off /\ rdTaken = Off /\ rdPublished = Off
MongoOff ==
    mgDriver = Off /\ mgServer = Off /\ mgOpen = Off /\ mgUri = Off /\ mgTried = Off /\
    mgDocs = Off /\ mgFind = Off /\ mgBlobs = Off /\ mgNextBlob = Off /\ mgGot = Off /\
    mgDone = Off /\ mgResults = Off
DuckTreeOff == dcObjects = Off
TdTreeOff ==
    tcTables = Off /\ tcServer = Off /\ tcHand = Off /\ tcSteady = Off /\ tcSeen = Off /\
    tcMoves = Off
TreesOff ==
    srDriver = Off /\ srObjects = Off /\ srCurrent = Off /\ srHand = Off /\ srTouched = Off /\ srSeen = Off
HexhubOff == hhDisk = Off /\ hhScan = Off /\ hhReport = Off
MobaxtermOff == mxCandidates = Off /\ mxScanned = Off /\ mxReport = Off
OpensshOff == osFiles = Off /\ osRecords = Off
SecureCrtOff == scCandidates = Off /\ scScanned = Off /\ scReport = Off
SecureCrtXmlOff ==
    sxDocument = Off /\ sxAt = Off /\ sxStack = Off /\ sxField = Off /\ sxIgnored = Off /\
    sxRecords = Off /\ sxWarnings = Off /\ sxTooDeep = Off /\ sxCount = Off /\ sxState = Off

BacklogOff ==
    control = Off /\ latest_frame = Off /\ pending_deltas = Off /\ sender_count = Off /\
    receiver_alive = Off /\ desktop = Off /\ shown = Off /\ sends = Off
RemoteFilesOff ==
    ccClips = Off /\ ccLocks = Off /\ ccUp = Off /\ ccDown = Off /\ ccOpen = Off /\
    ccPending = Off /\ ccTransfer = Off /\ ccWaiting = Off /\ ccSequence = Off /\
    ccStream = Off /\ ccRecent = Off /\ ccStep = Off /\ ccDirs = Off /\ ccEvents = Off /\
    ccCancelled = Off /\ ccMuted = Off /\ ccFaulty = Off
LocalFilesOff ==
    shDisk = Off /\ shText = Off /\ shLocal = Off /\ shLocked = Off /\ shMain = Off /\
    shSession = Off /\ shAdvert = Off /\ shOffered = Off /\ shEdited = Off /\
    shCancelled = Off /\ shAsked = Off /\ shAnswers = Off /\ shLate = Off /\ shOpen = Off
LayoutOff == lyTree = Off /\ lyList = Off

PartsInit ==
    /\ part \in Parts
    /\ IF part = "redis" THEN RdInit ELSE RedisOff
    /\ IF part = "mongo" THEN MgInit ELSE MongoOff
    /\ IF part = "duck_tree" THEN DcInit ELSE DuckTreeOff
    /\ IF part = "td_tree" THEN TcInit ELSE TdTreeOff
    /\ IF part = "trees" THEN SrInit ELSE TreesOff
    /\ IF part = "hexhub" THEN HhInit ELSE HexhubOff
    /\ IF part = "mobaxterm" THEN MxInit ELSE MobaxtermOff
    /\ IF part = "openssh" THEN OsInit ELSE OpensshOff
    /\ IF part = "securecrt" THEN ScInit ELSE SecureCrtOff
    /\ IF part = "securecrt_xml" THEN SxInit ELSE SecureCrtXmlOff
    /\ IF part = "backlog" THEN Init ELSE BacklogOff
    /\ IF part = "remote_files" THEN CcInit ELSE RemoteFilesOff
    /\ IF part = "local_files" THEN ShInit ELSE LocalFilesOff
    /\ IF part = "layout" THEN LyInit ELSE LayoutOff

\* The other parts rest.
Resting ==
    /\ IF part = "redis" THEN TRUE ELSE UNCHANGED rdVars
    /\ IF part = "mongo" THEN TRUE ELSE UNCHANGED mgVars
    /\ IF part = "duck_tree" THEN TRUE ELSE UNCHANGED dcVars
    /\ IF part = "td_tree" THEN TRUE ELSE UNCHANGED tcVars
    /\ IF part = "trees" THEN TRUE ELSE UNCHANGED srVars
    /\ IF part = "hexhub" THEN TRUE ELSE UNCHANGED hhVars
    /\ IF part = "mobaxterm" THEN TRUE ELSE UNCHANGED mxVars
    /\ IF part = "openssh" THEN TRUE ELSE UNCHANGED osVars
    /\ IF part = "securecrt" THEN TRUE ELSE UNCHANGED scVars
    /\ IF part = "securecrt_xml" THEN TRUE ELSE UNCHANGED sxVars
    /\ IF part = "backlog" THEN TRUE ELSE UNCHANGED vars
    /\ IF part = "remote_files" THEN TRUE ELSE UNCHANGED ccVars
    /\ IF part = "local_files" THEN TRUE ELSE UNCHANGED shVars
    /\ IF part = "layout" THEN TRUE ELSE UNCHANGED lyVars

PartsNext ==
    /\ UNCHANGED part /\ Resting
    /\ \/ part = "redis" /\ RdNext
       \/ part = "mongo" /\ MgNext
       \/ part = "duck_tree" /\ DcNext
       \/ part = "td_tree" /\ TcNext
       \/ part = "trees" /\ SrNext
       \/ part = "hexhub" /\ HhNext
       \/ part = "mobaxterm" /\ MxNext
       \/ part = "openssh" /\ openssh_preview
       \/ part = "securecrt" /\ ScNext
       \/ part = "securecrt_xml" /\ SxNext
       \/ part = "backlog" /\ Next
       \/ part = "remote_files" /\ CcNext
       \/ part = "local_files" /\ ShNext
       \/ part = "layout" /\ LyNext

partsVars == <<part, rdVars, mgVars, dcVars, tcVars, srVars, hhVars, mxVars, osVars, scVars,
               sxVars, vars, ccVars, shVars, lyVars>>

PartsSpec == PartsInit /\ [][PartsNext]_partsVars
-------------------------------------------------------------------------------
(* Properties *)

(* Redis and MongoDB: a write is applied at most once although pipelines   *)
(* are retried, messages read, dropped and waiting add up; credentials are *)
(* shown only to the databases the user named or to admin, and a result    *)
(* put into a blob arrives whole.                                          *)
StoresSafe ==
    /\ part = "redis" => RedisSafe
    /\ part = "mongo" => MongoSafe


(* Importers: every record has a session behind it, and every session that *)
(* can be used and was read has a record; HexHub and SecureCRT tell what    *)
(* they leave out, MobaXterm only the sessions of other types.  Secrets are *)
(* their owner's, a jump server is the session it names wherever that is    *)
(* listed, HexHub's records keep the order of the rows, and the OpenSSH     *)
(* records connect as ssh would where the file leaves ssh no choice.        *)
ImportersSafe ==
    /\ part = "hexhub" => HexHubSafe
    /\ part = "mobaxterm" => MobaSafe
    /\ part = "openssh" => OpenSshSafe
    /\ part = "securecrt" => SecureCrtSafe
    /\ part = "securecrt_xml" => SxRecordsAreTrue

(* The backlog of deltas (rdp-helper/src/output_mailbox.rs): merging,      *)
(* splitting and folding lose no pixel, leave no overlap inside an event,  *)
(* and keep every event within the cap.                                    *)
BacklogSafe ==
    part = "backlog" => BacklogRestoresPicture /\ EventsCarryEachCellOnce /\ EventsStayWithinCap

(* Files copied on the server (clipboard/): a transfer reported ready is   *)
(* whole, each one ends once, none leaves a staging directory behind, and  *)
(* text that replaces files arrives.                                       *)
RemoteClipboardSafe == part = "remote_files" => RdpClipboardSafe

(* Files copied on the host: a lock reads the files as they were offered,  *)
(* a cancelled transfer answers at most the request being read, the server *)
(* is shown the last offer; a list that is accepted can be staged, and     *)
(* what is offered would be accepted on the other side.                    *)
LocalClipboardSafe ==
    /\ part = "local_files" => RdpClipShareSafe
    /\ part = "layout" => RdpClipLayoutSafe
-------------------------------------------------------------------------------
(* The instance *)

MCPipelines == {<<"read">>, <<"write">>, <<"read", "write">>, <<"write", "write">>}

MCUri(srv, tls, user, source, path) ==
    [srv |-> srv, tls |-> tls, user |-> user, authSource |-> source, path |-> path]
MCUris == {MCUri(FALSE, FALSE, TRUE, "none", "app"), MCUri(FALSE, FALSE, TRUE, "app", "none"),
           MCUri(TRUE, TRUE, TRUE, "none", "none"), MCUri(FALSE, FALSE, FALSE, "none", "app")}
MCServers == {[version |-> 40, says |-> TRUE, home |-> "admin", tls |-> FALSE, up |-> TRUE],
              [version |-> 50, says |-> TRUE, home |-> "app", tls |-> FALSE, up |-> TRUE],
              [version |-> 40, says |-> FALSE, home |-> "admin", tls |-> TRUE, up |-> TRUE],
              [version |-> 50, says |-> TRUE, home |-> "admin", tls |-> FALSE, up |-> TRUE]}

(* HexHub: one asset of every kind, and the references between them.       *)
MCForm == [host |-> "", user |-> "", password |-> "", auth |-> "", pairId |-> "", keyId |-> "",
           privateKey |-> "", jump |-> "", proxy |-> FALSE, engine |-> "", tunnel |-> FALSE, cmd |-> ""]
MCAsset(id, type, data) ==
    [id |-> id, type |-> type, dir |-> "d", name |-> "n", deleted |-> FALSE, data |-> data]
MCLinked ==
    {MCAsset("s", "ssh", [MCForm EXCEPT !.host = "h", !.password = "c1"]),
     MCAsset("t", "ssh", [MCForm EXCEPT !.host = "g", !.auth = "key", !.keyId = "k", !.jump = "s"]),
     MCAsset("u", "ssh", [MCForm EXCEPT !.host = "f", !.auth = "pair", !.pairId = "p", !.jump = "t"]),
     MCAsset("", "ssh", [MCForm EXCEPT !.host = "x", !.auth = "none", !.password = "c1", !.jump = "s"]),
     MCAsset("k", "key", [MCForm EXCEPT !.privateKey = "c1", !.password = "raw"]),
     MCAsset("p", "pair", [MCForm EXCEPT !.user = "root", !.password = "raw"]),
     MCAsset("s", "ssh", NoData)}
MCAssets ==
    MCLinked \cup
    {MCAsset("v", "ssh", [MCForm EXCEPT !.host = "e", !.auth = "key", !.privateKey = "c2", !.proxy = TRUE]),
     MCAsset("", "ssh", [MCForm EXCEPT !.host = "y", !.auth = "agent", !.jump = "w"]),
     MCAsset("w", "ssh", [MCForm EXCEPT !.password = "c1", !.auth = "server"]),
     MCAsset("k2", "key", NoData),
     MCAsset("d", "db", [MCForm EXCEPT !.engine = "tidb", !.password = "raw", !.tunnel = TRUE]),
     MCAsset("e", "db", [MCForm EXCEPT !.engine = "dameng"]),
     MCAsset("r", "redis", [MCForm EXCEPT !.password = "raw"]),
     MCAsset("q", "quick", [MCForm EXCEPT !.cmd = "ls"]),
     MCAsset("q2", "quick", MCForm),
     MCAsset("f", "folder", MCForm),
     [MCAsset("z", "ssh", MCForm) EXCEPT !.deleted = TRUE]}
MCExport(assets) == [readable |-> TRUE, json |-> TRUE, listed |-> TRUE, assets |-> assets]
MCExports == UNION {[1..n -> MCAssets] : n \in 0..2} \cup [1..3 -> MCLinked]
MCHhCandidates == <<"a", "b", "a">>
MCHhDisks == {[x \in {"a", "b"} |-> IF x = "a" THEN MCExport(s) ELSE Unread] : s \in MCExports}
MCHhRewrites ==
    {Unread, [MCExport(<<>>) EXCEPT !.json = FALSE], [MCExport(<<>>) EXCEPT !.listed = FALSE],
     MCExport(<<MCAsset("d", "db", [MCForm EXCEPT !.engine = "mysql", !.password = "raw"])>>)}
MCHhPlain == [x \in {"c1", "c2"} |-> IF x = "c1" THEN "p1" ELSE "obj"]
MCHhObjects == [x \in {"obj"} |-> [privateKey |-> "c1", password |-> ""]]

(* MobaXterm: lines of an ini file with every place a password may be in.  *)
MCLine == [section |-> "", key |-> "", standard |-> FALSE, type |-> "", host |-> "", user |-> "",
           port |-> "", scheme |-> "", inline |-> NoCipher, cipher |-> NoCipher]
MCCipher(by, owner, plain) == [by |-> by, owner |-> owner, plain |-> plain]
MCSession(section, key, user) ==
    [MCLine EXCEPT !.section = section, !.key = key, !.standard = TRUE, !.type = "ssh", !.host = "h",
                   !.user = user, !.port = "ssh22"]
MCPassword(scheme, user, cipher) ==
    [MCLine EXCEPT !.section = "Passwords", !.scheme = scheme, !.user = user, !.host = "h",
                   !.cipher = cipher]
MCCredential(cipher) == [MCLine EXCEPT !.section = "Credentials", !.user = "u", !.cipher = cipher]
MCMisc(key) == [MCLine EXCEPT !.section = "Misc", !.key = key]
MCLines ==
    {MCSession("Bookmarks", "n", "u"), MCSession("Bookmarks_1", "n", ""), MCSession("Bookmarks", "v", "v"),
     [MCSession("", "m", "u") EXCEPT !.inline = MCCipher("session", <<>>, "pi")],
     [MCSession("Bookmarks", "r", "u") EXCEPT !.type = "rdp"],
     [MCSession("Bookmarks", "o", "u") EXCEPT !.host = ""],
     [MCSession("Bookmarks", "l", "u") EXCEPT !.standard = FALSE],
     MCPassword("", "u", MCCipher("session", <<>>, "p1")),
     MCPassword("ssh2222", "u", MCCipher("connection", <<"u", "h">>, "p2")),
     MCPassword("ssh22", "v", MCCipher("session", <<>>, "p3")),
     MCPassword("ssh", "u", MCCipher("damaged", <<>>, "p4")),
     MCCredential(MCCipher("session", <<>>, "p5")), MCCredential(MCCipher("session", <<>>, "p6")),
     [MCLine EXCEPT !.section = "SessPass"]}
MCHead == <<MCMisc("account"), MCMisc("computer"), MCMisc("sessionp")>>
MCIni == {MCHead \o t : t \in UNION {[1..n -> MCLines] : n \in 1..3}}
MCSmallIni == {<<>>, <<MCMisc("registry"), MCSession("Bookmarks", "n", "u")>>}
MCFile(path, depth, lines) ==
    [path |-> path, depth |-> depth, supported |-> TRUE, text |-> TRUE, lines |-> lines]
MCSmallFiles == {MCFile("e", 1, u) : u \in MCSmallIni}
                \cup {[MCFile("e", 1, u) EXCEPT !.text = FALSE] : u \in MCSmallIni}
MCMxCandidates ==
    {<<[directory |-> FALSE, files |-> <<MCFile("a", 0, t)>>]>> : t \in MCIni}
    \cup {<<[directory |-> TRUE, files |-> <<MCFile("d", 0, t), u, MCFile("f", 2, t)>>],
            [directory |-> FALSE, files |-> <<MCFile("b", 0, t)>>]>> :
              t \in {x \in MCIni : Len(x) <= 5}, u \in MCSmallFiles}
MCSchemes == <<"ssh2222", "ssh22", "ssh", "">>

(* OpenSSH: configs of up to four lines, and known_hosts beside them.      *)
MCSsh == [key |-> "", value |-> "", names |-> <<>>, port |-> 0, endpoints |-> <<>>]
MCHost(names) == [MCSsh EXCEPT !.key = "host", !.names = names]
MCValue(key, value) == [MCSsh EXCEPT !.key = key, !.value = value]
MCSshLines ==
    {MCHost(<<"a">>), MCHost(<<"b", "*">>), MCHost(<<"*">>), MCHost(<<"a", "b">>),
     MCValue("hostname", "h"), MCValue("hostname", "g"), MCValue("user", "u"),
     [MCSsh EXCEPT !.key = "port", !.port = 2222], [MCSsh EXCEPT !.key = "port"],
     MCValue("identityfile", "k"), MCValue("identityfile", "j"), MCValue("match", "x")}
MCEndpoints == {<<<<"h", 22>>, NoEndpoint>>, <<<<"a", 22>>, <<"h", 2222>>>>, <<<<"h", 22>>>>}
MCKnownLines == {[MCSsh EXCEPT !.endpoints = e] : e \in MCEndpoints}
MCKnown == {[known |-> TRUE, lines |-> <<x, y>>] : x, y \in MCKnownLines}
MCConfigs == {[known |-> FALSE, lines |-> s] : s \in UNION {[1..n -> MCSshLines] : n \in 1..4}}
MCShort == {c \in MCConfigs : Len(c.lines) <= 2}
MCOsFiles == {<<c>> : c \in MCConfigs} \cup (MCShort \X MCKnown) \cup (MCKnown \X MCShort)
MCSlugs == [x \in {"a", "b"} |-> "a"]

(* SecureCRT: sessions and credentials beside each other, and directories. *)
MCScNames ==
    [n \in {"a.ini", "b.ini", "dep.ini", "default.ini", "buttonbar.ini", "__commands__.ini",
            "__folderdata__.ini", "x.xml", "notes", "p", "q", "..", "Sessions", "Credentials",
            "Commands"} |->
        [stem |-> CASE n = "dep.ini" -> "dep" [] n = "a.ini" -> "a" [] n = "b.ini" -> "b"
                    [] n = "buttonbar.ini" -> "bar" [] OTHER -> n,
         extension |-> CASE n = "x.xml" -> "xml"
                         [] n \in {"notes", "p", "q", "..", "Sessions", "Credentials", "Commands"} -> ""
                         [] OTHER -> "ini"]]
MCScCiphers ==
    [c \in {"c1", "c2", "c3", "c4"} |->
        CASE c = "c1" -> [version |-> "v1", by |-> "", plain |-> "p1"]
          [] c = "c2" -> [version |-> "02", by |-> "", plain |-> "p2"]
          [] c = "c3" -> [version |-> "03", by |-> "mine", plain |-> "p3"]
          [] c = "c4" -> [version |-> "09", by |-> "", plain |-> "p4"]]
MCScEmpty == [decodes |-> TRUE, form |-> ScForm, folders |-> <<>>, buttons |-> <<>>, exported |-> <<>>]
MCSsh2 == [ScForm EXCEPT !.proto = "ssh2", !.host = "h"]
MCScForms ==
    {[MCSsh2 EXCEPT !.pwv2 = v, !.title = t, !.identity = k, !.pw = w] :
        v \in {"", "c2", "c3"}, t \in {"", "dep"}, k \in {"", "key"}, w \in {"", "c1"}}
    \cup {ScForm, [ScForm EXCEPT !.proto = "telnet", !.host = "h"], [MCSsh2 EXCEPT !.host = ""],
          [MCSsh2 EXCEPT !.ports.own = "bad", !.ports.any = "2222"], [MCSsh2 EXCEPT !.ports.any = "2222"],
          [MCSsh2 EXCEPT !.pwv2 = "c4"], [MCSsh2 EXCEPT !.pwv2 = "text"]}
MCScCredentials ==
    {[ScForm EXCEPT !.user = u, !.pwv2 = v, !.pw = w] : u \in {"", "u"}, v \in {"", "c2", "c3"}, w \in {"", "c1"}}
MCOfForm(form) == [MCScEmpty EXCEPT !.form = form]
MCScButtons == <<[group |-> "", action |-> "SEND", command |-> "ls"], [group |-> "g", action |-> "", command |-> ""],
                 [group |-> "", action |-> "MENU", command |-> "x"], [group |-> "", action |-> "SEND", command |-> ""],
                 [group |-> "", action |-> "SEND", command |-> "ps"]>>
MCScPicked(path, data) == [path |-> path, dir |-> FALSE, ok |-> TRUE, data |-> data, entries |-> <<>>]
MCScEntry(path, dir, ok, data) == [path |-> path, dir |-> dir, ok |-> ok, data |-> data]
MCScWalked(path, entries) == [path |-> path, dir |-> TRUE, ok |-> TRUE, data |-> MCScEmpty, entries |-> entries]
MCScTree(ok, deep, form) ==
    <<MCScEntry(<<"Commands">>, TRUE, TRUE, MCScEmpty),
      MCScEntry(<<"Commands", "p">>, TRUE, TRUE, MCScEmpty),
      MCScEntry(<<"Commands", "p", "__commands__.ini">>, FALSE, TRUE, [MCScEmpty EXCEPT !.buttons = MCScButtons]),
      MCScEntry(<<"Sessions">>, TRUE, ok, MCScEmpty),
      MCScEntry(<<"Sessions", "..">>, FALSE, TRUE, MCScEmpty),
      MCScEntry(<<"Sessions", "__folderdata__.ini">>, FALSE, TRUE, [MCScEmpty EXCEPT !.folders = <<<<"p", "q">>, <<"..">>, <<"q">>>>]),
      MCScEntry(<<"Sessions", "p">>, TRUE, TRUE, MCScEmpty),
      MCScEntry(<<"Sessions", "p", "a.ini">>, FALSE, deep, MCOfForm(form)),
      MCScEntry(<<"Sessions", "p", "default.ini">>, FALSE, TRUE, MCOfForm(form)),
      MCScEntry(<<"Sessions", "p", "q">>, TRUE, TRUE, MCScEmpty),
      MCScEntry(<<"Sessions", "p", "q", "b.ini">>, FALSE, TRUE, MCOfForm(form))>>
MCScBelow(tree) ==
    LET mine == SelectSeq(tree, LAMBDA e : e.path[1] = "Sessions" /\ Len(e.path) > 1)
    IN  [i \in DOMAIN mine |-> [mine[i] EXCEPT !.path = Tail(@)]]
MCScCandidates ==
    {<<MCScPicked(<<"Sessions", "a.ini">>, MCOfForm(s)), MCScPicked(<<"Credentials", "dep.ini">>, MCOfForm(c))>> :
        s \in MCScForms, c \in MCScCredentials}
    \cup {<<MCScPicked(<<"Sessions", "p", "a.ini">>, MCOfForm(s)), MCScPicked(<<"Sessions", "a.ini">>, [MCOfForm(s) EXCEPT !.decodes = d])>> :
        s \in MCScForms, d \in BOOLEAN}
    \cup UNION {{<<MCScWalked(<<"u", "Config">>, MCScTree(ok, deep, s))>>,
           <<MCScWalked(<<"Config", "Sessions">>, MCScBelow(MCScTree(ok, deep, s))),
             MCScWalked(<<"u", "Config">>, MCScTree(ok, deep, s)), MCScPicked(<<"notes">>, MCScEmpty)>>} :
        s \in {MCSsh2, ScForm}, ok \in BOOLEAN, deep \in BOOLEAN}
MCScPaths ==
    <<<<"Commands", "p", "__commands__.ini">>, <<"Credentials", "dep.ini">>, <<"Sessions", "__folderdata__.ini">>,
      <<"Sessions", "a.ini">>, <<"Sessions", "p", "a.ini">>, <<"Sessions", "p", "q", "b.ini">>, <<"p">>, <<"p", "q">>>>
MCScRank == [path \in ToSet(MCScPaths) |-> CHOOSE i \in DOMAIN MCScPaths : MCScPaths[i] = path]

(* An export of SecureCRT: keys in keys, fields in both.                   *)
MCEvent(event, name, value) == [event |-> event, name |-> name, value |-> value]
MCFull(name, value) == <<MCEvent("field", name, ""), MCEvent("text", name, value), MCEvent("end_field", "", "")>>
MCKey(name, body) == <<MCEvent("key", name, "")>> \o body \o <<MCEvent("end_key", "", "")>>
MCSxFields == {MCFull("host", "h"), MCFull("proto", "ssh2"), MCFull("function", "SEND"), MCFull("command", "c"),
               <<MCEvent("empty", "host", "")>>}
MCSxFlatFields == {MCFull("k/name", "n"), MCFull("k/function", "SEND"), MCFull("k/command", "c")}
MCBodies(units, n) == {FlattenSeq(s) : s \in UNION {[1..m -> units] : m \in 0..n}}
MCSxInner == {MCKey(name, b) : name \in {"k", "Sessions"}, b \in MCBodies(MCSxFields, 2)}
MCSxOuter == {MCKey("k", b) : b \in MCBodies(MCSxFields \cup MCSxInner, 2)}
             \cup {MCKey("k", b) : b \in MCBodies(MCSxFlatFields, 3)}
             \cup {MCKey("k", MCFull("host", "h") \o MCFull("proto", "ssh2") \o z) : z \in MCSxInner}
MCSxDocuments == {MCKey(name, b) : name \in {"Sessions", "Button Bar", "k"}, b \in MCSxOuter}
MCSxFlat == [n \in {"k/name"} |-> [key |-> "k", function |-> "k/function", command |-> "k/command"]]
MCSxCreds == [t \in {} |-> 0]

(* RDP *)
\* The same two values serve as colours, as table names and as files, each in its own part.
ColorSymmetry == Permutations(Colors)

MCEntry(size, advertised) == [size |-> size, advertised |-> advertised]
MCLists == {<<>>, <<MCEntry(0, {}), MCEntry(2, {2})>>, <<MCEntry(2, {}), MCEntry(2, {0})>>}
MCFileNames == << <<"a", "u">>, <<"a", "l">> >>
MCBadNames == {<<"bad", "l">>}
MCUnits == [n \in ToSet(MCFileNames) \cup MCBadNames |-> IF n = <<"a", "l">> THEN 2 ELSE 1]
===============================================================================
