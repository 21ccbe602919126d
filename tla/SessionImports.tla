---------------------------- MODULE SessionImports ----------------------------
(***************************************************************************)
(* Three importers, which share nothing: HexHub, MobaXterm and OpenSSH.    *)
(***************************************************************************)
EXTENDS Naturals, Sequences, FiniteSets, Bags, SequencesExt, FiniteSetsExt

-------------------------------------------------------------------------------
(***************************************************************************)
(* The HexHub importer: it reads HexHub's asset exports and turns them     *)
(* into import records for the host, twice: once to announce how many      *)
(* there are (scan) and once to hand them over (preview), with or without  *)
(* the passwords the user saved.  An export is a list of assets; an SSH    *)
(* session refers to other assets of the same export: a private key, a     *)
(* shared account, another session as its jump server.                     *)
(*                                                                         *)
(* "" is an absent or blank text, NoData a model that cannot be parsed.    *)
(***************************************************************************)

CONSTANTS HhCandidates,  \* the paths the host lists, in order, repeats included
          HhDisks,       \* the contents those paths can have at the start
          HhRewrites,    \* the contents an export may be replaced by
          HhPlain,       \* stored text -> plaintext, for the texts that decrypt
          HhObjects      \* plaintext -> key model, for the texts that are one

VARIABLES hhDisk,        \* path -> content
          hhScan,        \* what the last scan answered, still true of the disk
          hhReport       \* the last preview
hhVars == <<hhDisk, hhScan, hhReport>>

NoData == [none |-> TRUE]
NoKey == [none |-> TRUE]
NoJump == [none |-> TRUE]
Unread == [readable |-> FALSE]
NotScanned == [scanned |-> FALSE]
NoReport == [shown |-> FALSE]

-----------------------------------------------------------------------------
(* The container.                                                          *)

\* An asset without an id is known by its type, directory and name.
asset_entry(a) ==
    [id   |-> IF a.id # "" THEN <<a.id>> ELSE <<a.type, a.dir, a.name>>,
     type |-> a.type, name |-> a.name, dir |-> a.dir, data |-> a.data]

\* Rows that are not objects, are marked deleted or have no type are dropped.
parse(content) ==
    LET kept == SelectSeq(content.assets, LAMBDA a : ~a.deleted /\ a.type # "")
    IN  [i \in DOMAIN kept |-> asset_entry(kept[i])]

-----------------------------------------------------------------------------
(* Secrets.                                                                *)

decrypt_secret(stored) == IF stored \in DOMAIN HhPlain THEN HhPlain[stored] ELSE ""

plain_or_raw(stored) ==
    LET plain == decrypt_secret(stored) IN IF plain # "" THEN plain ELSE stored

resolve_secret(stored, include) ==
    IF stored = "" \/ ~include THEN "" ELSE plain_or_raw(stored)

password_status(present, included) ==
    CASE included -> "included" [] present -> "unsupported" [] OTHER -> "missing"

private_key_from_object(object, include) ==
    [material   |-> resolve_secret(object.privateKey, include),
     passphrase |-> resolve_secret(object.password, include)]

\* The stored text is a key, or the whole key model, encrypted.
inline_private_key(stored, include) ==
    LET plain == plain_or_raw(stored)
    IN  CASE stored = ""               -> NoKey
          [] plain \in DOMAIN HhObjects -> private_key_from_object(HhObjects[plain], include)
          [] OTHER -> [material |-> IF include THEN plain ELSE "", passphrase |-> ""]

-----------------------------------------------------------------------------
(* Sessions.                                                               *)

\* The models of the assets of a type, by id; a later asset of the same id wins.
ById(entries, type) ==
    LET at(id) == {i \in DOMAIN entries : entries[i].type = type /\ entries[i].id = id
                                             /\ entries[i].data # NoData}
        ids == {entries[i].id : i \in DOMAIN entries}
    IN  [id \in {x \in ids : at(x) # {}} |-> entries[Max(at(id))].data]

collect_aux(entries, include) ==
    LET keys == ById(entries, "key")
    IN  [keys  |-> [id \in DOMAIN keys |-> private_key_from_object(keys[id], include)],
         pairs |-> ById(entries, "pair")]

ByPassword(secret) == [method |-> "password", secret |-> secret, passphrase |-> ""]

Login(user, auth, status, warnings) ==
    [user |-> user, auth |-> auth, status |-> status, warnings |-> warnings]

resolve_key_auth(data, aux, include) ==
    LET key == IF <<data.keyId>> \in DOMAIN aux.keys THEN aux.keys[<<data.keyId>>]
               ELSE inline_private_key(data.privateKey, include)
        Without(warnings) == Login(data.user, ByPassword(""), "unsupported", warnings)
    IN  CASE key = NoKey         -> Without({"private_key_missing"})
          [] ~include            -> Without({})
          [] key.material # ""   ->
                Login(data.user,
                      [method |-> "key", secret |-> key.material, passphrase |-> key.passphrase],
                      "included", {})
          [] OTHER               -> Without({"private_key_unreadable"})

resolve_pair_auth(data, aux, include) ==
    IF <<data.pairId>> \in DOMAIN aux.pairs
    THEN LET pair == aux.pairs[<<data.pairId>>]
             secret == resolve_secret(pair.password, include)
         IN  Login(IF pair.user # "" THEN pair.user ELSE data.user, ByPassword(secret),
                   password_status(pair.password # "", secret # ""), {})
    ELSE Login(data.user, ByPassword(""), password_status(data.password # "", FALSE),
               {"password_pair_missing"})

resolve_ssh(data, aux, include) ==
    LET secret == resolve_secret(data.password, include)
    IN  [host |-> data.host] @@
        CASE data.auth \in {"", "password", "interactive"} ->
                Login(data.user, ByPassword(secret),
                      password_status(data.password # "", secret # ""), {})
          [] data.auth = "key"   -> resolve_key_auth(data, aux, include)
          [] data.auth = "pair"  -> resolve_pair_auth(data, aux, include)
          [] data.auth = "agent" ->
                Login(data.user, [method |-> "agent", secret |-> "", passphrase |-> ""],
                      "missing", {})
          [] data.auth = "none"  ->
                Login(data.user, ByPassword(""), password_status(data.password # "", FALSE), {})
          [] OTHER               ->
                Login(data.user, ByPassword(""), "unsupported", {"auth_method"})

resolve_jump_server(data, resolved) ==
    CASE data.jump # "" ->
            IF <<data.jump>> \in DOMAIN resolved /\ resolved[<<data.jump>>].host # ""
            THEN [server |-> resolved[<<data.jump>>], warnings |-> {}]
            ELSE [server |-> NoJump, warnings |-> {"jump_server_missing"}]
      [] data.jump = "" /\ data.proxy -> [server |-> NoJump, warnings |-> {"proxy_not_imported"}]
      [] OTHER -> [server |-> NoJump, warnings |-> {}]

-----------------------------------------------------------------------------
(* Records.                                                                *)

\* The record's id spells out the path and the asset's id, and hashes both.
record_id(path, entry) == <<path>> \o entry.id

Record(path, entry, kind, target, auth, jump, status, warnings) ==
    [id |-> record_id(path, entry), kind |-> kind, target |-> target, auth |-> auth,
     jump |-> jump, status |-> status, warnings |-> warnings]

Silently == [records |-> <<>>, skipped |-> EmptyBag, warnings |-> {}]
Made(record) == [Silently EXCEPT !.records = <<record>>]
Skip(label) == [Silently EXCEPT !.skipped = SetToBag({label})]
Warn(path) == [Silently EXCEPT !.warnings = {path}]

push_ssh_record(path, entry, resolved) ==
    LET session == resolved[entry.id]
        jump == resolve_jump_server(entry.data, resolved)
    IN  IF session.host = "" THEN Skip("SSH (no host)")
        ELSE Made(Record(path, entry, "ssh", session.host, session.auth, jump.server,
                         session.status, jump.warnings \cup session.warnings))

\* Engines with a Navop type of their own, and those imported as a relative.
Native == {"mysql", "postgresql", "sqlserver", "oracle", "sqlite", "clickhouse", "duckdb",
           "mongodb", "redis"}
database_mapping(engine) ==
    CASE engine \in Native -> engine
      [] engine \in {"mariadb", "tidb", "doris", "oceanbase", "polardb"} -> "mysql"
      [] engine \in {"kingbase", "opengauss"} -> "postgresql"
      [] OTHER -> ""

push_database_record(path, entry, include) ==
    LET data == entry.data
        secret == IF data.auth = "none" THEN "" ELSE resolve_secret(data.password, include)
        status == IF data.auth = "none" THEN "missing"
                  ELSE password_status(data.password # "", secret # "")
    IN  IF database_mapping(data.engine) = "" THEN Skip("Database")
        ELSE Made(Record(path, entry, "database", database_mapping(data.engine),
                         ByPassword(secret), NoJump, status,
                         (IF data.engine \in Native THEN {} ELSE {"database_type_remapped"})
                            \cup (IF data.tunnel THEN {"tunnel_not_imported"} ELSE {})))

push_redis_record(path, entry, include) ==
    LET secret == resolve_secret(entry.data.password, include)
    IN  Made(Record(path, entry, "database", "redis", ByPassword(secret), NoJump,
                    password_status(entry.data.password # "", secret # ""), {}))

push_quick_command_record(path, entry) ==
    IF entry.data.cmd = "" THEN Skip("Quick command (empty)")
    ELSE Made(Record(path, entry, "quick_command", entry.data.cmd, ByPassword(""), NoJump,
                     "missing", {}))

\* Private keys and accounts are used by the sessions and make no record.
Outcome(path, entry, resolved, include) ==
    CASE entry.data = NoData            -> Skip(entry.type)
      [] entry.type = "ssh"             -> push_ssh_record(path, entry, resolved)
      [] entry.type = "db"              -> push_database_record(path, entry, include)
      [] entry.type = "redis"           -> push_redis_record(path, entry, include)
      [] entry.type = "quick"           -> push_quick_command_record(path, entry)
      [] entry.type \in {"key", "pair"} -> Silently
      [] OTHER                          -> Skip(entry.type)

\* merge
Joined(reports) ==
    [records |-> FlattenSeq([i \in DOMAIN reports |-> reports[i].records]),
     skipped |-> FoldSeq(LAMBDA r, b : r.skipped (+) b, EmptyBag, reports),
     warnings |-> UNION {reports[i].warnings : i \in DOMAIN reports}]

\* As if each session were resolved when its row is reached.
build_records_asListed(path, entries, include) ==
    LET aux == collect_aux(entries, include)
        models(n) == ById(SubSeq(entries, 1, n), "ssh")
        resolved(n) == [id \in DOMAIN models(n) |-> resolve_ssh(models(n)[id], aux, include)]
    IN  Joined([i \in DOMAIN entries |-> Outcome(path, entries[i], resolved(i), include)])

\* A jump server that is listed after the session keeps nothing back: all
\* sessions are resolved first.
build_records(path, entries, include) ==
    LET aux == collect_aux(entries, include)
        models == ById(entries, "ssh")
        resolved == [id \in DOMAIN models |-> resolve_ssh(models[id], aux, include)]
    IN  Joined([i \in DOMAIN entries |-> Outcome(path, entries[i], resolved, include)])

preview_report_from_export(path, content, include) ==
    IF content.json /\ content.listed
    THEN build_records(path, parse(content), include)
    ELSE Warn(path)

\* Each path once, the unreadable and the empty ones left out.
read_exports ==
    FoldLeft(LAMBDA s, p : IF p \in ToSet(s) \/ hhDisk[p] = Unread THEN s ELSE Append(s, p),
             <<>>, HhCandidates)

preview_report_from_exports(include) ==
    Joined([i \in DOMAIN read_exports |->
              preview_report_from_export(read_exports[i], hhDisk[read_exports[i]], include)])

-----------------------------------------------------------------------------
(* The two calls of the host, and the user exporting anew between them.    *)

HhInit ==
    /\ hhDisk \in HhDisks
    /\ hhScan = NotScanned
    /\ hhReport = NoReport

scan ==
    /\ LET report == preview_report_from_exports(FALSE)
       IN  hhScan' = [scanned |-> TRUE, found |-> Len(report.records),
                      warned |-> report.warnings \cup
                                    IF report.skipped = EmptyBag THEN {} ELSE {"skipped"}]
    /\ UNCHANGED <<hhDisk, hhReport>>

preview(include) ==
    /\ hhReport' = preview_report_from_exports(include) @@ [shown |-> TRUE, include |-> include]
    /\ UNCHANGED <<hhDisk, hhScan>>

HhExport(path, content) ==
    /\ content # hhDisk[path]
    /\ hhDisk' = [hhDisk EXCEPT ![path] = content]
    /\ hhScan' = NotScanned
    /\ hhReport' = NoReport

HhNext ==
    \/ scan
    \/ \E include \in BOOLEAN : preview(include)
    \/ \E path \in DOMAIN hhDisk, content \in HhRewrites : HhExport(path, content)

HhSpec == HhInit /\ [][HhNext]_hhVars

-----------------------------------------------------------------------------
(* Properties.                                                             *)

HhTypeOK ==
    /\ hhScan # NotScanned => hhScan.found \in Nat
    /\ hhReport # NoReport =>
          \A i \in DOMAIN hhReport.records :
              hhReport.records[i].status \in {"included", "missing", "unsupported"}

\* The rows of the exports that were read, with their paths.
HhRows == UNION {{<<p, parse(hhDisk[p])[i]>> : i \in DOMAIN parse(hhDisk[p])} :
                   p \in {q \in ToSet(read_exports) : hhDisk[q].json /\ hhDisk[q].listed}}
HhEntries(p) == IF hhDisk[p].json /\ hhDisk[p].listed THEN parse(hhDisk[p]) ELSE <<>>
HhIdsDiffer == \A p \in ToSet(read_exports) :
                  \A i, j \in DOMAIN HhEntries(p) :
                      HhEntries(p)[i].id = HhEntries(p)[j].id => i = j
HhRecordsOf(p, entry) == {r \in ToSet(hhReport.records) : r.id = record_id(p, entry)}

\* No asset disappears: each row becomes a record or is counted as skipped,
\* except the keys and accounts that could be read.
HhAccounted ==
    Len(hhReport.records) + BagCardinality(hhReport.skipped) =
       FoldSeq(LAMBDA p, n : n + Len(SelectSeq(HhEntries(p), LAMBDA e :
                                ~(e.type \in {"key", "pair"} /\ e.data # NoData))),
               0, read_exports)

\* Without the user's consent no record holds a password, a key or a
\* passphrase, not even inside its jump server; with it, "included" is true.
HhSecretsOnlyWhenAsked ==
    \A r \in ToSet(hhReport.records) :
        /\ r.status = "included" <=> r.auth.secret # ""
        /\ ~hhReport.include =>
              /\ r.auth.secret = "" /\ r.auth.passphrase = ""
              /\ r.jump # NoJump => r.jump.auth.secret = "" /\ r.jump.auth.passphrase = ""

\* A session's jump server is the very session it names, its secret included,
\* wherever in the export that session stands; a name that leads nowhere is told.
HhJumpsAreTheirSessions ==
    \A p \in ToSet(read_exports) : \A i, j \in DOMAIN HhEntries(p) :
        LET from == HhEntries(p)[i] to == HhEntries(p)[j]
        IN  /\ from.type = "ssh" /\ from.data # NoData /\ from.data.jump # ""
            /\ to.type = "ssh" /\ to.id = <<from.data.jump>>
            =>  \A r \in HhRecordsOf(p, from) :
                    /\ r.jump = NoJump <=> HhRecordsOf(p, to) = {}
                    /\ r.jump = NoJump => "jump_server_missing" \in r.warnings
                    /\ \A s \in HhRecordsOf(p, to) : r.jump.auth = s.auth /\ r.jump.host = s.target

\* The records come in the order of the rows, those of one export together, in the
\* order the host lists the exports.
HhInOrder ==
    LET ids == FlattenSeq([n \in DOMAIN read_exports |->
                  LET p == read_exports[n]
                  IN  [i \in DOMAIN HhEntries(p) |-> record_id(p, HhEntries(p)[i])]])
        shown == [i \in DOMAIN hhReport.records |-> hhReport.records[i].id]
    IN  shown = SelectSeq(ids, LAMBDA id : id \in ToSet(shown))

\* With consent given, a secret the export holds is lost only with a warning,
\* unless the session does not authenticate at all.
HhLossesAreTold ==
    hhReport.include =>
        \A row \in HhRows : \A r \in HhRecordsOf(row[1], row[2]) :
            r.status = "unsupported" => r.warnings # {} \/ row[2].data.auth = "none"

\* The scan announced as many records as the preview delivers, and when an
\* export has rows that are not delivered, or none at all, it said so.
HhScanPredictsPreview ==
    hhScan # NotScanned =>
        /\ hhScan.found = Len(hhReport.records)
        /\ "skipped" \in hhScan.warned <=> hhReport.skipped # EmptyBag
        /\ hhScan.warned \ {"skipped"} = hhReport.warnings

\* What a HexHub preview promises, for exports whose assets have ids of
\* their own.
HexHubSafe ==
    /\ HhTypeOK
    /\ hhReport # NoReport =>
          /\ HhAccounted
          /\ HhSecretsOnlyWhenAsked
          /\ HhScanPredictsPreview
          /\ HhIdsDiffer => HhJumpsAreTheirSessions /\ HhInOrder /\ HhLossesAreTold
-------------------------------------------------------------------------------
(***************************************************************************)
(* The MobaXterm importer: it collects configuration files from the        *)
(* directories and files the host lists, and turns their SSH and SFTP      *)
(* sessions into records, with the passwords MobaXterm keeps beside them   *)
(* in three places: under a user and host in [Passwords], under a user     *)
(* alone in [Credentials], or inside the session's own line.               *)
(*                                                                         *)
(* A file is its lines, each with the section it stands in; a ciphertext   *)
(* is known by the key material that opens it.  The host offers no master  *)
(* password, so a file protected by one stays closed.                      *)
(***************************************************************************)

CONSTANTS MxCandidates,  \* what the host may list: sequences of candidates
          MxSchemes,     \* the prefixes of password keys, in the order of the keys
          MxMaxFiles,    \* MAX_SOURCE_FILES
          MxMaxDepth,    \* MAX_DIRECTORY_DEPTH
          MxMaxSessions  \* MAX_MOBATXTERM_SESSIONS

VARIABLES mxCandidates, mxScanned, mxReport
mxVars == <<mxCandidates, mxScanned, mxReport>>

NoCipher == [by |-> "none", owner |-> <<>>, plain |-> ""]
MxNotYet == [done |-> FALSE]

-----------------------------------------------------------------------------
(* Collecting the files.                                                   *)

\* A directory's files come in order, down to a depth, until there are
\* enough; a file named by the user is read however many there are.
collect_directory(files, found) ==
    FoldLeft(LAMBDA s, f :
               IF Len(s) >= MxMaxFiles \/ f.depth > MxMaxDepth \/ ~f.supported THEN s
               ELSE Append(s, [path |-> f.path, text |-> f.text, lines |-> f.lines]),
             found, files)

dedupe_identical_files(found) ==
    FoldLeft(LAMBDA s, f : IF \E i \in DOMAIN s : s[i].text = f.text /\ s[i].lines = f.lines
                           THEN s ELSE Append(s, f),
             <<>>, found)

read_sessions(candidates) ==
    dedupe_identical_files(
        FoldLeft(LAMBDA s, c :
                   LET f == c.files[1]
                   IN  CASE c.directory -> collect_directory(c.files, s)
                         [] ~c.directory /\ f.supported ->
                               Append(s, [path |-> f.path, text |-> f.text, lines |-> f.lines])
                         [] OTHER -> s,
                 <<>>, candidates))

-----------------------------------------------------------------------------
(* One file.                                                               *)

In(lines, section) == SelectSeq(lines, LAMBDA l : l.section = section)

\* A line outside every section is a session if it looks like one.
ParsedFile(lines) ==
    [sessions    |-> SelectSeq(lines, LAMBDA l : \/ l.section \in {"Bookmarks", "Bookmarks_1"}
                                                 \/ l.section = "" /\ l.standard),
     passwords   |-> In(lines, "Passwords"),
     credentials |-> In(lines, "Credentials"),
     misc        |-> {l.key : l \in ToSet(In(lines, "Misc"))},
     sesspass    |-> In(lines, "SessPass") # <<>>]

\* Only the key material that made a ciphertext opens it.
decrypt_stored_secret(cipher, misc, user, host) ==
    CASE cipher.by = "connection" /\ {"account", "computer"} \subseteq misc
            /\ cipher.owner = <<user, host>> -> cipher.plain
      [] cipher.by = "session" /\ "sessionp" \in misc -> cipher.plain
      [] OTHER -> ""

\* A closed store knows that there are passwords, and opens none.
Closed(file) ==
    [opened |-> <<>>, undecrypted |-> file.passwords, credentials |-> <<>>,
     failed |-> {c.user : c \in ToSet(file.credentials)}]

\* decrypted is a map: a later line with the same key replaces an earlier one,
\* and the keys are read in their order.
Keyed(lines) ==
    LET Key(l) == <<l.scheme, l.user, l.host>>
        kept == FoldLeft(LAMBDA s, l : Append(SelectSeq(s, LAMBDA k : Key(k) # Key(l)), l),
                         <<>>, lines)
    IN  FlattenSeq([i \in DOMAIN MxSchemes |->
                      SelectSeq(kept, LAMBDA k : k.scheme = MxSchemes[i])])

Opened(file) ==
    LET plain(p) == decrypt_stored_secret(p.cipher, file.misc, p.user, p.host)
        shared(c) == decrypt_stored_secret(c.cipher, file.misc, "", "")
        good == SelectSeq(file.credentials, LAMBDA c : shared(c) # "")
    IN  [opened      |-> Keyed(SelectSeq(file.passwords, LAMBDA p : plain(p) # "")),
         undecrypted |-> SelectSeq(file.passwords, LAMBDA p : plain(p) = ""),
         credentials |-> good,
         failed      |-> {c.user : c \in ToSet(file.credentials) \ ToSet(good)}]

PasswordStore(file, include) ==
    LET stored == file.passwords # <<>> \/ file.credentials # <<>>
        locked == include /\ stored /\ file.sesspass
    IN  [attempted |-> include /\ stored /\ ~locked,
         locked    |-> locked,
         warnings  |-> IF ~stored /\ "registry" \in file.misc THEN {"registry"} ELSE {}]
        @@ (IF include /\ ~locked THEN Opened(file) ELSE Closed(file))

-----------------------------------------------------------------------------
(* A session's password.                                                   *)

\* The three spellings a session's own key can have, in the order tried.
password_key_candidates(port) == <<"", port, "ssh">>

\* A key that names the user and the host, whatever its port; for a session
\* without a user, the only key of the host.
scan_matching(keys, user, host) ==
    LET ofHost == SelectSeq(keys, LAMBDA k : k.host = host)
        ofUser == SelectSeq(ofHost, LAMBDA k : k.user = user)
    IN  CASE user # "" -> IF ofUser # <<>> THEN <<ofUser[1]>> ELSE <<>>
          [] user = "" -> IF Len(ofHost) = 1 THEN ofHost ELSE <<>>

Matching(keys, user, host, port) ==
    LET exact(scheme) == SelectSeq(keys, LAMBDA k : /\ k.user = user /\ k.host = host
                                                    /\ k.scheme = scheme)
        tried == FlattenSeq([i \in 1..3 |-> exact(password_key_candidates(port)[i])])
    IN  IF user # "" /\ tried # <<>> THEN <<tried[1]>> ELSE scan_matching(keys, user, host)

lookup(store, user, host, port) ==
    LET keyed == Matching(store.opened, user, host, port)
        shared == SelectSeq(store.credentials, LAMBDA c : c.user = user)
    IN  CASE keyed # <<>> -> keyed[1].cipher.plain
          [] keyed = <<>> /\ user # "" /\ Len(shared) = 1 -> shared[1].cipher.plain
          [] OTHER -> ""

has_unresolved_password(store, user, host, port) ==
    \/ Matching(store.undecrypted, user, host, port) # <<>>
    \/ user # "" /\ user \in store.failed

-----------------------------------------------------------------------------
(* Records.                                                                *)

moba_record_id(path, entry) == <<path, entry.section, entry.key>>

MxUnusable == [records |-> <<>>, skipped |-> 0]
MxSkipped == [records |-> <<>>, skipped |-> 1]

\* The line's own password is tried whenever the store has none.
session_record(path, entry, misc, store) ==
    LET found == lookup(store, entry.user, entry.host, entry.port)
        inline == decrypt_stored_secret(entry.inline, misc, entry.user, entry.host)
        secret == IF found # "" THEN found ELSE inline
        unresolved == \/ entry.inline # NoCipher
                      \/ has_unresolved_password(store, entry.user, entry.host, entry.port)
    IN  CASE entry.standard /\ entry.type \notin {"ssh", "sftp"} -> MxSkipped
          [] entry.host = "" \/ (~entry.standard /\ entry.type # "ssh") -> MxUnusable
          [] OTHER ->
               [skipped |-> 0,
                records |-> <<[id |-> moba_record_id(path, entry), user |-> entry.user,
                               host |-> entry.host, secret |-> secret,
                               status |-> CASE secret # "" -> "included"
                                            [] secret = "" /\ unresolved -> "unsupported"
                                            [] OTHER -> "missing",
                               warnings |-> IF secret # "" \/ ~unresolved THEN {}
                                            ELSE (IF store.locked THEN {"master"} ELSE {}) \cup
                                                 (IF store.attempted THEN {"failed"} ELSE {})]>>]

\* What concerns the whole file is told with its first record.
FileReport(outcomes, warnings) ==
    LET records == FlattenSeq([i \in DOMAIN outcomes |-> outcomes[i].records])
        skipped == FoldSeq(LAMBDA o, n : o.skipped + n, 0, outcomes)
        told == (IF skipped > 0 THEN {"skipped"} ELSE {}) \cup warnings
    IN  [records |-> [i \in DOMAIN records |->
                        IF i = 1 THEN [records[1] EXCEPT !.warnings = @ \cup told]
                        ELSE records[i]],
         skipped |-> skipped]

Outcomes(path, file, store) ==
    [i \in DOMAIN file.sessions |-> session_record(path, file.sessions[i], file.misc, store)]

\* The sessions of a file, read with its store of passwords.
ReadFile(path, file, store) == FileReport(Outcomes(path, file, store), store.warnings)

parse_parsed(path, file, include) == ReadFile(path, file, PasswordStore(file, include))
parse_file_report(path, lines, include) == parse_parsed(path, ParsedFile(lines), include)

\* An id is taken once.
AddReport(r, one) ==
    [skipped |-> r.skipped + one.skipped,
     records |-> FoldLeft(LAMBDA s, x : IF \E i \in DOMAIN s : s[i].id = x.id THEN s ELSE Append(s, x),
                          r.records, one.records)]

\* Files are read until there are enough records; one that is no text
\* (decode_text) is passed over.
preview_report_from_sources(sources, include) ==
    FoldLeft(LAMBDA r, f : IF Len(r.records) >= MxMaxSessions \/ ~f.text THEN r
                           ELSE AddReport(r, parse_file_report(f.path, f.lines, include)),
             [records |-> <<>>, skipped |-> 0], sources)

-----------------------------------------------------------------------------
(* The two calls of the host.                                              *)

MxInit ==
    /\ mxCandidates \in MxCandidates
    /\ mxScanned = MxNotYet
    /\ mxReport = MxNotYet

moba_scan ==
    /\ mxScanned' = preview_report_from_sources(read_sessions(mxCandidates), FALSE)
                    @@ [done |-> TRUE]
    /\ UNCHANGED <<mxCandidates, mxReport>>

moba_preview(include) ==
    /\ mxReport' = preview_report_from_sources(read_sessions(mxCandidates), include)
                   @@ [done |-> TRUE, include |-> include]
    /\ UNCHANGED <<mxCandidates, mxScanned>>

MxNext == moba_scan \/ \E include \in BOOLEAN : moba_preview(include)

MxSpec == MxInit /\ [][MxNext]_mxVars

-----------------------------------------------------------------------------
(* Properties.                                                             *)

MxLines == UNION {ToSet(f.lines) : f \in ToSet(read_sessions(mxCandidates))}
MxRecords == ToSet(mxReport.records)

MxTypeOK == mxReport # MxNotYet => mxReport.skipped \in Nat

\* A record only ever holds a password of its own: one stored for that user
\* at that host, the host's one password when no user is named, one stored for
\* that user everywhere, or the one on its own line.
MxPasswordsBelong ==
    \A r \in MxRecords : r.secret # "" =>
        \E l \in MxLines :
            \/ /\ l.section = "Passwords" /\ l.cipher.plain = r.secret /\ l.host = r.host
               /\ l.user = r.user \/ r.user = ""
            \/ l.section = "Credentials" /\ l.cipher.plain = r.secret /\ l.user = r.user
            \/ l.section = r.id[2] /\ l.key = r.id[3] /\ l.inline.plain = r.secret

\* Without consent nothing from the password sections is opened.
MxSectionsStayClosed ==
    ~mxReport.include =>
        \A r \in MxRecords : \A l \in MxLines :
            l.section \in {"Passwords", "Credentials"} => l.cipher.plain # r.secret

\* With consent, a password stored for exactly this user and host is either in
\* the record or reported as not imported.
MxLossesAreTold ==
    mxReport.include =>
        \A r \in MxRecords :
            (r.user # "" /\ \E f \in ToSet(read_sessions(mxCandidates)) :
                 f.path = r.id[1] /\ \E l \in ToSet(f.lines) :
                     l.section = "Passwords" /\ l.user = r.user /\ l.host = r.host)
            => r.status = "included" \/ (r.status = "unsupported" /\ r.warnings # {})

\* The files whose sessions count: those that are text, up to the one that makes
\* the records enough.
MxReached ==
    LET src == read_sessions(mxCandidates)
        Before(i) == {r \in MxRecords : \E j \in 1..i - 1 : src[j].path = r.id[1]}
    IN  {src[i] : i \in {k \in DOMAIN src : src[k].text /\ Cardinality(Before(k)) < MxMaxSessions}}
MxSessions(f) == SelectSeq(f.lines, LAMBDA l : \/ l.section \in {"Bookmarks", "Bookmarks_1"}
                                               \/ l.section = "" /\ l.standard)
MxIsOther(l) == l.standard /\ l.type \notin {"ssh", "sftp"}
MxIsUsable(l) == l.host # "" /\ IF l.standard THEN ~MxIsOther(l) ELSE l.type = "ssh"

\* Every record is that of a session, and in the files whose sessions count every
\* SSH or SFTP session with a host has a record; those of another type are counted,
\* and the file's records say so.  Nothing is said of sessions without a host or in
\* an unknown spelling, of files that are no text and of files after the limit:
\* they are dropped without a word.
MxAccounted ==
    /\ \A r \in MxRecords : \E f \in MxReached : \E l \in ToSet(MxSessions(f)) :
          MxIsUsable(l) /\ r.id = moba_record_id(f.path, l) /\ r.host = l.host /\ r.user = l.user
    /\ \A f \in MxReached : \A l \in ToSet(MxSessions(f)) :
          MxIsUsable(l) => \E r \in MxRecords : r.id = moba_record_id(f.path, l)
    /\ mxReport.skipped = MapThenSumSet(LAMBDA f : Len(SelectSeq(MxSessions(f), MxIsOther)), MxReached)
    /\ \A f \in MxReached :
          LET mine == {r \in MxRecords : r.id[1] = f.path}
          IN  mine # {} =>
                 ((\E r \in mine : "skipped" \in r.warnings)
                     <=> \E l \in ToSet(MxSessions(f)) : MxIsOther(l))

\* A record is shown once, and the
\* scan counted the same records.
MxCounts ==
    /\ \A i, j \in DOMAIN mxReport.records :
          mxReport.records[i].id = mxReport.records[j].id => i = j
    /\ mxScanned # MxNotYet => /\ Len(mxScanned.records) = Len(mxReport.records)
                               /\ mxScanned.skipped = mxReport.skipped

MobaSafe ==
    /\ MxTypeOK
    /\ mxReport # MxNotYet =>
          MxPasswordsBelong /\ MxSectionsStayClosed /\ MxLossesAreTold /\ MxAccounted /\ MxCounts
-------------------------------------------------------------------------------
(***************************************************************************)
(* The OpenSSH importer: ssh_config files become one record per concrete   *)
(* alias, known_hosts files one record per endpoint that no record before  *)
(* them reaches.  Its parser of ssh_config is far simpler than ssh's; the  *)
(* model states where the two agree.                                       *)
(*                                                                         *)
(* A line of a config is a keyword and its value; the value of a Host line *)
(* is a sequence of names, where "*" stands for a pattern.  A line of      *)
(* known_hosts is a sequence of endpoints, NoEndpoint where it is hashed,  *)
(* marked or a pattern.  0 is a port that cannot be parsed.                *)
(***************************************************************************)

CONSTANTS OsFiles,   \* the sequences of files the host may list
          OsSlugs    \* alias -> what slug makes of it; two may share one
VARIABLES osFiles, osRecords
osVars == <<osFiles, osRecords>>

NoEndpoint == <<"", 0>>
Pattern == "*"
NoBlock == [aliases |-> <<>>, hostname |-> "", user |-> "", port |-> 0, identity |-> ""]
OsNothing == <<[known |-> FALSE, name |-> <<>>]>>

-----------------------------------------------------------------------------
\* A Host line starts a block; what stands before the first belongs to none.
\* Within a block the last HostName, User and Port count, and the first
\* IdentityFile; every other keyword is ignored, Match and Include too.
parse_blocks(lines) ==
    LET Value(b, l) ==
            CASE l.key = "hostname" -> [b EXCEPT !.hostname = l.value]
              [] l.key = "user"     -> [b EXCEPT !.user = l.value]
              [] l.key = "port"     -> [b EXCEPT !.port = l.port]
              [] l.key = "identityfile" /\ b.identity = "" -> [b EXCEPT !.identity = l.value]
              [] OTHER -> b
    IN  FoldLeft(LAMBDA out, l :
                   CASE l.key = "host" -> Append(out, [NoBlock EXCEPT !.aliases = l.names])
                     [] l.key # "host" /\ out # <<>> ->
                           [out EXCEPT ![Len(out)] = Value(@, l)]
                     [] OTHER -> out,
                 <<>>, lines)

importable_aliases(aliases) == SelectSeq(aliases, LAMBDA a : a \notin {Pattern, ""})

parse_known_hosts(lines) ==
    SelectSeq(FlattenSeq([i \in DOMAIN lines |-> lines[i].endpoints]),
              LAMBDA e : e # NoEndpoint)

slug(alias) == OsSlugs[alias]

RecordOf(block, alias) ==
    [known |-> FALSE, id |-> <<slug(alias)>>, name |-> <<alias>>, host |-> IF block.hostname # "" THEN block.hostname ELSE alias,
     port |-> IF block.port # 0 THEN block.port ELSE 22,
     user |-> block.user, identity |-> block.identity]

ConfigRecords(lines) ==
    LET blocks == parse_blocks(lines)
    IN  FlattenSeq([i \in DOMAIN blocks |->
           LET names == importable_aliases(blocks[i].aliases)
           IN  [j \in DOMAIN names |-> RecordOf(blocks[i], names[j])]])

record_from_known_host(endpoint) ==
    [known |-> TRUE, id |-> <<"known-hosts", endpoint>>, name |-> endpoint, host |-> endpoint[1], port |-> endpoint[2],
     user |-> "", identity |-> ""]

Reaches(records, endpoint) ==
    \E i \in DOMAIN records : <<records[i].host, records[i].port>> = endpoint

KnownHostRecords(lines, before) ==
    FoldLeft(LAMBDA s, e : IF Reaches(s, e) THEN s ELSE Append(s, record_from_known_host(e)),
             before, parse_known_hosts(lines))

preview_records_from_configs(files) ==
    FoldLeft(LAMBDA s, f : IF f.known THEN KnownHostRecords(f.lines, s)
                           ELSE s \o ConfigRecords(f.lines),
             <<>>, files)

-----------------------------------------------------------------------------
OsInit == osFiles \in OsFiles /\ osRecords = OsNothing

openssh_preview ==
    /\ osRecords' = preview_records_from_configs(osFiles)
    /\ UNCHANGED osFiles

OsSpec == OsInit /\ [][openssh_preview]_osVars

-----------------------------------------------------------------------------
(* What ssh itself would do, from ssh_config(5): the first value obtained   *)
(* for a keyword counts, over all the blocks that apply to the name.        *)

HeadBefore(lines, i) ==
    LET heads == {j \in 1..i : lines[j].key = "host"}
    IN  IF heads = {} THEN 0 ELSE CHOOSE j \in heads : \A k \in heads : k <= j

Applies(lines, i, alias) ==
    \/ HeadBefore(lines, i) = 0
    \/ \E n \in ToSet(lines[HeadBefore(lines, i)].names) : n \in {alias, Pattern}

Obtained(lines, alias, key) ==
    LET at == {i \in DOMAIN lines : lines[i].key = key /\ Applies(lines, i, alias)}
    IN  [first |-> IF at = {} THEN 0 ELSE CHOOSE i \in at : \A k \in at : i <= k,
         count |-> at]

\* The names for which ssh finds every keyword at most once, in a block that
\* names the alias.
Plain(lines, alias) ==
    /\ \A key \in {"hostname", "user", "port", "identityfile"} :
          \A i, j \in Obtained(lines, alias, key).count :
              i = j /\ HeadBefore(lines, i) # 0
                    /\ Pattern \notin ToSet(lines[HeadBefore(lines, i)].names)
    /\ \A i, j \in DOMAIN lines :
          (lines[i].key = "host" /\ lines[j].key = "host" /\ i # j)
             => ~(alias \in ToSet(lines[i].names) /\ alias \in ToSet(lines[j].names))

\* Every concrete name of a config has a record, and where ssh has no choice
\* to make the record connects as ssh would.
AgreesWithSsh ==
    \A f \in {x \in ToSet(osFiles) : ~x.known} :
        \A i \in DOMAIN f.lines : f.lines[i].key = "host" =>
            \A alias \in ToSet(f.lines[i].names) \ {Pattern, ""} :
                LET At(key) == Obtained(f.lines, alias, key).first
                    Text(key, otherwise) == IF At(key) = 0 THEN otherwise
                                            ELSE f.lines[At(key)].value
                IN  \E r \in ToSet(osRecords) :
                       /\ r.name = <<alias>>
                       /\ Plain(f.lines, alias) =>
                             /\ r.host = Text("hostname", alias)
                             /\ r.user = Text("user", "")
                             /\ r.identity = Text("identityfile", "")
                             /\ At("port") # 0 /\ f.lines[At("port")].port # 0
                                   => r.port = f.lines[At("port")].port

\* A known host is listed only if nothing listed before it leads there.
NoEndpointTwice ==
    \A i, j \in DOMAIN osRecords :
        /\ i < j /\ osRecords[j].known
        => <<osRecords[i].host, osRecords[i].port>> # <<osRecords[j].host, osRecords[j].port>>

OpenSshSafe == osRecords # OsNothing => AgreesWithSsh /\ NoEndpointTwice
===============================================================================
