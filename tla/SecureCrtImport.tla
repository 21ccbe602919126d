--------------------------- MODULE SecureCrtImport ----------------------------
(***************************************************************************)
(* The SecureCRT importer: it walks the configuration directories the host *)
(* lists, and turns session files, folder lists and button bars into       *)
(* records.  A session's password is its own or that of the credential     *)
(* file it names, whichever of the two is read first.                      *)
(*                                                                         *)
(* A path is the sequence of its components and <<>> is no path.  A file   *)
(* is what can be read in it: the fields of a session or a credential      *)
(* (ScForm, "" for a field that is missing), the folders of a folder list, *)
(* the lines of a button bar, or the records of an XML export.  The reader *)
(* of the XML export is the second part below.                             *)
(***************************************************************************)
EXTENDS Naturals, Sequences, FiniteSets, SequencesExt, FiniteSetsExt

CONSTANTS ScCandidates,  \* what the host may list: sequences of candidates
          ScNames,       \* leaf -> its stem and its extension
          ScRank,        \* logical path -> its place in the order of paths
          ScCiphers,     \* ciphertext -> its version, the passphrase that opens it, the plaintext
          ScMaxFiles,    \* MAX_SOURCE_FILES
          ScMaxDepth     \* MAX_DIRECTORY_DEPTH

VARIABLES scCandidates, scScanned, scReport
scVars == <<scCandidates, scScanned, scReport>>

ScNotYet == [done |-> FALSE]
ScForm == [proto |-> "", host |-> "", user |-> "", identity |-> "", title |-> "", pw |-> "",
           pwv2 |-> "", encrypted |-> FALSE, error |-> FALSE,
           ports |-> [own |-> "", ssh2 |-> "", any |-> ""]]

-----------------------------------------------------------------------------
(* Passwords: decrypt.rs and model.rs.                                     *)

DEFAULT_PASSPHRASE == ""

\* "" is a failure.  The first format needs no passphrase; the second carries
\* a checksum, so that the wrong passphrase opens nothing.
decrypt_config_password(raw, passphrase) ==
    IF raw \notin DOMAIN ScCiphers THEN ""
    ELSE LET c == ScCiphers[raw]
         IN  IF c.version = "v1" \/ (c.version \in {"02", "03"} /\ c.by = passphrase)
             THEN c.plain ELSE ""

Ciphertext(f) == IF f.pwv2 # "" THEN f.pwv2 ELSE f.pw

credential_metadata(f, include) ==
    LET raw == Ciphertext(f)
        tried == include /\ raw # ""
        plain == IF tried THEN decrypt_config_password(raw, DEFAULT_PASSPHRASE) ELSE ""
    IN  [user |-> f.user, has |-> raw # "", password |-> plain, error |-> tried /\ plain = ""]

\* The plaintext of a credential goes where a session keeps its own ciphertext.
enrich_from_credential(f, credentials) ==
    IF f.title \notin DOMAIN credentials THEN f
    ELSE LET c == credentials[f.title]
             g == [f EXCEPT !.user = IF @ = "" THEN c.user ELSE @]
         IN  CASE c.password # "" -> [g EXCEPT !.pw = c.password]
               [] c.password = "" /\ c.error -> [g EXCEPT !.error = TRUE]
               [] c.password = "" /\ ~c.error -> [g EXCEPT !.encrypted = @ \/ c.has]

has_session_password_material(f) == f.pwv2 # "" \/ f.pw # "" \/ f.encrypted \/ f.error

Resolved(kind, password) == [kind |-> kind, password |-> password]
Material(f) == Resolved(IF has_session_password_material(f) THEN "not_requested" ELSE "missing", "")

resolve_password(f, include) ==
    LET plain == decrypt_config_password(Ciphertext(f), DEFAULT_PASSPHRASE)
    IN  CASE ~include -> Material(f)
          [] include /\ f.pw # "" -> Resolved("included", f.pw)
          [] include /\ f.pw = "" /\ f.error -> Resolved("failed", "")
          [] include /\ f.pw = "" /\ ~f.error /\ f.pwv2 = "" ->
                Resolved(IF f.encrypted THEN "not_requested" ELSE "missing", "")
          [] OTHER -> Resolved(IF plain # "" THEN "included" ELSE "failed", plain)

NoSession == [records |-> <<>>, warnings |-> <<>>]

\* A session with a key keeps no password; without a key it logs in with a
\* password exactly when there is, or was, one.
ssh_record(source, group, f, port, include) ==
    LET resolved == IF f.identity # "" THEN Material(f) ELSE resolve_password(f, include)
    IN  CASE f.proto \notin {"ssh1", "ssh2", "ssh"} -> NoSession
          [] f.proto \in {"ssh1", "ssh2", "ssh"} /\ f.host = "" ->
                [NoSession EXCEPT !.warnings = <<"hostname_missing">>]
          [] OTHER ->
                [NoSession EXCEPT !.records =
                    <<[kind |-> "ssh", id |-> <<"ssh", source>>, group |-> group, host |-> f.host,
                       user |-> f.user, port |-> port, password |-> resolved.password,
                       auth |-> CASE f.identity # "" -> "key"
                                  [] f.identity = "" /\ resolved.kind # "missing" -> "password"
                                  [] OTHER -> "auto",
                       status |-> IF resolved.kind \in {"included", "missing"} THEN resolved.kind
                                  ELSE "unsupported",
                       warned |-> resolved.kind = "failed"]>>]

\* The first port field that is there counts; one that is no port means 22.
PortOf(fields) ==
    LET there == SelectSeq(fields, LAMBDA p : p # "")
    IN  IF there # <<>> /\ there[1] # "bad" THEN there[1] ELSE "22"
PortWarning(fields) ==
    LET there == SelectSeq(fields, LAMBDA p : p # "")
    IN  IF there # <<>> /\ there[1] = "bad" THEN <<"port_invalid">> ELSE <<>>

protocol_ports(f) == <<f.ports.own, f.ports.any>>

-----------------------------------------------------------------------------
(* Paths: source.rs.                                                       *)

Leaf(path) == Last(path)
Below(path, name) == name \in ToSet(Front(path))
Stem(path) == ScNames[Leaf(path)].stem

is_template(leaf) == leaf \in {"default.ini", "default_rdp.ini", "default_serial.ini",
                               "default_localshell.ini"}

classify_source(path) ==
    LET extension == ScNames[Leaf(path)].extension
    IN  CASE extension = "xml" -> "Xml"
          [] extension = "ini" /\ Leaf(path) \in {"__folderdata__.ini", "__folderdata.ini"} -> "FolderData"
          [] extension = "ini" /\ Leaf(path) = "buttonbar.ini" -> "ButtonBar"
          [] extension = "ini" /\ Leaf(path) = "__commands__.ini" /\ Below(path, "Commands") -> "ButtonBar"
          [] extension # "ini" \/ is_template(Leaf(path)) -> "none"
          [] OTHER -> "SessionIni"

normalize_workspace_path(path) == IF ToSet(path) \cap {".", ".."} # {} THEN <<>> ELSE path

\* The part of a path below its first Sessions, without the leaf or with it.
session_relative_path(path, end) ==
    LET at == {i \in DOMAIN path : path[i] = "Sessions"}
    IN  IF at = {} THEN <<>> ELSE normalize_workspace_path(SubSeq(path, Min(at) + 1, end))
session_file_group_path(path) == session_relative_path(path, Len(path) - 1)
session_directory_group_path(path) == session_relative_path(path, Len(path))

command_manager_folder(path) ==
    LET at == {i \in DOMAIN path : path[i] = "Commands"}
    IN  IF path = <<>> \/ Leaf(path) # "__commands__.ini" \/ at = {} THEN <<>>
        ELSE SubSeq(path, Max(at) + 1, Len(path) - 1)

quick_command_group_name(path, declared) ==
    LET folder == command_manager_folder(path)
    IN  IF folder = <<>> THEN <<declared>>
        ELSE IF declared = "default" THEN folder ELSE Append(folder, declared)

is_logical_root(name) == name \in {"Sessions", "Commands", "Credentials"}

\* The directory the user picked keeps its path from Sessions, Commands or
\* Credentials on: the one below the last Config, or else the first.
candidate_directory_prefix(path) ==
    LET configs == {i \in DOMAIN path : path[i] = "Config"}
        roots == {i \in DOMAIN path : is_logical_root(path[i])}
        child == IF configs = {} THEN 0 ELSE Max(configs) + 1
    IN  CASE child \in roots -> SubSeq(path, child, Len(path))
          [] child \notin roots /\ roots # {} -> SubSeq(path, Min(roots), Len(path))
          [] OTHER -> <<>>

-----------------------------------------------------------------------------
(* Collecting the files: component.rs.  A candidate's entries come in the  *)
(* order of the walk; ok is whether the host can read the entry.           *)

safe_relative_path(name) == name \notin {"", ".", "..", "x/y"}

\* The directories above an entry were all read.
Entered(c, e) ==
    \A k \in 1..Len(e.path) - 1 :
        \E d \in ToSet(c.entries) :
            /\ d.path = SubSeq(e.path, 1, k) /\ d.dir /\ d.ok
            /\ Len(d.path) <= ScMaxDepth /\ safe_relative_path(Last(d.path))

push_warning(s, code) == [s EXCEPT !.warnings = Append(@, code)]

collect_session_group(s, path) ==
    LET group == session_directory_group_path(path)
    IN  IF group = <<>> THEN s ELSE [s EXCEPT !.groups = @ \cup {group}]

collect_child_directory(s, e) ==
    IF Len(e.path) > ScMaxDepth THEN push_warning(s, "depth_exceeded")
    ELSE IF ~e.ok THEN push_warning(s, "read_directory_failed") ELSE s

collect_child_file(s, e, path) ==
    IF Len(s.files) >= ScMaxFiles THEN push_warning(s, "source_limit_reached")
    ELSE IF ~e.ok THEN push_warning(s, "read_file_failed")
    ELSE [s EXCEPT !.files = Append(@, [path |-> path, data |-> e.data])]

collect_source_tree(c, before) ==
    LET prefix == candidate_directory_prefix(c.path)
        Collect(s, e) ==
            LET path == prefix \o e.path
            IN  CASE ~Entered(c, e) -> s
                  [] Entered(c, e) /\ ~safe_relative_path(Last(e.path)) -> push_warning(s, "unsafe_path")
                  [] Entered(c, e) /\ safe_relative_path(Last(e.path)) /\ e.dir ->
                        collect_child_directory(collect_session_group(s, path), e)
                  [] OTHER -> IF classify_source(path) = "none" THEN s
                              ELSE collect_child_file(s, e, path)
    IN  FoldLeft(Collect, collect_session_group(before, prefix), c.entries)

\* A file the user picked keeps its whole path, and no limit counts it.
collect_single_file(c, s) ==
    IF classify_source(c.path) = "none" THEN push_warning(s, "read_directory_failed")
    ELSE IF ~c.ok THEN push_warning(s, "read_file_failed")
    ELSE [s EXCEPT !.files = Append(@, [path |-> c.path, data |-> c.data])]

collect_all(candidates) ==
    FoldLeft(LAMBDA s, c : IF c.dir THEN collect_source_tree(c, s) ELSE collect_single_file(c, s),
             [files |-> <<>>, groups |-> {}, warnings |-> <<>>], candidates)

\* sort_by is stable.
sort_by_path(files) ==
    LET Before(i, j) == \/ ScRank[files[i].path] < ScRank[files[j].path]
                        \/ ScRank[files[i].path] = ScRank[files[j].path] /\ i < j
        order == SetToSortSeq(DOMAIN files, Before)
    IN  [i \in DOMAIN order |-> files[order[i]]]

read_sources(candidates) == [collect_all(candidates) EXCEPT !.files = sort_by_path(@)]

-----------------------------------------------------------------------------
(* What is in a file: securecrt.rs, ini.rs, button_bar.rs.                 *)

is_credential_path(path) == Below(path, "Credentials")
credential_key(path) == Stem(path)

\* Credentials are read before anything that may name them.
CredentialsIn(files, include) ==
    LET mine == SelectSeq(files, LAMBDA f : f.data.decodes /\ is_credential_path(f.path))
        keys == {credential_key(f.path) : f \in ToSet(mine)}
        Newest(k) == Max({i \in DOMAIN mine : credential_key(mine[i].path) = k})
    IN  [k \in keys |-> credential_metadata(mine[Newest(k)].data.form, include)]

parse_session(path, form, credentials, include) ==
    LET f == enrich_from_credential(form, credentials)
        record == ssh_record(path, session_file_group_path(path), f, PortOf(protocol_ports(f)), include)
    IN  [record EXCEPT !.warnings = PortWarning(protocol_ports(f)) \o @]

workspace_record(path) == [kind |-> "workspace", id |-> <<"workspace", path>>, group |-> path]

workspace_path_ancestors(path) == [k \in DOMAIN path |-> SubSeq(path, 1, k)]

folder_data_records(path, folders) ==
    LET Full(folder) == normalize_workspace_path(session_file_group_path(path) \o folder)
        all == FlattenSeq([i \in DOMAIN folders |-> workspace_path_ancestors(Full(folders[i]))])
    IN  FoldLeft(LAMBDA s, p : IF workspace_record(p) \in ToSet(s) THEN s ELSE Append(s, workspace_record(p)),
                 <<>>, all)

quick_command_record(source, group, command, order) ==
    [kind |-> "quick_command", id |-> <<"quick_command", source>>, group |-> group,
     command |-> command, order |-> order]

fallback_group_name(path) ==
    LET folder == command_manager_folder(path)
    IN  IF folder = <<>> THEN <<Stem(path)>> ELSE folder

parse_button_line(path, s, line) ==
    CASE line.action = "" -> s
      [] line.action \notin {"", "SEND"} -> [s EXCEPT !.warnings = Append(@, "action_not_imported")]
      [] line.action = "SEND" /\ line.command = "" -> s
      [] OTHER ->
            LET n == Len(s.records)
            IN  [s EXCEPT !.records =
                    Append(@, quick_command_record(<<path, s.group, n>>, s.group, line.command, n))]

parse_button_bar(path, lines) ==
    FoldLeft(LAMBDA s, l : IF l.group # "" THEN [s EXCEPT !.group = quick_command_group_name(path, l.group)]
                           ELSE parse_button_line(path, s, l),
             NoSession @@ [group |-> fallback_group_name(path)], lines)

Parsed(f, credentials, include) ==
    LET kind == classify_source(f.path)
    IN  CASE kind = "SessionIni" -> parse_session(f.path, f.data.form, credentials, include)
          [] kind = "FolderData" -> [NoSession EXCEPT !.records = folder_data_records(f.path, f.data.folders)]
          [] kind = "ButtonBar"  -> parse_button_bar(f.path, f.data.buttons)
          [] kind = "Xml"        -> [NoSession EXCEPT !.records = f.data.exported]

\* An id is taken once.
AddRecord(s, record) ==
    IF \E i \in DOMAIN s.records : s.records[i].id = record.id
    THEN push_warning(s, "duplicate_record_id")
    ELSE [s EXCEPT !.records = Append(@, record)]

preview_records_from_sources(files, include) ==
    LET credentials == CredentialsIn(files, include)
        AddFile(s, f) ==
            IF ~f.data.decodes THEN push_warning(s, "source_decode_failed")
            ELSE IF is_credential_path(f.path) THEN s
            ELSE LET parsed == Parsed(f, credentials, include)
                 IN  FoldLeft(AddRecord, [s EXCEPT !.warnings = @ \o parsed.warnings], parsed.records)
    IN  FoldLeft(AddFile, [records |-> <<>>, warnings |-> <<>>], files)

append_workspace_records(records, groups) ==
    LET order == SetToSortSeq(groups, LAMBDA a, b : ScRank[a] < ScRank[b])
    IN  FoldLeft(LAMBDA s, g : IF \E i \in DOMAIN s : s[i].id = workspace_record(g).id THEN s
                               ELSE Append(s, workspace_record(g)),
                 records, order)

parse_sources(collected, include) ==
    LET preview == preview_records_from_sources(collected.files, include)
    IN  [preview EXCEPT !.records = append_workspace_records(@, collected.groups)]

-----------------------------------------------------------------------------
(* The two calls of the host.  Only scan passes the warnings on.           *)

ScInit == scCandidates \in ScCandidates /\ scScanned = ScNotYet /\ scReport = ScNotYet

ScScanned(preview, warnings) ==
    [done |-> TRUE, count |-> Len(preview.records), warnings |-> preview.warnings \o warnings]

sc_scan ==
    LET collected == read_sources(scCandidates)
    IN  /\ scScanned' = ScScanned(parse_sources(collected, FALSE), collected.warnings)
        /\ UNCHANGED <<scCandidates, scReport>>

sc_preview(include) ==
    /\ scReport' = [done |-> TRUE, include |-> include,
                    records |-> parse_sources(read_sources(scCandidates), include).records]
    /\ UNCHANGED <<scCandidates, scScanned>>

ScNext == sc_scan \/ \E include \in BOOLEAN : sc_preview(include)

ScSpec == ScInit /\ [][ScNext]_scVars

-----------------------------------------------------------------------------
(* Properties                                                              *)

ScFiles == ToSet(read_sources(scCandidates).files)
ScSessions ==
    {f \in ScFiles : /\ f.data.decodes /\ ~is_credential_path(f.path)
                     /\ classify_source(f.path) = "SessionIni"
                     /\ f.data.form.proto \in {"ssh1", "ssh2", "ssh"} /\ f.data.form.host # ""}
ScCredentials(title) ==
    {f.data.form : f \in {x \in ScFiles : /\ x.data.decodes /\ is_credential_path(x.path)
                                          /\ title # "" /\ credential_key(x.path) = title}}
ScOpen(form) == decrypt_config_password(Ciphertext(form), DEFAULT_PASSPHRASE)
ScRecord(f) == {r \in ToSet(scReport.records) : r.id = <<"ssh", f.path>>}

\* Without consent no record holds a password; with it, a session without a key
\* holds the password of the credential it names if that can be opened, wherever
\* the credential's file stands in the order of files.
ScCredentialCounts ==
    \A f \in ScSessions : \A r \in ScRecord(f) :
        /\ ~scReport.include => r.password = ""
        /\ LET form == f.data.form
               named == {ScOpen(c) : c \in ScCredentials(form.title)}
           IN  scReport.include /\ form.identity = "" /\ named # {} /\ "" \notin named
                  => r.password \in named

\* A session that names no credential and has no key holds the plaintext of its own
\* newer field; what cannot be opened is not held, and the record says so.
ScOwnPassword ==
    \A f \in ScSessions : \A r \in ScRecord(f) :
        LET form == f.data.form
        IN  scReport.include /\ form.identity = "" /\ form.pw = "" =>
               /\ ScCredentials(form.title) = {} => r.password = ScOpen(form)
               /\ r.password = "" /\ Ciphertext(form) # "" => r.status = "unsupported" /\ r.warned
               /\ r.status = "included" <=> r.password # ""

\* Every session that could be read is shown once, and the scan counted what the
\* preview shows.
ScNothingIsLost ==
    /\ \A f \in ScSessions : Cardinality(ScRecord(f)) = 1
    /\ \A i, j \in DOMAIN scReport.records : scReport.records[i].id = scReport.records[j].id => i = j
    /\ scScanned # ScNotYet => scScanned.count = Len(scReport.records)

\* The group of a session found below a directory has a workspace, and so have the
\* groups above it, unless the user picked a directory further down.
ScGroupsAreShown ==
    \A c \in ToSet(scCandidates) : c.dir /\ Len(candidate_directory_prefix(c.path)) <= 1 =>
        \A f \in ScSessions :
            (\E e \in ToSet(c.entries) : f.path = candidate_directory_prefix(c.path) \o e.path)
            => \A k \in 1..Len(session_file_group_path(f.path)) :
                  workspace_record(SubSeq(session_file_group_path(f.path), 1, k)) \in ToSet(scReport.records)

\* A directory the host could not read, that lies too deep or has a name that leads
\* elsewhere is reported by the scan for what it is, and so is a file of a known kind
\* that the host could not read or that is one too many.  (The preview passes no
\* warning on.)
ScOffered(path) ==
    {<<n, i>> \in UNION {{n} \X DOMAIN scCandidates[n].entries : n \in DOMAIN scCandidates} :
        LET c == scCandidates[n] e == c.entries[i]
        IN  /\ c.dir /\ ~e.dir /\ candidate_directory_prefix(c.path) \o e.path = path
            /\ Entered(c, e) /\ safe_relative_path(Last(e.path))}
    \cup {<<n, 0>> : n \in {k \in DOMAIN scCandidates : ~scCandidates[k].dir /\ scCandidates[k].path = path}}
ScSkipsAreTold ==
    scScanned # ScNotYet =>
        LET told == ToSet(scScanned.warnings)
        IN  \A c \in {d \in ToSet(scCandidates) : d.dir} : \A e \in {x \in ToSet(c.entries) : Entered(c, x)} :
                LET path == candidate_directory_prefix(c.path) \o e.path
                    read == Len(SelectSeq(read_sources(scCandidates).files, LAMBDA f : f.path = path))
                IN  CASE ~safe_relative_path(Last(e.path)) -> "unsafe_path" \in told
                      [] safe_relative_path(Last(e.path)) /\ e.dir ->
                            /\ Len(e.path) > ScMaxDepth => "depth_exceeded" \in told
                            /\ Len(e.path) <= ScMaxDepth /\ ~e.ok => "read_directory_failed" \in told
                      [] OTHER -> read < Cardinality(ScOffered(path)) /\ classify_source(path) # "none"
                                     => told \cap {"read_file_failed", "source_limit_reached"} # {}

SecureCrtSafe ==
    scReport # ScNotYet =>
        /\ ScCredentialCounts /\ ScOwnPassword
        /\ ScNothingIsLost /\ ScGroupsAreShown /\ ScSkipsAreTold

\* "include_passwords_never_exposes_securecrt_ciphertext": whether or not passwords
\* are imported, no record holds what SecureCRT had encrypted.
CiphertextStaysInside ==
    scReport # ScNotYet =>
        \A r \in ToSet(scReport.records) : r.kind = "ssh" => r.password \notin DOMAIN ScCiphers
-------------------------------------------------------------------------------
(***************************************************************************)
(* The reader of SecureCRT's XML export: a document of nested keys and of  *)
(* fields inside them, read event by event.  A key below Sessions is a     *)
(* session or a folder, a key below a button bar a button; keys nested too *)
(* deeply are skipped.  The XML parser (quick-xml) hands over the events   *)
(* and sees to it that every end has its start; the text may break off     *)
(* anywhere.                                                               *)
(***************************************************************************)

CONSTANTS SxPath,         \* the path of the export
          SxDocuments,    \* documents: sequences of events
          SxFlat,         \* field k/name -> the button k and its other two fields
          SxCredentials,  \* title -> credential
          SxInclude,      \* include_passwords
          SxMaxDepth      \* MAX_XML_DEPTH

VARIABLES sxDocument, sxAt,  \* the document, and how much of it has been read
          sxStack, sxField, sxIgnored, sxRecords, sxWarnings, sxTooDeep, sxCount, sxState
sxFound == <<sxRecords, sxWarnings, sxCount>>
sxVars == <<sxDocument, sxAt, sxStack, sxField, sxIgnored, sxTooDeep, sxFound, sxState>>

KeyFrame(name) == [name |-> name, fields |-> <<>>, field_order |-> <<>>, child_buttons |-> <<>>]

\* The value of a field, "" when it is missing or empty.
FieldOf(fields, name) == IF name \in DOMAIN fields THEN fields[name] ELSE ""

-----------------------------------------------------------------------------
(* A key has ended.                                                        *)

PositionOf(names, wanted) ==
    LET at == {i \in DOMAIN names : names[i] \in wanted}
    IN  IF at = {} THEN 0 ELSE Min(at)

button_bar_index(names) == PositionOf(names, {"Button Bar", "Button Bars"})

XmlForm(fields) ==
    [ScForm EXCEPT !.proto = FieldOf(fields, "proto"), !.host = FieldOf(fields, "host"),
                   !.pwv2 = FieldOf(fields, "pwv2"), !.title = FieldOf(fields, "title"),
                   !.ports.ssh2 = FieldOf(fields, "port"), !.ports.any = FieldOf(fields, "anyport")]

\* The ports are asked for version by version, whatever the protocol.
xml_ports(f) == <<f.ports.ssh2, f.ports.any>>

finish_session(frame, names, at) ==
    LET f == enrich_from_credential(XmlForm(frame.fields), SxCredentials)
        record == ssh_record(<<SxPath, SubSeq(names, at, Len(names))>>,
                             SubSeq(names, at + 1, Len(names) - 1), f, PortOf(xml_ports(f)), SxInclude)
    IN  [record EXCEPT !.warnings = PortWarning(xml_ports(f)) \o @]

\* The nth button with the same key gets a key of its own.
SourceKey(buttons, i) ==
    <<buttons[i].name, Cardinality({j \in 1..i : buttons[j].name = buttons[i].name})>>

\* Buttons that are fields k/name, k/function, k/command of the bar itself.
ordered_names(frame) == SelectSeq(frame.field_order, LAMBDA n : n \in DOMAIN SxFlat)

finish_button_bar(frame, group) ==
    LET nested == [i \in DOMAIN frame.child_buttons |->
                     LET b == frame.child_buttons[i]
                     IN  [key |-> SourceKey(frame.child_buttons, i), action |-> FieldOf(b.fields, "function"),
                          command |-> FieldOf(b.fields, "command")]]
        flat == [i \in DOMAIN ordered_names(frame) |->
                     LET b == SxFlat[ordered_names(frame)[i]]
                     IN  [key |-> <<b.key, 1>>, action |-> FieldOf(frame.fields, b.function),
                          command |-> FieldOf(frame.fields, b.command)]]
        Press(s, b) ==
            CASE b.action # "SEND" -> [s EXCEPT !.warnings = Append(@, "action_not_imported")]
              [] b.action = "SEND" /\ b.command = "" -> s
              [] OTHER -> [s EXCEPT !.records =
                    Append(@, quick_command_record(<<SxPath, group, b.key>>, <<group>>, b.command,
                                                   sxCount + Len(@)))]
    IN  FoldLeft(Press, NoSession, nested \o flat)

\* The names of all the keys that are open decide what the one that ends is.
Finished(frame, names, session, bar) ==
    CASE session # 0 /\ Len(names) > session -> finish_session(frame, names, session)
      [] session = 0 /\ bar # 0 /\ Len(names) = bar + 1 -> finish_button_bar(frame, names[bar + 1])
      [] OTHER -> NoSession

TakeRecords(parsed, isBar) ==
    /\ sxRecords' = sxRecords \o parsed.records
    /\ sxWarnings' = sxWarnings \o parsed.warnings
    /\ sxCount' = sxCount + IF isBar THEN Len(parsed.records) ELSE 0

finish_key ==
    LET frame == Last(sxStack)
        rest == Front(sxStack)
        names == [i \in DOMAIN sxStack |-> sxStack[i].name]
        session == PositionOf(names, {"Sessions"})
        bar == button_bar_index(names)
        isButton == session = 0 /\ bar # 0 /\ Len(names) > bar + 1
    IN  /\ sxStack' = IF isButton THEN [rest EXCEPT ![Len(rest)].child_buttons = Append(@, frame)] ELSE rest
        /\ TakeRecords(Finished(frame, names, session, bar), session = 0 /\ bar # 0 /\ Len(names) = bar + 1)

-----------------------------------------------------------------------------
(* The events.                                                             *)

SxEvent == sxDocument[sxAt + 1]

Reads(event) ==
    /\ sxState = "reading" /\ sxAt < Len(sxDocument)
    /\ SxEvent.event = event
    /\ sxAt' = sxAt + 1
    /\ UNCHANGED <<sxDocument, sxState>>

push_key(name) ==
    IF Len(sxStack) >= SxMaxDepth
    THEN sxIgnored' = 1 /\ sxTooDeep' = TRUE /\ UNCHANGED sxStack
    ELSE sxStack' = Append(sxStack, KeyFrame(name)) /\ UNCHANGED <<sxIgnored, sxTooDeep>>

StartKey ==
    /\ Reads("key")
    /\ IF sxIgnored > 0 THEN sxIgnored' = sxIgnored + 1 /\ UNCHANGED <<sxStack, sxTooDeep>>
       ELSE push_key(SxEvent.name)
    /\ UNCHANGED <<sxField, sxFound>>

StartField ==
    /\ Reads("field")
    /\ sxField' = IF sxIgnored > 0 THEN sxField ELSE SxEvent.name
    /\ UNCHANGED <<sxStack, sxIgnored, sxTooDeep, sxFound>>

insert_field(name, value) ==
    IF sxStack = <<>> THEN UNCHANGED sxStack
    ELSE LET f == Last(sxStack)
             known == name \in DOMAIN f.fields
         IN  sxStack' = [sxStack EXCEPT ![Len(sxStack)] =
                [f EXCEPT !.fields = [n \in DOMAIN f.fields \cup {name} |-> IF n = name THEN value ELSE @[n]],
                          !.field_order = IF known THEN @ ELSE Append(@, name)]]

\* A field whose text comes in several pieces keeps the last.
FieldText ==
    /\ Reads("text")
    /\ IF sxField = "" THEN UNCHANGED sxStack ELSE insert_field(sxField, SxEvent.value)
    /\ UNCHANGED <<sxField, sxIgnored, sxTooDeep, sxFound>>

\* An empty element is inserted also where everything else is skipped.
EmptyField ==
    /\ Reads("empty")
    /\ insert_field(SxEvent.name, "")
    /\ UNCHANGED <<sxField, sxIgnored, sxTooDeep, sxFound>>

EndField ==
    /\ Reads("end_field")
    /\ sxField' = IF sxIgnored > 0 THEN sxField ELSE ""
    /\ UNCHANGED <<sxStack, sxIgnored, sxTooDeep, sxFound>>

EndKey ==
    /\ Reads("end_key")
    /\ IF sxIgnored > 0 THEN sxIgnored' = sxIgnored - 1 /\ UNCHANGED <<sxStack, sxFound>>
       ELSE finish_key /\ UNCHANGED sxIgnored
    /\ UNCHANGED <<sxField, sxTooDeep>>

\* The end of the text, or an error of the parser: a document that breaks off
\* yields nothing.
EndOfText(error) ==
    /\ sxState = "reading"
    /\ LET failed == error \/ sxStack # <<>> \/ sxField # "" \/ sxIgnored > 0
       IN  /\ sxState' = IF failed THEN "failed" ELSE "done"
           /\ sxRecords' = IF failed THEN <<>> ELSE sxRecords
           /\ sxWarnings' = sxWarnings \o (IF failed THEN <<"parse_failed">> ELSE <<>>)
                                       \o (IF sxTooDeep THEN <<"depth_exceeded">> ELSE <<>>)
    /\ UNCHANGED <<sxDocument, sxAt, sxStack, sxField, sxIgnored, sxTooDeep, sxCount>>

SxInit ==
    /\ sxDocument \in SxDocuments /\ sxAt = 0
    /\ sxStack = <<>> /\ sxField = "" /\ sxIgnored = 0 /\ sxTooDeep = FALSE
    /\ sxRecords = <<>> /\ sxWarnings = <<>> /\ sxCount = 0 /\ sxState = "reading"

SxNext ==
    \/ StartKey \/ StartField \/ FieldText \/ EmptyField \/ EndField \/ EndKey
    \/ \E error \in BOOLEAN : EndOfText(error)

SxSpec == SxInit /\ [][SxNext]_sxVars

-----------------------------------------------------------------------------
(* Properties: the records against the document as a tree.                 *)

sxLog == SubSeq(sxDocument, 1, sxAt)
IsKey(i) == sxLog[i].event = "key"
SxDepth(i) == Cardinality({j \in 1..i : IsKey(j)}) - Cardinality({j \in 1..i : sxLog[j].event = "end_key"})
EndOf(i) == Min({j \in i + 1..Len(sxLog) : sxLog[j].event = "end_key" /\ SxDepth(j) = SxDepth(i) - 1})
Around(i) == {j \in 1..i : IsKey(j) /\ EndOf(j) >= EndOf(i)}
NamesOf(i) ==
    LET order == SetToSortSeq(Around(i), LAMBDA a, b : a < b)
    IN  [k \in DOMAIN order |-> sxLog[order[k]].name]

\* The last value a key's own field was given.
OwnField(i, name) ==
    LET at == {k \in i + 1..EndOf(i) - 1 : /\ sxLog[k].event \in {"text", "empty"} /\ sxLog[k].name = name
                                          /\ SxDepth(k) = SxDepth(i)}
    IN  IF at = {} THEN "" ELSE sxLog[Max(at)].value

SxKeysRead == {i \in DOMAIN sxLog : IsKey(i) /\ SxDepth(i) <= SxMaxDepth}
BelowSessions(names) ==
    LET at == PositionOf(names, {"Sessions"}) IN at # 0 /\ at < Len(names)
SessionKeys ==
    {i \in SxKeysRead : /\ BelowSessions(NamesOf(i))
                        /\ OwnField(i, "proto") = "ssh2" /\ OwnField(i, "host") # ""}
IsBar(names) == /\ PositionOf(names, {"Sessions"}) = 0 /\ button_bar_index(names) # 0
                /\ Len(names) = button_bar_index(names) + 1
BarKeys == {i \in SxKeysRead : IsBar(NamesOf(i))}
ButtonKeys == {i \in SxKeysRead : \E b \in BarKeys : b \in Around(i) /\ SxDepth(i) = SxDepth(b) + 1}

\* The records of the sessions are those of the keys, in their order.
RecordOfKey(r, names, at, host) ==
    /\ r.id[2] = <<SxPath, SubSeq(names, at, Len(names))>>
    /\ r.group = SubSeq(names, at + 1, Len(names) - 1)
    /\ r.host = host
NamedAs(r, names, host) == RecordOfKey(r, names, PositionOf(names, {"Sessions"}), host)
RecordsOfKeys(ssh, order) ==
    /\ Len(ssh) = Len(order)
    /\ \A n \in DOMAIN ssh : NamedAs(ssh[n], NamesOf(order[n]), OwnField(order[n], "host"))

\* No empty element stands where keys are skipped for their depth.
SkipsAreClean ==
    \A k \in DOMAIN sxLog : sxLog[k].event = "empty" => SxDepth(k) <= SxMaxDepth

\* A whole document yields each session under its own name and group with the values
\* of its own fields, and each button that sends a command, in order; every key
\* skipped for its depth is reported.
SxRecordsAreTrue ==
    sxState = "done" /\ SkipsAreClean =>
        LET quick == SelectSeq(sxRecords, LAMBDA r : r.kind = "quick_command")
        IN  /\ RecordsOfKeys(SelectSeq(sxRecords, LAMBDA r : r.kind = "ssh"),
                             SetToSortSeq(SessionKeys, LAMBDA a, b : EndOf(a) < EndOf(b)))
            /\ Len(quick) = Cardinality({i \in ButtonKeys : /\ OwnField(i, "function") = "SEND"
                                                            /\ OwnField(i, "command") # ""})
                            + Cardinality({<<i, n>> \in BarKeys \X DOMAIN SxFlat :
                                 /\ \E k \in i + 1..EndOf(i) - 1 : /\ sxLog[k].event \in {"text", "empty"}
                                                                  /\ sxLog[k].name = n
                                                                  /\ SxDepth(k) = SxDepth(i)
                                 /\ OwnField(i, SxFlat[n].function) = "SEND"
                                 /\ OwnField(i, SxFlat[n].command) # ""})
            /\ \A n \in DOMAIN quick : quick[n].order = n - 1
            /\ (\E i \in DOMAIN sxLog : IsKey(i) /\ SxDepth(i) > SxMaxDepth)
                  => "depth_exceeded" \in ToSet(sxWarnings)
===============================================================================
