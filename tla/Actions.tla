------------------------------ MODULE Actions ------------------------------
(***************************************************************************)
(* The commands whose --action picks one of several forms (record content, *)
(* record access): the rules by which internal/cmdutil/action.go rejects   *)
(* flags, checks what is required and picks the request to send.           *)
(*                                                                         *)
(* A command line is the set of flags given with a value and the set of    *)
(* flags given as the empty text; cobra counts both as changed, the        *)
(* handlers look at the value.                                             *)
(***************************************************************************)
EXTENDS FiniteSets, Sequences, Naturals

Line(given, empty) == [given |-> given, empty |-> empty]
Has(line, flag) == flag \in line.given
Changed(line) == line.given \cup line.empty

Always(reject) == [conditional |-> FALSE, applies |-> TRUE, reject |-> reject]
When(condition, reject) == [conditional |-> TRUE, applies |-> condition, reject |-> reject]

Handler(rules, valid, form) == [rules |-> rules, valid |-> valid, form |-> form]

(***************************************************************************)
(* A handler on a command line: its rules, whether Validate accepts and    *)
(* the form that ResolveApiCmd and Run both pick.                          *)
(***************************************************************************)
Pagination == {"page-token", "page-size"}

MinutesHandler(line) ==
  LET url == Has(line, "share-url") IN
  Handler(<<Always({"meeting-id", "pid", "limit", "text"}), When(~url, Pagination)>>,
          Has(line, "record-file-id") # url,
          IF url THEN "minutes(url)" ELSE "minutes(file)")

TodosHandler(line) ==
  Handler(<<Always({"share-url", "meeting-id", "pid", "limit", "text"} \cup Pagination)>>,
          Has(line, "record-file-id"), "todos")

TranscriptHandler(line) ==
  LET url == Has(line, "share-url")
      text == Has(line, "text") IN
  Handler(<<Always({"lang", "pwd"}),
            When(url, {"meeting-id", "pid", "limit"}),
            When(~url /\ text, {"pid", "limit"} \cup Pagination),
            When(~url /\ ~text, Pagination)>>,
          Has(line, "record-file-id") # url /\ ~(url /\ text),
          IF url THEN "transcript(url)"
          ELSE IF text THEN "transcript(search)" ELSE "transcript(details)")

ParagraphsHandler(line) ==
  Handler(<<Always({"share-url", "lang", "pwd", "pid", "limit", "text"} \cup Pagination)>>,
          Has(line, "record-file-id"), "paragraphs")

TimelineHandler(line) ==
  Handler(<<Always({"share-url", "pwd", "meeting-id", "pid", "limit", "text"} \cup Pagination)>>,
          Has(line, "record-file-id"), "timeline")

AddressHandler(line) ==
  Handler(<<Always({"record-file-id"})>>, Has(line, "meeting-record-id"), "address")

SharingHandler(line) ==
  Handler(<<Always({"record-file-id"} \cup Pagination)>>, Has(line, "meeting-record-id"), "sharing")

MembersHandler(line) ==
  Handler(<<Always({"record-file-id", "page-size"})>>, Has(line, "meeting-record-id"), "members")

SettingsHandler(line) ==
  Handler(<<Always({"meeting-record-id"} \cup Pagination)>>, Has(line, "record-file-id"), "settings")

ContentFlags == {"record-file-id", "share-url", "meeting-id", "lang", "pwd", "pid", "limit",
                 "text"} \cup Pagination
AccessFlags == {"meeting-record-id", "record-file-id"} \cup Pagination

ActionRegistry(action, line) ==
  CASE action = "minutes"    -> MinutesHandler(line)
    [] action = "todos"      -> TodosHandler(line)
    [] action = "transcript" -> TranscriptHandler(line)
    [] action = "paragraphs" -> ParagraphsHandler(line)
    [] action = "timeline"   -> TimelineHandler(line)
    [] action = "address"    -> AddressHandler(line)
    [] action = "sharing"    -> SharingHandler(line)
    [] action = "members"    -> MembersHandler(line)
    [] action = "settings"   -> SettingsHandler(line)

FlagsOf(action) ==
  IF action \in {"minutes", "todos", "transcript", "paragraphs", "timeline"}
  THEN ContentFlags ELSE AccessFlags

-----------------------------------------------------------------------------
(***************************************************************************)
(* Two rules without a condition, or two that apply, are a mistake in the  *)
(* table and stop the command.  Then the rejected flags, Validate and Run. *)
(***************************************************************************)
Where(rules, conditional) ==
  {i \in DOMAIN rules : rules[i].conditional = conditional /\ rules[i].applies}

ApplyFlagRules(rules, line) ==
  IF \E c \in BOOLEAN : Cardinality(Where(rules, c)) > 1 THEN "internal"
  ELSE IF \E i \in DOMAIN rules : rules[i].applies /\ rules[i].reject \cap Changed(line) # {}
       THEN "rejected" ELSE "allowed"

Dispatch(action, line) ==
  LET handler == ActionRegistry(action, line)
      flags == ApplyFlagRules(handler.rules, line) IN
  IF flags # "allowed" THEN flags
  ELSE IF handler.valid THEN handler.form ELSE "invalid"

-----------------------------------------------------------------------------
(***************************************************************************)
(* The matrix of the help text: a form, the flags it requires and those it *)
(* may have besides.                                                       *)
(***************************************************************************)
Row(action, form, required, optional) ==
  [action |-> action, form |-> form, required |-> required, optional |-> optional]

FormMatrix ==
  {Row("minutes", "minutes(file)", {"record-file-id"}, {"lang", "pwd"}),
   Row("minutes", "minutes(url)", {"share-url"}, {"lang", "pwd"} \cup Pagination),
   Row("todos", "todos", {"record-file-id"}, {"lang", "pwd"}),
   Row("transcript", "transcript(details)", {"record-file-id"}, {"meeting-id", "pid", "limit"}),
   Row("transcript", "transcript(search)", {"record-file-id", "text"}, {"meeting-id"}),
   Row("transcript", "transcript(url)", {"share-url"}, Pagination),
   Row("paragraphs", "paragraphs", {"record-file-id"}, {"meeting-id"}),
   Row("timeline", "timeline", {"record-file-id"}, {"lang"}),
   Row("address", "address", {"meeting-record-id"}, Pagination),
   Row("sharing", "sharing", {"meeting-record-id"}, {}),
   Row("members", "members", {"meeting-record-id"}, {"page-token"}),
   Row("settings", "settings", {"record-file-id"}, {})}

(***************************************************************************)
(* The rules accept what the matrix offers and nothing else, and run the   *)
(* form of that row.  They may also reject a flag given as the empty text; *)
(* only those of the rows' own choice of form pass unnoticed.              *)
(***************************************************************************)
Fits(row, action, line) ==
  row.action = action /\ row.required \subseteq line.given
                      /\ line.given \subseteq row.required \cup row.optional

ChoosesForm == {"record-file-id", "share-url", "text"}

FormsAgree(action, line) ==
  LET picked == Dispatch(action, line)
      rows == {row \in FormMatrix : Fits(row, action, line)} IN
  /\ picked # "internal"
  /\ picked \in {row.form : row \in FormMatrix} => \E row \in rows :
       /\ row.form = picked
       /\ line.empty \subseteq row.required \cup row.optional \cup ChoosesForm
  /\ rows # {} /\ line.empty = {} => picked \in {row.form : row \in rows}
=============================================================================
