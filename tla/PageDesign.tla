------------------------------- MODULE PageDesign ------------------------------
(***************************************************************************)
(* What the server makes of the documents a business edits as a whole: the *)
(* design of its page (parsePageDesign) and its list of services           *)
(* (parseServices).  Each either refuses what the app sent or answers a    *)
(* clean copy, which is stored and parsed again every time it is read.     *)
(*                                                                         *)
(* A text is abstracted to what the parsers tell apart:                    *)
(*   "absent" (undefined or null)   "" (the empty text)   "blank" (spaces) *)
(*   "plain"  "handle"  "link"  "date"  fit their field, and are trimmed   *)
(*   "long" passes every limit      "wrong" is not a text at all           *)
(***************************************************************************)
EXTENDS Lists

CONSTANTS
    PAGE_SECTIONS,      \* the built-in sections, in their order
    MAX_CUSTOM_BLOCKS,  \* blocks a business adds
    MAX_BLOCK_ITEMS,    \* entries of a block's list
    MAX_TESTIMONIALS,
    MAX_SERVICES,
    Refusal             \* where the code throws a ValidationError

TextValue == {"absent", "", "blank", "plain", "handle", "link", "date", "long", "wrong"}

ASSUME DesignConstants ==
    /\ PAGE_SECTIONS \in Seq({"about", "services", "gallery", "hours", "testimonials", "map", "contact"})
    /\ IsInjective(PAGE_SECTIONS)
    /\ MAX_CUSTOM_BLOCKS \in Nat /\ MAX_BLOCK_ITEMS \in Nat
    /\ MAX_TESTIMONIALS \in Nat /\ MAX_SERVICES \in Nat

Refuses(parsed) == Refusal \in parsed

--------------------------------------------------------------------------------
(***************************************************************************)
(* Blocks.                                                                 *)
(***************************************************************************)

text(value) ==
    CASE value \in {"absent", "", "blank"} -> ""
      [] value \in {"long", "wrong"}       -> Refusal
      [] OTHER                             -> value

link(value)   == IF text(value) \in {"", "link", Refusal} THEN text(value) ELSE Refusal
handle(value) == IF text(value) \in {"", "handle", "link", Refusal} THEN text(value) ELSE Refusal

\* promo: the day it ends; spaces are not a day.
until(value) == CASE value \in {"absent", ""} -> "absent"
                  [] value = "date"           -> "date"
                  [] OTHER                    -> Refusal

\* A list is absent, wrong (not an array) or has rows.
List(rows) == [is |-> "list", rows |-> rows]

\* Every row's texts are looked at, and those without a name or a detail are dropped.
items(value, priced) ==
    LET row(e) == [f \in {"name", "detail"} \cup (IF priced THEN {"price"} ELSE {}) |->
                      IF f \in DOMAIN e THEN text(e[f]) ELSE ""]
        rows   == value.rows
    IN  IF value.is = "absent" THEN List(<<>>)
        ELSE IF \/ value.is = "wrong" \/ Len(rows) > MAX_BLOCK_ITEMS
                \/ \E i \in DOMAIN rows : \E f \in DOMAIN row(rows[i]) : row(rows[i])[f] = Refusal
        THEN Refusal
        ELSE List(Picked([i \in DOMAIN rows |-> row(rows[i])],
                         {i \in DOMAIN rows : row(rows[i]).name # "" \/ row(rows[i]).detail # ""}))

\* Which parser each field of a block goes through.
Fields ==
    [hero   |-> [title |-> "text", subtitle |-> "text"],
     text   |-> [title |-> "text", body |-> "text"],
     prices |-> [title |-> "text", items |-> "priced"],
     faq    |-> [title |-> "text", items |-> "items"],
     team   |-> [title |-> "text", items |-> "items"],
     promo  |-> [title |-> "text", body |-> "text", until |-> "until"],
     social |-> [instagram |-> "handle", facebook |-> "handle", tiktok |-> "handle",
                 website |-> "link"],
     video  |-> [title |-> "text", url |-> "link"]]

PAGE_BLOCK_TYPES == DOMAIN Fields

parseField(parser, value) ==
    CASE parser = "text"   -> text(value)
      [] parser = "link"   -> link(value)
      [] parser = "handle" -> handle(value)
      [] parser = "until"  -> until(value)
      [] parser = "items"  -> items(value, FALSE)
      [] parser = "priced" -> items(value, TRUE)

Absent(parser) == IF parser \in {"items", "priced"} THEN [is |-> "absent"] ELSE "absent"

parseBlockData(kind, data) ==
    LET parser == Fields[kind]
        parsed == [f \in DOMAIN parser |->
                      parseField(parser[f], IF f \in DOMAIN data THEN data[f] ELSE Absent(parser[f]))]
    IN  IF Refuses({parsed[f] : f \in DOMAIN parsed}) THEN Refusal ELSE parsed

--------------------------------------------------------------------------------
(***************************************************************************)
(* parsePageDesign.                                                        *)
(***************************************************************************)

\* A design saved before blocks existed has entries without a type.
KindOf(entry) == IF "type" \in DOMAIN entry THEN entry.type ELSE entry.id

Section(id) == [id |-> id, type |-> id, enabled |-> TRUE, data |-> <<>>]

\* done: what was taken so far, the ids seen, and the blocks added; an entry without
\* an id, one seen before, an unknown type or a built-in under another name is skipped.
takeEntry(done, entry) ==
    LET kind    == KindOf(entry)
        builtin == kind \in ToSet(PAGE_SECTIONS)
        block   == [id |-> entry.id, type |-> kind, enabled |-> entry.enabled,
                    data |-> IF builtin THEN <<>> ELSE parseBlockData(kind, entry.data)]
    IN  IF \/ done = Refusal
           \/ entry.id \in {"wrong"} \cup done.seen
           \/ builtin /\ entry.id # kind
           \/ ~builtin /\ kind \notin PAGE_BLOCK_TYPES
        THEN done
        ELSE IF \/ ~builtin /\ (entry.id = "bad id" \/ done.blocks = MAX_CUSTOM_BLOCKS)
                \/ block.data = Refusal
        THEN Refusal
        ELSE [sections |-> Append(done.sections, block),
              seen     |-> done.seen \cup {entry.id},
              blocks   |-> done.blocks + (IF builtin THEN 0 ELSE 1)]

\* Mutant: what the app left out is gone.
SectionsAsSent(entries) ==
    LET done == FoldLeft(takeEntry, [sections |-> <<>>, seen |-> {}, blocks |-> 0], entries)
    IN  IF done = Refusal THEN Refusal ELSE done.sections

\* A built-in section nobody mentioned keeps a place at the end.
parseSections(entries) ==
    LET done == FoldLeft(takeEntry, [sections |-> <<>>, seen |-> {}, blocks |-> 0], entries)
        left == {i \in DOMAIN PAGE_SECTIONS : PAGE_SECTIONS[i] \notin done.seen}
    IN  IF done = Refusal THEN Refusal
        ELSE done.sections \o Picked([i \in DOMAIN PAGE_SECTIONS |-> Section(PAGE_SECTIONS[i])], left)

\* A testimonial needs a text; an author that is not a text counts as none.
parseTestimonials(entries) ==
    IF \/ Len(entries) > MAX_TESTIMONIALS
       \/ \E i \in DOMAIN entries : \/ entries[i].text \in {"absent", "", "blank", "wrong", "long"}
                                    \/ entries[i].author = "long"
    THEN Refusal
    ELSE [i \in DOMAIN entries |-> [text   |-> entries[i].text,
                                    author |-> IF entries[i].author = "wrong" THEN ""
                                               ELSE text(entries[i].author)]]

\* template, font, textSize and the colors: the default, one of the list, or refused.
oneOf(value) == CASE value = "absent" -> "default" [] value = "unknown" -> Refusal [] OTHER -> value

\* logo and cover.
picture(value) == IF value \in {"absent", "", "wrong"} THEN "absent" ELSE value

parsePageDesign(raw) ==
    LET design == [look         |-> oneOf(raw.look),
                   logo         |-> picture(raw.logo),
                   sections     |-> parseSections(raw.sections),
                   testimonials |-> parseTestimonials(raw.testimonials)]
    IN  IF Refuses({design[f] : f \in DOMAIN design}) THEN Refusal ELSE design

\* normalizeDesign: a stored design is read through the parser, or served as it is.
normalizeDesign(design) == IF parsePageDesign(design) = Refusal THEN design ELSE parsePageDesign(design)

--------------------------------------------------------------------------------
(***************************************************************************)
(* parseServices.  A price is "absent", "price" or "wrong", and so is a    *)
(* duration.                                                               *)
(***************************************************************************)

isBlank(value) == value \in {"absent", "", "blank", "wrong"}

trimmed(value) == IF isBlank(value) THEN "" ELSE value

\* Rows with neither a name nor a detail are dropped first; one bad row refuses the list.
parseServices(input) ==
    LET rows == Picked(input, {i \in DOMAIN input : ~(isBlank(input[i].name) /\ isBlank(input[i].detail))})
        bad(i) == \/ rows[i].id = "bad id"
                  \/ \E j \in 1..(i - 1) : rows[j].id = rows[i].id
                  \/ isBlank(rows[i].name) \/ rows[i].name = "long"
                  \/ rows[i].detail = "long"
                  \/ rows[i].price = "wrong" \/ rows[i].minutes = "wrong"
    IN  IF Len(rows) > MAX_SERVICES \/ \E i \in DOMAIN rows : bad(i) THEN Refusal
        ELSE [i \in DOMAIN rows |-> [rows[i] EXCEPT !.detail = trimmed(@)]]

--------------------------------------------------------------------------------
(***************************************************************************)
(* What the parsers promise, for one document each; MCRules has them.      *)
(***************************************************************************)

\* A block that takes the name of a built-in section.
TakesName(entry) == entry.id \in ToSet(PAGE_SECTIONS) /\ KindOf(entry) \in PAGE_BLOCK_TYPES

\* page-design.ts: "every field present, sections deduplicated and covering the full known
\* set".  No sequence of entries loses a built-in section (unless a block took its name),
\* doubles one or passes the limit, and what is stored is read back as it was, in its order.
SectionsSurvive(document) ==
    LET s == parseSections(document) IN
    s # Refusal =>
        /\ \A i, j \in DOMAIN s : s[i].id = s[j].id => i = j
        /\ \A id \in ToSet(PAGE_SECTIONS) :
              \/ \E i \in DOMAIN s : s[i] \in {[Section(id) EXCEPT !.enabled = e] : e \in BOOLEAN}
              \/ \E i \in DOMAIN document : document[i].id = id /\ TakesName(document[i])
        /\ Cardinality({i \in DOMAIN s : s[i].type \in PAGE_BLOCK_TYPES}) <= MAX_CUSTOM_BLOCKS
        /\ parseSections(s) = s

\* No block is stored with a text it may not hold, and reading it back changes nothing.
BlockSettles(kind, data) ==
    LET d == parseBlockData(kind, data) IN
    d # Refusal => /\ DOMAIN d = DOMAIN Fields[kind]
                   /\ \A x \in DOMAIN d \ {"items"} : d[x] \notin {"blank", "long", "wrong"}
                   /\ parseBlockData(kind, d) = d

\* service-catalog.ts: rows half added go, anything else wrong refuses the list; the ids
\* bookings point at stay, stay distinct, and stay in their order.
ServicesKeepIds(input) ==
    LET s == parseServices(input) IN
    s # Refusal => /\ \A i, j \in DOMAIN s : s[i].id = s[j].id => i = j
                   /\ \A i \in DOMAIN s : ~isBlank(s[i].name) /\ s[i].id # "bad id"
                   /\ LET named == Picked(input, {i \in DOMAIN input : ~isBlank(input[i].name)})
                      IN  [i \in DOMAIN s |-> s[i].id] = [i \in DOMAIN named |-> named[i].id]
                   /\ parseServices(s) = s

\* A design that is stored is served as it was stored, with every testimonial.
DesignSettles(raw) ==
    LET d == parsePageDesign(raw) IN
    d # Refusal => /\ normalizeDesign(d) = d /\ parsePageDesign(d) = d
                   /\ Len(d.testimonials) = Len(raw.testimonials)
                   /\ Len(d.testimonials) <= MAX_TESTIMONIALS
================================================================================
