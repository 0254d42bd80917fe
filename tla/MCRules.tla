-------------------------------- MODULE MCRules --------------------------------
(***************************************************************************)
(* The rules of Rules, the parsers of PageDesign, the fields of a page     *)
(* (ProfileFields) and the comparison of faces (FaceMatch), each over a    *)
(* set of inputs: a state is a rule and an input of it.                    *)
(***************************************************************************)
EXTENDS Rules, PageDesign, ProfileFields, FaceMatch

CONSTANTS
    Years,      \* the years dates are in
    Prices,     \* rates, in cents
    Ratings     \* bones given in reviews

ASSUME MCRulesConstants == Years \subseteq Nat \ {0} /\ Prices \subseteq Nat /\ Ratings \subseteq 1..5

VARIABLE input

MCSections == <<"about", "map">>

UpTo(n, S) == UNION {[1..k -> S] : k \in 0..n}

Dates == {date \in [year : Years, month : 1..12, day : {1, 15, 28, 29, 30, 31}] :
             date.day <= DaysIn(date.year, date.month)}

StatDays == {Date(y, m, 1) : y \in Years, m \in {1, 2, 11, 12}}
StatRows == [day : StatDays, kind : {"view", "directions", "share"}, count : {1, 2}]

Patterns == [weekdays : {{}, {1}, {0, 6}, {1, 3, 5}}, time : {1}, count : {1, 3, 9},
                until : {2, 10, 99}]

SomeWalks == [status : {"confirmed", "completed", "cancelled"}, at : {11, 15, 16, 27, 28},
              done : {15, 16, 29}, rate : {3}]

Profiles == [visible : BOOLEAN, rate : Prices \cup {0},
             services : [{1, 2} -> [price : Prices \cup {0}, minutes : {0, 90}]]]
Lines    == [service : {0, 1, 3}, value : {1, 45}, unit : {"min", "hour"}, meetGreet : BOOLEAN]

Entries ==
    [id : ToSet(PAGE_SECTIONS), enabled : BOOLEAN, data : {<<>>}]
    \cup {[id |-> i, type |-> i, enabled |-> TRUE, data |-> <<>>] : i \in ToSet(PAGE_SECTIONS)}
    \cup [id : {"k1"}, type : {"about"}, enabled : {TRUE}, data : {<<>>}]
    \cup [id : {"k1", "k2", "bad id"}, type : {"promo"}, enabled : {TRUE},
          data : [title : {"plain"}, until : {"", "date"}]]
    \cup [id : {"about"}, type : {"text"}, enabled : {TRUE}, data : [body : {"blank"}]]

Values(parser) ==
    IF parser \in {"items", "priced"}
    THEN [is : {"absent", "wrong"}]
         \cup {List(rows) : rows \in UpTo(2, [name  : {"absent", "blank", "plain"},
                                              price : {"plain", "long", "absent"}])}
    ELSE TextValue

Rows == [id : {"s1", "s2", "bad id"}, name : {"absent", "blank", "plain", "long"},
         detail : {"", "blank", "plain"}, price : {"absent", "price", "wrong"}, minutes : {"absent"}]

Designs == [look : {"absent", "minimal", "unknown"}, logo : {"absent", "", "wrong", "url"},
            sections : {<<>>},
            testimonials : UpTo(2, [text : TextValue, author : {"wrong", "blank", "plain", "long"}])]

\* A text at each side of the limit of its field, before it is trimmed and after.
Texts(f) == {Undefined, Null, Empty, Text(1, 0), Text(1, 1)}
            \cup LET n == ProfileLimit[f] IN {Text(n, n), Text(n + 1, n), Text(n + 1, n + 1)}

NoEdit == [f \in PageField |-> IF f \in Coordinate THEN "undefined" ELSE Undefined]

\* What another field is sent as.
Besides == {Undefined, Text(5, 4)}

Edit(f, v, b, at) == [NoEdit EXCEPT ![f] = v, ![IF f = "bio" THEN "hours" ELSE "bio"] = b,
                                    !.latitude = at[1], !.longitude = at[2]]

Edits(f, places) == {Edit(f, v, b, at) : v \in Texts(f), b \in Besides, at \in places}

Somewhere == {<<"undefined", "undefined">>, <<"on", "on">>}
Anywhere  == {"undefined", "null", "on", "off"} \X {"undefined", "null", "on", "off"}

OnALine(f) == Texts(f) \cup {Wrong}
Elsewhere  == {Undefined, Text(2, 0), Text(9, 9)}

Pastes(f) ==
    {[[x \in DOMAIN InvitationLimit \cup {"categoryKnown"} |->
          CASE x = "categoryKnown" -> known [] x = "businessName" -> Text(4, 4) [] OTHER -> rest]
         EXCEPT ![f] = v] :
        v \in OnALine(f), rest \in Elsewhere, known \in BOOLEAN}

Verifications == [status : {"pending", "verified", "rejected"}, selfie : StoredPhoto,
                  idDocument : StoredPhoto,
                  match : {Result("none", NULL), Result("compared", 412), Result("no_face_id", NULL)}]

Answers == {Faces(scores, n) : scores \in UpTo(2, {0, 6994, 6995, 9980}), n \in 0..1}
           \cup {Fails(name) : name \in {"InvalidParameter", "SignatureDoesNotMatch",
                                         "AccessDenied", "Timeout"}}

\* The first part of each rule's input; the invariants take every second part.
Inputs ==
    [rule : {"period"}, of : Dates] \cup [rule : {"stats"}, of : StatRows]
    \cup [rule : {"recurrence"}, of : Patterns] \cup [rule : {"week"}, of : SomeWalks]
    \cup [rule : {"price"}, of : Profiles] \cup [rule : {"penalty"}, of : Prices]
    \cup [rule : {"ranking"}, of : UpTo(2, Ratings)] \cup [rule : {"sections"}, of : UpTo(2, Entries)]
    \cup [rule : {"block"}, of : {<<k, f>> : k \in PAGE_BLOCK_TYPES, f \in UNION {DOMAIN Fields[k] : k \in PAGE_BLOCK_TYPES}}]
    \cup [rule : {"services"}, of : Rows] \cup [rule : {"design"}, of : {<<>>}]
    \cup [rule : {"fields"}, of : ProfileField] \cup [rule : {"faces"}, of : Verifications]

Start == [rule |-> "none", of |-> <<>>]

RulesInit == input = Start

Pick == /\ input = Start
        /\ input' \in Inputs

RulesSpec == RulesInit /\ [][Pick]_input

For(rule, P(_)) == input.rule = rule => P(input.of)

\* What the calendar comes to: paid periods, statistics, occurrences and weeks.
CalendarRules ==
    /\ For("period", MonthsClamp)
    /\ For("stats", LAMBDA row : \A other \in StatRows, today \in StatDays :
                                      StatsAddUp(<<row, other>>, today))
    /\ For("recurrence", LAMBDA rule : \A from \in [day : 0..6, time : 0..2] :
                                      OccurrencesAsAsked(rule, from, 4))
    /\ For("week", LAMBDA walk : \A other \in SomeWalks : WeekIsWhole(<<walk, other>>))

\* What is charged, and who is shown first.
MarketRules ==
    /\ For("price", LAMBDA profile : \A a, b \in Lines : PricedFromEntry(profile, <<a, b>>))
    /\ For("penalty", LAMBDA rate : PenaltyGrows(rate, {-60, 0, 119, 120, 121, 600}))
    /\ For("ranking", LAMBDA x : \A y, z \in UpTo(2, Ratings) : RankingRewards(<<x, y, z>>))

\* What is stored of the documents a business edits as a whole: its design, its services,
\* its page, and the photos that prove who it is.
DocumentsSettle ==
    /\ For("sections", LAMBDA document : /\ SectionsSurvive(document)
                                           /\ \A last \in Entries : SectionsSurvive(Append(document, last)))
    /\ For("block", LAMBDA b : \A g \in DOMAIN Fields[b[1]] :
                b[2] \in DOMAIN Fields[b[1]] =>
                \A v \in Values(Fields[b[1]][b[2]]), w \in Values(Fields[b[1]][g]) :
                    BlockSettles(b[1], [x \in {b[2], g} |-> IF x = b[2] THEN v ELSE w]))
    /\ For("services", LAMBDA row : \A other \in Rows : ServicesKeepIds(<<row, other>>))
    /\ For("design", LAMBDA none : \A raw \in Designs : DesignSettles(raw))
    /\ For("fields", LAMBDA f :
                /\ \A a \in Edits(f, Somewhere), b \in Edits(f, Anywhere) : EditsKeepFields(a, b)
                /\ \A line \in Pastes(f), edit \in Edits(f, Somewhere) : PreparedPageFits(line, edit)
                /\ \A a, b \in Pastes(f) : BatchIsWhole(<<a, b>>) /\ BatchIsWhole(<<a, b, a>>))
    /\ For("faces", LAMBDA v : \A world \in World, answer \in Answers : FaceMatchAdvises(v, world, answer))
================================================================================
