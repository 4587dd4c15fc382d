--------------------------- MODULE SettingsRegistry ---------------------------
(****************************************************************************)
(* The catalogue of school settings and the two functions that go by it: the *)
(* one that accepts a text and gives it the form that is stored, and the one  *)
(* that makes a value of a stored text (settings-registry.ts).                *)
(*                                                                          *)
(* A text is what of it the seven types tell apart: its form and its content.  *)
(* Capital letters and leading zeros are left out.                            *)
(****************************************************************************)
EXTENDS Integers

CONSTANT NotANumber  \* what Number() makes of a text that is no numeral

ASSUME NotANumberAssumption == NotANumber \notin Int

Numeral(n) == <<"numeral", n>>
Word(w) == <<"word", w>>
Json(name) == <<"json", name>>             \* an object or an array
Color(c) == <<"color", c>>                 \* #RRGGBB with capitals
LowerColor(c) == <<"lower color", c>>
Clock(t) == <<"time", t>>                  \* HH:MM
Padded(text) == <<"padded", text>>         \* with blanks around it
Empty == <<"empty", "">>
TooLong == <<"long", "">>                  \* more than 200 characters

BoolTrue == {Word("true"), Numeral(1), Word("yes"), Word("on")}
BoolFalse == {Word("false"), Numeral(0), Word("no"), Word("off")}

-----------------------------------------------------------------------------
(* SETTINGS_REGISTRY: of every setting what the API goes by *)

NoLegacy == "none"

Setting(key, type, default) ==
    [key |-> key, type |-> type, default |-> default, min |-> 0, max |-> 0,
     enum |-> {}, legacyKey |-> NoLegacy]

Whole(key, min, max, default) ==
    [Setting(key, "int", Numeral(default)) EXCEPT !.min = min, !.max = max]

Enum(key, words, default) ==
    [Setting(key, "enum", Word(default)) EXCEPT !.enum = {Word(w) : w \in words}]

Bool(key, default) == Setting(key, "bool", Word(default))

AcademicSettings ==
    {Whole("academic.year_start_month", 1, 12, 4),
     Setting("academic.working_days", "json", Json("monday to saturday"))}

TimetableSettings == {Whole("timetable.periods_per_day", 4, 12, 8)}

AttendanceSettings ==
    {Whole("attendance.defaulter_threshold", 40, 95, 75),
     Enum("attendance.mode", {"daily", "per_period"}, "daily")}

FeesSettings ==
    {[Whole("fees.due_date_day", 1, 28, 10) EXCEPT !.legacyKey = "due_date_day"],
     Whole("fees.late_fine_per_day", 0, 10000, 0),
     Setting("fees.invoice_prefix", "string", Word("INV"))}

GradingSettings ==
    {Enum("grading.scheme", {"percent", "grade", "both"}, "percent"),
     Setting("grading.bands", "json", Json("A B C D"))}

LocaleSettings == {Enum("locale.language", {"en", "hi"}, "en")}

BrandingSettings ==
    {Setting("branding.primary_color", "color", Color("1E88E5")),
     Bool("branding.show_logo", "true")}

FeatureSettings ==
    {Bool("features.online_payments", "true"), Bool("features.materials", "true"),
     Bool("features.polls", "false")}

Registry ==
    AcademicSettings \cup TimetableSettings \cup AttendanceSettings \cup FeesSettings
    \cup GradingSettings \cup LocaleSettings \cup BrandingSettings \cup FeatureSettings

RegistryKeys == {d.key : d \in Registry}

GetSettingDef(key) == CHOOSE d \in Registry : d.key = key

LegacyKey(key) == GetSettingDef(key).legacyKey

-----------------------------------------------------------------------------
(* validateSetting *)

Form(text) == text[1]
Trim(text) == IF Form(text) = "padded" THEN text[2] ELSE text

IsJson(text) ==
    \/ Form(text) \in {"json", "numeral"}
    \/ text \in {Word("true"), Word("false")}

Accepts(key, raw) ==
    LET d == GetSettingDef(key)
        text == Trim(raw)
    IN CASE d.type = "int"    -> Form(text) = "numeral" /\ text[2] \in d.min .. d.max
         [] d.type = "bool"   -> text \in BoolTrue \cup BoolFalse
         [] d.type = "enum"   -> text \in d.enum
         [] d.type = "time"   -> Form(text) = "time"
         [] d.type = "color"  -> Form(text) \in {"color", "lower color"}
         [] d.type = "json"   -> IsJson(text)
         [] d.type = "string" -> text \notin {Empty, TooLong}

\* The stored form of a text that is accepted.
Canonical(key, raw) ==
    LET d == GetSettingDef(key)
        text == Trim(raw)
    IN CASE d.type = "bool"  -> IF text \in BoolTrue THEN Word("true") ELSE Word("false")
         [] d.type = "color" -> Color(text[2])
         [] OTHER            -> text

-----------------------------------------------------------------------------
(* coerceSetting *)

\* Number() makes 0 of nothing.
NumberOf(text) ==
    IF Form(text) = "numeral" THEN text[2] ELSE IF text = Empty THEN 0 ELSE NotANumber

\* Blanks around a number or JSON are taken; the words of a boolean as they stand.
Parse(d, text) ==
    CASE d.type = "int"  -> NumberOf(Trim(text))
      [] d.type = "bool" -> text \in BoolTrue
      [] d.type = "json" -> Trim(text)
      [] OTHER           -> text

\* The default is for a parser that throws; only JSON's does.
Coerce(key, stored) ==
    LET d == GetSettingDef(key)
    IN Parse(d, IF d.type = "json" /\ ~ IsJson(Trim(stored)) THEN d.default ELSE stored)

\* What the services and apps that ask for a setting count on.
IsValueOf(key, value) ==
    LET d == GetSettingDef(key)
    IN /\ d.type = "int"    => value # NotANumber /\ value \in d.min .. d.max
       /\ d.type = "bool"   => value \in BOOLEAN
       /\ d.type = "enum"   => value \in d.enum
       /\ d.type = "json"   => IsJson(value)
       /\ d.type = "color"  => Form(value) = "color"
       /\ d.type = "time"   => Form(value) = "time"
       /\ d.type = "string" => value \notin {Empty, TooLong}

=============================================================================
