-------------------------------- MODULE ResGen --------------------------------
(***************************************************************************)
(* ResGen (ResGen/Source): reads the symbols that some files need, and the *)
(* rules about them, maps each symbol to a name of the program, and writes *)
(* the resolver (ResolverTable), which the program then uses.              *)
(*                                                                         *)
(* The files of the command line are kept in unordered sets, so that the   *)
(* order in which they are read is any.  Each is read in one step.  The    *)
(* keys of a JSON object come in one order, that of their characters       *)
(* (nlohmann::json), and whether a pattern matches a name is the business  *)
(* of boost::regex.                                                        *)
(***************************************************************************)
EXTENDS ResolverTable

CONSTANTS
  Pattern,     \* regular expressions
  KeyOrder,    \* all of them, as the keys of an object are walked
  Matches,     \* <<p, s>>: the pattern p matches all of s ...
  Begins,      \* ... or s is the beginning of something p matches
  Unnamed,     \* a rule has no "name"
  Blank,       \* an empty line
  Garbled,     \* a line with a blank or a character that is not ASCII
  Commands     \* the inputs and the rule files of a command line

(* A list is a sequence of lines.  Of a binary what matters is the symbols *)
(* and how far the reader comes: "none" has no symbol table, "broken" does *)
(* not say where its parts are, "cut" ends before the symbol table and     *)
(* "unnamed" after it, before the names.                                   *)
Line == Symbol \cup {Blank, Garbled}
Import == [name : Symbol, weak : BOOLEAN, undef : BOOLEAN]
Input ==
  [kind : {"list"}, lines : Seq(Line)]
  \cup [kind : {"binary"}, table : {"found", "none", "broken", "cut", "unnamed"},
         syms : Seq(Import)]
  \cup [kind : {"missing"}]

(* SymRule, and a file of rules: an object, or something else.             *)
Rule ==
  [name : Target \cup {Unnamed}, weak : BOOLEAN, exclude : BOOLEAN,
   partial : BOOLEAN, valid : BOOLEAN]
IsRuleFile(f) ==
  /\ f.object \in BOOLEAN
  /\ DOMAIN f.rules \subseteq Pattern
  /\ f.rules \in [DOMAIN f.rules -> Rule]

ASSUME ResGenAssumption ==
  /\ Symbol \subseteq Target
  /\ KeyOrder \in Seq(Pattern)
  /\ \A p \in Pattern : \E n \in DOMAIN KeyOrder : KeyOrder[n] = p
  /\ \A n, m \in DOMAIN KeyOrder : KeyOrder[n] = KeyOrder[m] => n = m
  /\ Matches \subseteq Pattern \X Symbol /\ Begins \subseteq Pattern \X Symbol
  /\ Unnamed \notin Target /\ Symbol \cap {Blank, Garbled} = {}
  /\ \A c \in Commands :
       c.inputs \subseteq Input /\ \A f \in c.rules : IsRuleFile(f)

VARIABLES
  command,   \* the command line: does not change
  stage,     \* what main does
  unread,    \* files that were not read yet
  syms,      \* SymList: syms[s] says whether s is weak
  patterns,  \* m_RulePatterns
  rules      \* m_Rules: a sequence of patterns and rules

front == <<command, stage, unread, syms, patterns, rules>>
vars == <<front, tableVars>>

Init ==
  /\ TableInit
  /\ command \in Commands
  /\ stage = "inputs" /\ unread = command.inputs
  /\ syms = Empty
  /\ patterns = {} /\ rules = <<>>

Fails ==
  /\ stage' = "failed"
  /\ UNCHANGED <<command, unread, syms, patterns, rules>>

-----------------------------------------------------------------------------
(* parseSymInput.                                                          *)
Elements(seq) == {seq[n] : n \in DOMAIN seq}

(* A symbol that is known already keeps its entry.                         *)
Added(found) ==
  [s \in DOMAIN syms \cup DOMAIN found |->
     IF s \in DOMAIN syms THEN syms[s] ELSE found[s]]

(* parseList: what a list names is not weak.                               *)
ListSyms(f) == [s \in Elements(f.lines) \cap Symbol |-> FALSE]

(* parseBinary: the symbols of a binary that are not defined in it; of two *)
(* with one name the first.                                                *)
Imports(f) == {n \in DOMAIN f.syms : f.syms[n].undef}
First(N) == CHOOSE n \in N : \A m \in N : n <= m

BinarySyms(f) ==
  [s \in {f.syms[n].name : n \in Imports(f)} |->
     f.syms[First({n \in Imports(f) : f.syms[n].name = s})].weak]

(* BinaryReader::readMulti never says that a read failed, and leaves the   *)
(* zeros that were there: a binary that is cut has no symbols, or symbols  *)
(* with empty names.                                                       *)
Unnameable(f) ==
  f.kind = "binary" /\ f.table = "unnamed" /\ Imports(f) # {}

Readable(f) ==
  CASE f.kind = "list" -> Garbled \notin Elements(f.lines)
    [] f.kind = "binary" -> f.table # "broken"
    [] f.kind = "missing" -> FALSE

Found(f) ==
  CASE f.kind = "list" -> ListSyms(f)
    [] f.kind = "binary" /\ f.table = "found" -> BinarySyms(f)
    [] OTHER -> Empty

ReadInput(f) ==
  /\ stage = "inputs" /\ f \in unread
  /\ \/ /\ Readable(f) /\ ~Unnameable(f)
        /\ syms' = Added(Found(f))
        /\ unread' = unread \ {f}
        /\ UNCHANGED <<command, stage, patterns, rules>>
     \/ ~Readable(f) /\ Fails
     \/ /\ Unnameable(f)
        /\ stage' = "nameless"  \* what is made of them is not followed
        /\ UNCHANGED <<command, unread, syms, patterns, rules>>
  /\ UNCHANGED tableVars

InputsRead ==
  /\ stage = "inputs" /\ unread = {}
  /\ stage' = "rules" /\ unread' = command.rules
  /\ UNCHANGED <<command, syms, patterns, rules, tableVars>>

-----------------------------------------------------------------------------
(* SymDefs::parseObject.  A pattern that another file has is passed over,  *)
(* whatever its rule says; the others are added in the order of the keys,  *)
(* if all of them are valid.                                               *)
Earlier(p, q) ==
  \E n, m \in DOMAIN KeyOrder : n < m /\ KeyOrder[n] = p /\ KeyOrder[m] = q

Fresh(f) == DOMAIN f.rules \ patterns
Walks(P) == {o \in Orders(P) : \A n, m \in DOMAIN o : n < m => Earlier(o[n], o[m])}

Accepted(f) == f.object /\ \A p \in Fresh(f) : f.rules[p].valid

ReadRules(f) ==
  /\ stage = "rules" /\ f \in unread
  /\ \/ /\ Accepted(f)
        /\ patterns' = patterns \cup Fresh(f)
        /\ \E keys \in Walks(Fresh(f)) :
             rules' = rules \o [n \in DOMAIN keys |->
                                   [pattern |-> keys[n], rule |-> f.rules[keys[n]]]]
        /\ unread' = unread \ {f}
        /\ UNCHANGED <<command, stage, syms>>
     \/ ~Accepted(f) /\ Fails
  /\ UNCHANGED tableVars

(* SymRule::match.                                                         *)
Matching(p, rule, s) ==
  \/ <<p, s>> \in Matches
  \/ rule.partial /\ <<p, s>> \in Begins

(* SymDefs::ruleForSymName: all the rules that match, of which the first   *)
(* is chosen.                                                              *)
RulesFor(s) ==
  {n \in DOMAIN rules : Matching(rules[n].pattern, rules[n].rule, s)}

(* Mutant: the last rule that matches is chosen.                           *)
RuleForSymNameLast(s) ==
  rules[CHOOSE n \in RulesFor(s) : \A m \in RulesFor(s) : m <= n].rule

RuleForSymName(s) == rules[First(RulesFor(s))].rule

(* SymRule::nameForSymbol.                                                 *)
NameForSymbol(rule, s) == IF rule.name = Unnamed THEN s ELSE rule.name

MappedTo(s) ==
  IF RulesFor(s) = {}
  THEN [name |-> s, weak |-> syms[s]]
  ELSE [name |-> NameForSymbol(RuleForSymName(s), s),
        weak |-> RuleForSymName(s).weak]

Excluded(s) == RulesFor(s) # {} /\ RuleForSymName(s).exclude

(* SymTable::genHashTable: how many buckets n symbols get.  The square root *)
(* is rounded down, and then to the nearest power of two.                  *)
SquareRoot(n) == CHOOSE r \in 0 .. n : r * r <= n /\ n < (r + 1) * (r + 1)
NearestPowerOf2(n) ==
  IF n = 0
  THEN 0
  ELSE LET lower == CHOOSE p \in {2 ^ e : e \in 0 .. 15} : p <= n /\ n < 2 * p
       IN IF 2 * lower - n < n - lower THEN 2 * lower ELSE lower
BucketsFor(n) == NearestPowerOf2(SquareRoot(n))

(* The symbol map of main, which the table is made of.                     *)
MapSymbols ==
  /\ stage = "rules" /\ unread = {}
  /\ stage' = "table"
  /\ symMap' = [s \in {x \in DOMAIN syms : ~Excluded(x)} |-> MappedTo(s)]
  /\ Generate
  /\ UNCHANGED <<command, unread, syms, patterns, rules>>

Table == (Write \/ Question \/ Search) /\ UNCHANGED front

Over ==
  /\ stage \in {"failed", "nameless"} \/ pc \in {"unlinked", "crashed"}
  /\ UNCHANGED vars

Next ==
  \/ \E f \in unread : ReadInput(f) \/ ReadRules(f)
  \/ InputsRead \/ MapSymbols \/ Table \/ Over

Spec == Init /\ [][Next]_vars

(* Nothing is assumed of ResGen; the resolver runs on.                     *)
FairSpec == Spec /\ WF_vars(Search /\ UNCHANGED front)

-----------------------------------------------------------------------------
(* What the files of the command line say of a symbol, in whatever order   *)
(* they are read: how weak it may be, if it is needed at all ...           *)
Listed(f, s) == f.kind = "list" /\ s \in Elements(f.lines)
Imported(f, s, w) ==
  /\ f.kind = "binary" /\ f.table = "found"
  /\ [name |-> s, weak |-> w, undef |-> TRUE] \in Elements(f.syms)
Weakness(s) ==
  {w \in BOOLEAN :
     \E f \in command.inputs :
       \/ Listed(f, s) /\ ~w
       \/ Imported(f, s, w)}

(* ... and which rules may decide: of a file the first that matches, those *)
(* set aside whose pattern another file has too.                           *)
Elsewhere(f, p) == \E g \in command.rules \ {f} : p \in DOMAIN g.rules
MatchesIn(f, s) == {p \in DOMAIN f.rules : Matching(p, f.rules[p], s)}
Deciding(s) ==
  UNION {{f.rules[p] : p \in {q \in MatchesIn(f, s) :
            \A e \in MatchesIn(f, s) : Earlier(e, q) => Elsewhere(f, e)}} :
           f \in command.rules}
MayBeUnruled(s) ==
  \A f \in command.rules : \A p \in MatchesIn(f, s) : Elsewhere(f, p)

Allowed(s) ==
  {[name |-> IF r.name = Unnamed THEN s ELSE r.name, weak |-> r.weak] :
     r \in {d \in Deciding(s) : ~d.exclude}}
  \cup (IF MayBeUnruled(s)
        THEN {[name |-> s, weak |-> w] : w \in Weakness(s)}
        ELSE {})

(* The map holds exactly the symbols some input needs and no deciding rule *)
(* excludes, each mapped to what its rule says or, without a rule, to      *)
(* itself; however often a symbol or a pattern occurs, and in whatever     *)
(* order the files are read (Symbol.cpp, Binary.cpp, Main.cpp).            *)
MappedAsRuled ==
  stage = "table" =>
    \A s \in Symbol :
      IF s \in DOMAIN symMap
      THEN Weakness(s) # {} /\ symMap[s] \in Allowed(s)
      ELSE Weakness(s) # {} => \E r \in Deciding(s) : r.exclude

(* A program fails to link with the resolver only because a needed symbol  *)
(* may be mapped to a name that the program does not define and that is    *)
(* not said to be weak (main, ResGenerator::writeToFile).                  *)
LinksAsRuled ==
  pc = "unlinked" =>
    \E s \in Symbol :
      /\ Weakness(s) # {}
      /\ \E m \in Allowed(s) : ~m.weak /\ m.name \notin Defined

(* The loop of the resolver ends: every bucket has its end mark.           *)
SearchEnds == pc = "probe" ~> pc = "answered"
=============================================================================
