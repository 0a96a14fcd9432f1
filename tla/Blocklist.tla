------------------------------- MODULE Blocklist ------------------------------
(***************************************************************************)
(* The blocklist of blocklist.rs: load fetches the configured lists one    *)
(* after another and merges them, is_blocked then decides for every query. *)
(* Module Startup runs it in main.rs, where it is awaited.                 *)
(*                                                                         *)
(* A name is a sequence of labels, a line of a list what parse_line looks  *)
(* at in it; what a list's server makes of a request is the environment.   *)
(***************************************************************************)
EXTENDS Naturals, Sequences, FiniteSets, SequencesExt

CONSTANTS
  Labels,        \* the labels names are made of
  Urls,          \* the configured lists, in order
  ListAt,        \* what each of them would load: a sequence of lines
  Fragments,     \* what a line cut off in its middle may read as
  Queries,       \* the names clients ask for
  MaxRedirects   \* MAX_REDIRECTS

Name == Seq(Labels) \ {<<>>}

(* A word of a line: an IP address, or a name that has or has not only the *)
(* characters of one.  Case is not told apart, as in the code.             *)
Token == [ip : BOOLEAN, plain : BOOLEAN, name : Name]

(* A trimmed line: how it begins, whether it has a star, its words, and    *)
(* what follows the first of them up to a blank.  A mark without words is  *)
(* left out: it is skipped or ignored, and names nothing.                  *)
Line == [mark : {"", "comment", "@@", "||", "other"}, star : BOOLEAN,
         words : Seq(Token), tail : {"", "^", "more"}]

ASSUME BlocklistAssumption ==
  /\ Urls \in Seq(ToSet(Urls))
  /\ \A u \in ToSet(Urls) : ListAt[u] \in Seq(Line)
  /\ \A f \in Fragments : f \in Line
  /\ Queries \subseteq Seq(Labels)
  /\ MaxRedirects \in Nat

VARIABLES
  loaded,    \* load has returned
  redirects, \* those followed so far for the list being fetched
  block,     \* the block set
  allow,     \* the allow set
  sources,   \* the SourceStat of every list that is done with
  received   \* history: the lines of every list that is done with

loadVars == <<loaded, redirects, block, allow, sources, received>>

LoadInit ==
  /\ loaded = FALSE
  /\ redirects = 0
  /\ block = {} /\ allow = {}
  /\ sources = <<>> /\ received = <<>>
-------------------------------------------------------------------------------
(* parse_line: what a line says, and of which domains.                     *)
HostNoise == {<<"localhost">>, <<"localhost", "localdomain">>}

IsHostNoise(token) == token.ip \/ token.name \in HostNoise

(* normalize_domain: a plain domain has a dot.                             *)
IsDomain(token) == ~token.ip /\ token.plain /\ Len(token.name) > 1

(* A kind, and the domains it is said of: those of the words there.        *)
Says(kind, words, there) ==
  [kind |-> kind, names |-> [i \in there |-> words[i].name]]

Nothing(kind) == Says(kind, <<>>, {})

(* adblock_domain: a single domain, with a single separator at most.       *)
Rule(line, kind) ==
  IF /\ Len(line.words) = 1 /\ IsDomain(line.words[1])
     /\ line.tail # "more" /\ ~line.star
  THEN Says(kind, line.words, {1}) ELSE Nothing("skip")

(* <ip> host [host...], or a domain alone.                                 *)
Hosts(line) ==
  {i \in DOMAIN line.words :
     /\ line.tail = ""
     /\ IF line.words[1].ip THEN i > 1 ELSE Len(line.words) = 1
     /\ ~IsHostNoise(line.words[i])
     /\ IsDomain(line.words[i])}

ParseLine(line) ==
  CASE line.mark = "comment" \/ line.words = <<>> -> Nothing("ignore")
    [] line.mark = "@@" -> Rule(line, "allow")
    [] line.mark = "||" -> Rule(line, "block")
    [] line.mark = "other" -> Nothing("skip")
    [] OTHER -> IF line.star THEN Nothing("skip")
                ELSE IF Hosts(line) = {} THEN Nothing("ignore")
                ELSE Says("block", line.words, Hosts(line))

Parsed(lines) == [i \in DOMAIN lines |-> ParseLine(lines[i])]
-------------------------------------------------------------------------------
(* Blocklist::is_blocked: the walk from the name up to its last label.     *)
Suffix(name, i) == SubSeq(name, i, Len(name))

(* Mutant: the entry nearest to the name decides.                          *)
WalkNearest(name) ==
  LET found[i \in 0..Len(name)] ==
        IF i = 0 THEN "nothing"
        ELSE IF found[i - 1] # "nothing" THEN found[i - 1]
        ELSE IF Suffix(name, i) \in allow THEN "allowed"
        ELSE IF Suffix(name, i) \in block THEN "blocked" ELSE "nothing"
  IN found[Len(name)] = "blocked"

(* What it has found by the i-th label: an exception ends it.              *)
Walk(name) ==
  LET found[i \in 0..Len(name)] ==
        IF i = 0 THEN "nothing"
        ELSE IF found[i - 1] = "allowed" \/ Suffix(name, i) \in allow
             THEN "allowed"
        ELSE IF Suffix(name, i) \in block THEN "blocked" ELSE found[i - 1]
  IN found[Len(name)] = "blocked"

IsBlocked(name) == block # {} /\ name # <<>> /\ Walk(name)
-------------------------------------------------------------------------------
(* load, one request at a time.                                            *)
Fetching == ~loaded /\ Len(sources) < Len(Urls)

Url == Urls[Len(sources) + 1]

NamesOf(lines, kind) ==
  UNION {ToSet(said.names) :
           said \in {l \in ToSet(Parsed(lines)) : l.kind = kind}}

(* How often a domain of that kind was named, or a line skipped.           *)
Tally(lines, kind) ==
  LET said == Parsed(lines)
      saying == {i \in DOMAIN said : said[i].kind = kind}
  IN Cardinality(IF kind = "skip" THEN saying
                 ELSE UNION {{i} \X DOMAIN said[i].names : i \in saying})

Stat(status, lines) ==
  [url |-> Url, status |-> status, blocks |-> Tally(lines, "block"),
   allows |-> Tally(lines, "allow"), skipped |-> Tally(lines, "skip")]

Done(status, lines) ==
  /\ block' = block \cup NamesOf(lines, "block")
  /\ allow' = allow \cup NamesOf(lines, "allow")
  /\ sources' = Append(sources, Stat(status, lines))
  /\ received' = Append(received, lines)
  /\ redirects' = 0
  /\ UNCHANGED loaded

(* A body is read until the connection ends, however it ends: without a    *)
(* chunked encoding nothing says that it is whole.                         *)
Bodies(list) ==
  {list}
  \cup {SubSeq(list, 1, k) : k \in 0..Len(list) - 1}
  \cup {Append(SubSeq(list, 1, k), f) :
          k \in 0..Len(list) - 1, f \in Fragments}

Body ==
  /\ Fetching
  /\ \E lines \in Bodies(ListAt[Url]) : Done("ok", lines)

(* Mutant: a failure is propagated, and the server starts without a list.  *)
FailAborts ==
  /\ Fetching
  /\ loaded' = TRUE
  /\ UNCHANGED <<redirects, block, allow, sources, received>>

(* Every request is bounded by a timeout, and its failure ends the fetch.  *)
Fail ==
  /\ Fetching
  /\ Done("failed", <<>>)

(* Mutant: the count starts again when it has reached its limit.           *)
RedirectForever ==
  /\ Fetching
  /\ redirects' = IF redirects < MaxRedirects THEN redirects + 1 ELSE 0
  /\ UNCHANGED <<loaded, block, allow, sources, received>>

Redirect ==
  /\ Fetching
  /\ redirects < MaxRedirects
  /\ redirects' = redirects + 1
  /\ UNCHANGED <<loaded, block, allow, sources, received>>

(* One more redirect than is followed ends the fetch as well.              *)
TooManyRedirects ==
  /\ Fetching
  /\ redirects = MaxRedirects
  /\ Done("failed", <<>>)

LoadReturns ==
  /\ ~loaded
  /\ Len(sources) = Len(Urls)
  /\ loaded' = TRUE
  /\ UNCHANGED <<redirects, block, allow, sources, received>>

LoadStep == Body \/ Fail \/ Redirect \/ TooManyRedirects \/ LoadReturns
-------------------------------------------------------------------------------
(* A listed name and all its subdomains are blocked, and no other name is; *)
(* an exception anywhere above a name frees it, even from an entry that is *)
(* more specific, and whichever list either came from.                     *)
BlocksAsListed ==
  \A name \in Queries :
    LET under(domains) == \E d \in domains : d # <<>> /\ IsSuffix(d, name)
    IN IsBlocked(name) <=> under(block) /\ ~under(allow)

(* What SourceStatus says of a source that is Ok, "Fetched and parsed",    *)
(* against the other case, "Fetch or parse failed": its rules are those    *)
(* of its list.                                                            *)
OkMeansLoaded ==
  \A i \in DOMAIN sources :
    sources[i].status = "ok" => received[i] = ListAt[sources[i].url]

(* What ADR 0004 says of "$-modifiers, element rules" and the like:        *)
(* "skipped and counted".  So a source has at least as many lines counted  *)
(* as skipped as it has ones with more behind a domain.                    *)
DroppedRulesAreCounted ==
  \A i \in DOMAIN sources :
    sources[i].skipped >=
      Len(SelectSeq(received[i],
                    LAMBDA l : /\ l.mark # "comment" /\ l.words # <<>>
                               /\ IsDomain(l.words[1]) /\ l.tail = "more"))
===============================================================================
