-------------------------------- MODULE Names -------------------------------
(***************************************************************************)
(* What the new-chat form's text becomes (src/chats.rs, parse_env,         *)
(* spawn_env and the refusals of create; src/git.rs, slugify, Remotes,     *)
(* Origin and the names_a_* rules; src/ui/console.rs, the form's preview). *)
(*                                                                         *)
(* A text is a sequence of atoms, one of each shape the rules tell apart:  *)
(* "name" stands for any run of ASCII letters, "acute" for a letter that   *)
(* is none, "kelvin" for the one a browser lowers to an ASCII letter.      *)
(***************************************************************************)
EXTENDS Naturals, Sequences, SequencesExt

Letters == {"name", "Name", "github.com", "GITHUB.COM"}
Alphanumeric == Letters \cup {"1"}
Blank == {" ", "return"}

Only(s, characters) == \A i \in DOMAIN s : s[i] \in characters
StartsWith(s, characters) == s # <<>> /\ Head(s) \in characters

\* The text before the first of some characters, and the text after it.
Until(s, characters) ==
  LET stop == CHOOSE i \in 1..(Len(s) + 1) :
                 /\ i = Len(s) + 1 \/ s[i] \in characters
                 /\ \A j \in 1..(i - 1) : s[j] \notin characters
  IN  SubSeq(s, 1, stop - 1)
After(s, characters) == SubSeq(s, Len(Until(s, characters)) + 2, Len(s))

\* str::split: a new piece starts at every separator.
Split(s, separator) ==
  FoldLeft(LAMBDA pieces, c :
             IF c = separator THEN Append(pieces, <<>>)
             ELSE [pieces EXCEPT ![Len(pieces)] = Append(@, c)],
           << <<>> >>, s)

Trim(s) ==
  LET kept == {i \in DOMAIN s : s[i] \notin Blank \cup {"newline"}}
  IN  IF kept = {} THEN <<>>
      ELSE SubSeq(s, CHOOSE i \in kept : \A j \in kept : i <= j,
                     CHOOSE i \in kept : \A j \in kept : j <= i)

-----------------------------------------------------------------------------
(* The slug and the branch.                                                *)

Lowered(c) == CASE c = "Name" -> "name" [] c = "GITHUB.COM" -> "github.com"
                [] OTHER -> c

\* trim_matches
Unhyphenated(s) ==
  LET kept == {i \in DOMAIN s : s[i] # "-"}
  IN  IF kept = {} THEN <<>>
      ELSE SubSeq(s, CHOOSE i \in kept : \A j \in kept : i <= j,
                     CHOOSE i \in kept : \A j \in kept : j <= i)

Hyphenated(slug, c) ==
  IF Lowered(c) \in Alphanumeric THEN Append(slug, Lowered(c))
  ELSE IF slug # <<>> /\ Last(slug) = "-" THEN slug ELSE Append(slug, "-")

\* Slip: a separator is a hyphen, however many there are.
SlugifyEach(typed) ==
  Unhyphenated(FoldLeft(LAMBDA slug, c :
                 Append(slug, IF Lowered(c) \in Alphanumeric THEN Lowered(c) ELSE "-"),
               <<>>, typed))

Slugify(typed) == Unhyphenated(FoldLeft(Hyphenated, <<>>, typed))

\* The form's own reckoning: every run of other characters a hyphen, then the
\* first and the last character dropped where they are hyphens.
Preview(typed) ==
  LET other(i) == Lowered(typed[i]) \notin Alphanumeric /\ typed[i] # "kelvin"
      shown(i) == CASE other(i) -> IF i > 1 /\ other(i - 1) THEN <<>> ELSE <<"-">>
                    [] typed[i] = "kelvin" -> <<"name">>
                    [] OTHER -> <<Lowered(typed[i])>>
      dashed == FlattenSeq([i \in DOMAIN typed |-> shown(i)])
      from == IF StartsWith(dashed, {"-"}) THEN 2 ELSE 1
      to == IF dashed # <<>> /\ Last(dashed) = "-" THEN Len(dashed) - 1
            ELSE Len(dashed)
  IN  SubSeq(dashed, from, to)

Date == <<"1", "-", "1", "-", "1">>
ChatBranch(slug) == <<"name", "/">> \o Date \o <<"-">> \o slug

NamesABranch(branch) ==
  /\ branch # <<>>
  /\ ~StartsWith(branch, {"-"})
  /\ \A i \in 1..(Len(branch) - 1) : ~(branch[i] = "." /\ branch[i + 1] = ".")
  /\ Only(branch, Alphanumeric \cup {"-", "_", ".", "/"})

-----------------------------------------------------------------------------
(* The repository and its credential.                                      *)

NameBytes == Alphanumeric \cup {"-", "_", "."}

NamesAGithubRepository(repo) ==
  LET halves == Split(repo, "/")
  IN  /\ ~StartsWith(repo, {"-"})
      /\ Len(halves) = 2
      /\ \A h \in 1..2 : /\ halves[h] # <<>>
                         /\ ~Only(halves[h], {"."})
                         /\ Only(halves[h], NameBytes)

\* Slip: the port is nobody's business.
AuthorityWithoutPort(url) ==
  LET authority == Until(Tail(url), {"/", "?", "#", ":"})
  IN  IF StartsWith(url, {"https://"}) /\ ~Contains(authority, "@")
        THEN authority ELSE <<>>

\* The host and port of an https URL; <<>> is none at all.
Authority(url) ==
  LET authority == Until(Tail(url), {"/", "?", "#"})
  IN  IF StartsWith(url, {"https://"}) /\ ~Contains(authority, "@")
        THEN authority ELSE <<>>

NamesAHost(authority) ==
  LET host == Until(authority, {":"})
      port == After(authority, {":"})
  IN  /\ host # <<>> /\ Only(host, Alphanumeric \cup {"-", "."})
      /\ Contains(authority, ":") => port # <<>> /\ Only(port, {"1"})

NamesARepository(repo) ==
  \/ NamesAGithubRepository(repo)
  \/ ~Contains(repo, " ") /\ ~Contains(repo, "acute") /\ NamesAHost(Authority(repo))

CloneUrl(repo) ==
  IF NamesAGithubRepository(repo)
    THEN <<"https://", "github.com", "/">> \o repo \o <<".", "name">>
    ELSE repo

GithubHosted(url) == Authority(url) \in {<<"github.com">>, <<"GITHUB.COM">>}

\* The URL git is given, over a token if the caller holds one and this is
\* where it belongs.
Origin(repo, held) ==
  LET url == CloneUrl(repo)
  IN  IF held /\ GithubHosted(url)
        THEN [token |-> TRUE, url |-> <<"https://", "credential">> \o Tail(url)]
        ELSE [token |-> FALSE, url |-> url]

Uncredited(url, c) == IF c = "credential" THEN url ELSE Append(url, c)

Tokenless(origin) ==
  IF origin.token THEN FoldLeft(Uncredited, <<>>, origin.url) ELSE origin.url

\* Whatever git said over an origin, as anyone is told of it.
Scrub(origin, said) ==
  IF origin.token
    THEN [i \in DOMAIN said |-> IF said[i] = "credential" THEN "redacted" ELSE said[i]]
    ELSE said

-----------------------------------------------------------------------------
(* create: a form that is believed, or what it is turned down for.         *)

Create(wanted) ==
  LET slug == Slugify(Trim(wanted.slug))
      repo == Trim(wanted.repo)
  IN  [refusal |-> IF slug = <<>> THEN "Unnamed"
                   ELSE IF ~NamesARepository(repo) THEN "UnusableRepo"
                   ELSE IF ~NamesABranch(wanted.base) THEN "UnusableBranch"
                   ELSE "none",
       title |-> Trim(wanted.slug),
       repo |-> repo,
       branch |-> IF wanted.direct THEN wanted.base ELSE ChatBranch(slug)]

IsRefusal(chat) == chat.refusal \in {"Unnamed", "UnusableRepo", "UnusableBranch"}

-----------------------------------------------------------------------------
(* The environment.                                                        *)

GithubTokenVariables == {"GH_TOKEN", "GITHUB_TOKEN"}
Kinds == {"CLAUDE_CODE_OAUTH_TOKEN", "ANTHROPIC_API_KEY"}
ReservedEnvNames == GithubTokenVariables \cup Kinds
EnvName == Letters \cup ReservedEnvNames \cup {"_"}

IsEnvName(name) ==
  /\ StartsWith(name, EnvName)
  /\ Only(name, EnvName \cup {"1"})

\* strip_suffix: a line less the return it may end in.
Line(piece) ==
  IF piece # <<>> /\ Last(piece) = "return" THEN SubSeq(piece, 1, Len(piece) - 1)
  ELSE piece

\* str::lines: the newline a line ends in takes the return before it along.
Lines(raw) ==
  LET pieces == Split(raw, "newline")
  IN  [i \in DOMAIN pieces |-> IF i < Len(pieces) THEN Line(pieces[i]) ELSE pieces[i]]

IsSkipped(line) == Trim(line) = <<>> \/ StartsWith(Trim(line), {"#"})

\* Slip: the names of the credentials that are not in force are free.
IsReservedInPart(name) ==
  Len(name) = 1 /\ name[1] \in GithubTokenVariables \cup {"ANTHROPIC_API_KEY"}

IsReserved(name) == Len(name) = 1 /\ name[1] \in ReservedEnvNames

Refusal(line) ==
  LET name == Until(line, {"="})
  IN  CASE ~Contains(line, "=") -> "no equals"
        [] Contains(line, "=") /\ name = <<>> -> "no name"
        [] Contains(line, "=") /\ name # <<>> /\ ~IsEnvName(name) -> "bad name"
        [] OTHER -> IF IsReserved(name) THEN "reserved" ELSE "none"

\* parse_env: the variables, or the first line that is refused.
ParseLine(parsed, piece) ==
  LET line == Line(piece)
      name == Until(line, {"="})
  IN  IF parsed.refusal # "none" \/ IsSkipped(line) THEN parsed
      ELSE IF Refusal(line) # "none"
      THEN [parsed EXCEPT !.refusal = Refusal(line)]
      ELSE [parsed EXCEPT !.env =
             [n \in DOMAIN @ \cup {name} |->
                IF n = name THEN After(line, {"="}) ELSE @[n]]]

Unparsed == [refusal |-> "none", env |-> <<>>]

ParseEnv(raw) == FoldLeft(ParseLine, Unparsed, Lines(raw))

\* The credentials in force when a container is spawned.
Held == [anthropic : Kinds \cup {"none"}, github : BOOLEAN]
Given(held) ==
  {<<kind>> : kind \in {held.anthropic} \cap Kinds}
    \cup {<<v>> : v \in {w \in GithubTokenVariables : held.github}}

\* spawn_env: the core's own variables, then the chat's, where they name
\* nothing the core has set.
SpawnEnv(held, custom) ==
  [n \in Given(held) \cup DOMAIN custom |->
     IF n \in Given(held) THEN <<"credential">> ELSE custom[n]]

-----------------------------------------------------------------------------
Asking(slug, direct, base) ==
  [slug |-> slug, repo |-> <<"name", "/", "name">>, base |-> base, direct |-> direct]

Bases == {<<>>, <<"name">>, <<"-", "name">>, <<"name", "/", "name">>,
          <<"name", ".", ".", "name">>}

\* Whatever is typed as a slug, a chat that is created works on a branch git
\* can be given as a name; the one cut for it has no hyphen doubled or at an
\* end, and is the one the form showed, but for the letters a browser lowers
\* to ASCII (slugify's comment).
SlugsNameBranches(typed) ==
  LET slug == Slugify(Trim(typed))
  IN  /\ \A direct \in BOOLEAN, base \in Bases :
           LET chat == Create(Asking(typed, direct, base))
           IN  ~IsRefusal(chat) =>
                 NamesABranch(chat.branch) /\ chat.title # <<>>
      /\ slug # <<>> =>
           /\ \A i \in DOMAIN slug :
                slug[i] = "-" => i \notin {1, Len(slug)} /\ slug[i + 1] # "-"
           /\ ~Contains(typed, "kelvin") => slug = Preview(typed)

\* Where a URL leads: the host after whatever user is named, and its port.
Leads(url) ==
  LET authority == Until(Tail(url), {"/", "?", "#"})
      users == {i \in DOMAIN authority : authority[i] = "@"}
      past == IF users = {} THEN 0 ELSE CHOOSE i \in users : \A j \in users : j <= i
  IN  SubSeq(authority, past + 1, Len(authority))

\* The operator's token goes with a clone URL exactly when that leads to
\* github.com itself, as the bare host, whatever else is spelled around it; the
\* URL a workspace is set back to is the one without it, and so is what anyone
\* is told of; and what a manifest keeps names no user (Remotes::origin,
\* Origin::tokenless, Origin::scrub, authority).
TheTokenGoesHome(repo) ==
  LET chat == Create([Asking(<<"name">>, FALSE, <<"name">>) EXCEPT !.repo = repo])
      url == CloneUrl(chat.repo)
      origin == Origin(chat.repo, TRUE)
  IN  ~IsRefusal(chat) =>
        /\ origin.token <=> Leads(url) \in {<<"github.com">>, <<"GITHUB.COM">>}
        /\ Tokenless(origin) = url
        /\ ~Contains(Scrub(origin, origin.url), "credential")
        /\ ~Contains(Until(Tail(url), {"/", "?", "#"}), "@")

\* Every variable a form is believed about reaches the container with the
\* value it was last given there, whichever credentials are in force then and
\* whenever they change, and the agent is never handed both kinds of Anthropic
\* credential (parse_env, spawn_env, AnthropicCredential::variable).
FormEnvReachesTheAgent(raw) ==
  LET parsed == ParseEnv(raw)
      lines == Lines(raw)
  IN  parsed.refusal = "none" =>
        \A held \in Held :
          LET env == SpawnEnv(held, parsed.env)
          IN  /\ \A i \in DOMAIN lines :
                   LET name == Until(Line(lines[i]), {"="})
                   IN  ~IsSkipped(lines[i])
                         /\ (\A j \in (i + 1)..Len(lines) :
                               Until(Line(lines[j]), {"="}) # name)
                       => env[name] = After(Line(lines[i]), {"="})
              /\ {k \in Kinds : <<k>> \in DOMAIN env} \subseteq {held.anthropic}

=============================================================================
