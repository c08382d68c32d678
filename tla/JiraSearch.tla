----------------------------- MODULE JiraSearch -----------------------------
(***************************************************************************)
(* A fetch of the issues of a project for the readiness scan: over the     *)
(* Jira server of the agent host, page after page, and over REST where     *)
(* that fails or finds nothing.  Jira changes and fails in between; its    *)
(* servers differ in how they page.                                        *)
(***************************************************************************)
EXTENDS SequencesExt, Naturals

CONSTANTS
    MaxIssues,    \* issues of a project
    PageSize,     \* max_results
    MaxFetches,
    Environment   \* subset of {"change", "partial_list", "simple_servers",
                  \* "unreadable_page"}

Allows(event) == event \in Environment

\* Projects of Jira, the first of a list first: another one, and the one of the mapping.
Projects  == {1, 2}
Requested == 2
Issues    == {<<1, 1>>} \cup ({Requested} \X (1 .. MaxIssues))
Number(issue) == issue[2]

\* A server pages by offset or always from the start; it may limit a page more than it is
\* asked to, and may tell the total.
Servers == [offset : BOOLEAN, limit : 1 .. PageSize, total : BOOLEAN]
Simple(s) == ~s.offset \/ s.limit < PageSize

VARIABLES
    jira,      \* per project: the issues in scope, last updated first
    server,
    fetch,     \* the fetch under way, or the last one
    fetches,
    incidents  \* observed during the fetch

vars == <<jira, server, fetch, fetches, incidents>>

Pcs == {"idle", "connecting", "listing", "paging", "rest", "done", "failed"}

\* The sequences that list the issues of S, each of them once.
Listings(S) ==
    {s \in SeqOf(S, MaxIssues) : IsInjective(s) /\ \A x \in S : x \in ToSet(s)}

TypeOK ==
    /\ \A p \in Projects : ToSet(jira[p]) \subseteq Issues /\ jira[p] \in Listings(ToSet(jira[p]))
    /\ server \in Servers
    /\ fetch.pc \in Pcs /\ fetch.project \in Projects /\ ToSet(fetch.issues) \subseteq Issues
    /\ fetches \in 0 .. MaxFetches

NewFetch == [pc |-> "idle", project |-> Requested, variant |-> 1, start |-> 0, cursor |-> 0,
             issues |-> <<>>]

Init ==
    /\ jira \in [Projects -> {<<>>}]
    /\ server \in {s \in Servers : Simple(s) => Allows("simple_servers")}
    /\ fetch = NewFetch
    /\ fetches = 0
    /\ incidents = {}

Underway == fetch.pc \notin {"idle", "done", "failed"}

Note(events) == incidents' = incidents \cup events

-----------------------------------------------------------------------------
(* Jira. *)

\* The issues of S, in the order they have in s.
Keeping(s, S) ==
    {t \in Listings(S) : \A i, j \in DOMAIN t, k, l \in DOMAIN s :
                             i < j /\ t[i] = s[k] /\ t[j] = s[l] => k < l}

\* An issue is created, updated, reopened or comes into scope, or it leaves the scope.
Change(issue) ==
    LET p == issue[1] IN
    /\ Underway => Allows("change")
    /\ \E others \in Keeping(jira[p], ToSet(jira[p]) \ {issue}) :
          \/ jira' = [jira EXCEPT ![p] = <<issue>> \o others]
          \/ issue \in ToSet(jira[p]) /\ jira' = [jira EXCEPT ![p] = others]
    /\ jira' # jira
    /\ Note({e \in {"change"} : fetch.pc # "idle"})
    /\ UNCHANGED <<server, fetch, fetches>>

\* In the second variant of a query, the issues that were created last come first.
Created(S) == {t \in Listings(S) : \A i, j \in DOMAIN t : i < j => Number(t[i]) > Number(t[j])}

\* What answers a query: the issues of the project, those behind the cursor if it has one.
Answers(p, variant, cursor) ==
    LET behind == {x \in ToSet(jira[p]) : Number(x) > cursor} IN
    IF variant = 2 THEN Created(behind)
    ELSE IF cursor > 0 THEN Keeping(jira[p], behind) ELSE {jira[p]}

Slice(s, from, n) == SubSeq(s, from + 1, IF from + n < Len(s) THEN from + n ELSE Len(s))

PageOf(answer, start) == Slice(answer, IF server.offset THEN start ELSE 0, server.limit)

-----------------------------------------------------------------------------
(* fetch_issues_for_readiness *)

Start ==
    /\ ~Underway /\ fetches < MaxFetches
    /\ fetch' = [NewFetch EXCEPT !.pc = "connecting"]
    /\ fetches' = fetches + 1
    /\ incidents' = {}
    /\ UNCHANGED <<jira, server>>

\* An error that is raised, whenever it comes: what was found so far is not used.
ServerFails ==
    /\ fetch.pc \in {"connecting", "paging"}
    /\ fetch' = [NewFetch EXCEPT !.pc = "rest"]
    /\ UNCHANGED <<jira, server, fetches, incidents>>

Connect ==
    /\ fetch.pc = "connecting"
    /\ fetch' = [fetch EXCEPT !.pc = "listing"]
    /\ UNCHANGED <<jira, server, fetches, incidents>>

\* _resolve_project_key: a project that is not in the list gives way to the first.
Resolve(listed) ==
    IF listed = {} \/ Requested \in listed THEN Requested
                                           ELSE CHOOSE p \in listed : \A q \in listed : p <= q

\* The list is empty when it cannot be fetched.
ListProjects(listed) ==
    /\ fetch.pc = "listing"
    /\ listed \in {{}, Projects} \/ Allows("partial_list")
    /\ fetch' = [fetch EXCEPT !.pc = "paging", !.project = Resolve(listed)]
    /\ Note({e \in {"unlisted"} : Resolve(listed) # Requested})
    /\ UNCHANGED <<jira, server, fetches>>

\* The next variant, when there was nothing, then REST; a fetch that found issues is over.
AfterSearch(found) ==
    IF found # <<>> THEN [fetch EXCEPT !.pc = "done", !.issues = found]
    ELSE IF fetch.variant = 1
         THEN [fetch EXCEPT !.variant = 2, !.start = 0, !.cursor = 0, !.issues = <<>>]
         ELSE [NewFetch EXCEPT !.pc = "rest"]

\* Mutant: a page that is not full goes on, one that is full ends the search.
FullPageIsLast(page, added, found, total) == Len(page) >= PageSize \/ added = <<>>

IsLast(page, added, found, total) ==
    \/ Len(page) < PageSize
    \/ server.total /\ Len(found) >= total
    \/ added = <<>>

\* One turn of the loop of _search_issues, that adds what was not found before.
AddPage(page, added, total) ==
    LET found   == fetch.issues \o added
        behind  == Number(found[Len(found)])
        ignored == fetch.cursor = 0 /\ fetch.start > 0 /\ added = <<>> /\ Len(found) >= PageSize
        last    == page = <<>> \/ (~ignored /\ IsLast(page, added, found, total))
    IN  \/ last /\ fetch' = AfterSearch(found)
        \/ ~last /\ ignored /\ fetch' = [fetch EXCEPT !.cursor = behind]
        \/ ~last /\ ~ignored /\ fetch.cursor > 0
           /\ fetch' = [fetch EXCEPT !.issues = found, !.cursor = behind]
        \/ ~last /\ ~ignored /\ fetch.cursor = 0
           /\ fetch' = [fetch EXCEPT !.issues = found, !.start = @ + PageSize]

SearchPage ==
    /\ fetch.pc = "paging"
    /\ \E answer \in Answers(fetch.project, fetch.variant, fetch.cursor) :
          LET page == PageOf(answer, fetch.start) IN
          \E added \in Keeping(page, ToSet(page) \ ToSet(fetch.issues)) :
              AddPage(page, added, Len(answer))
    /\ Note({e \in {"simple_server"} : Simple(server) /\ Len(jira[fetch.project]) > server.limit})
    /\ UNCHANGED <<jira, server, fetches>>

\* A result that is an error in itself or cannot be read is a page without issues: the
\* search is over with what it found so far.
UnreadablePage ==
    /\ Allows("unreadable_page")
    /\ fetch.pc = "paging"
    /\ fetch' = AfterSearch(fetch.issues)
    /\ Note({"unreadable_page"})
    /\ UNCHANGED <<jira, server, fetches>>

\* fetch_issues_for_readiness_via_rest: one page of the project that was asked for, in the
\* order of the first variant that is answered.
RestAnswers(variant, fails) ==
    /\ fetch.pc = "rest"
    /\ \E answer \in Answers(Requested, variant, 0) :
          fetch' = [NewFetch EXCEPT !.pc = IF fails THEN "failed" ELSE "done",
                                    !.issues = IF fails THEN <<>> ELSE Slice(answer, 0, PageSize)]
    /\ Note({e \in {"one_page"} : ~fails /\ Len(jira[Requested]) > PageSize})
    /\ UNCHANGED <<jira, server, fetches>>

Next ==
    \/ Start \/ ServerFails \/ Connect \/ SearchPage \/ UnreadablePage
    \/ \E listed \in SUBSET Projects : ListProjects(listed)
    \/ \E variant \in 1 .. 2, fails \in BOOLEAN : RestAnswers(variant, fails)
    \/ \E issue \in Issues : Change(issue)

Spec == Init /\ [][Next]_vars

-----------------------------------------------------------------------------
(* Properties. *)

\* A fetch that is answered has every issue of its project in scope, once and no other:
\* whichever page or call raises, whether the total is told or not, as long as Jira stands
\* still, pages as it is asked to, lists the project and answers what can be read.
FetchIsComplete ==
    fetch.pc = "done" /\ incidents = {} =>
        /\ Len(fetch.issues) = Len(jira[Requested])
        /\ ToSet(fetch.issues) = ToSet(jira[Requested])

\* Whatever changes and however the server pages, no issue is returned twice, and none of
\* another project unless this one is not listed.
FetchIsSound ==
    fetch.pc = "done" =>
        /\ IsInjective(fetch.issues)
        /\ "unlisted" \notin incidents =>
               \A i \in ToSet(fetch.issues) : i[1] = Requested
=============================================================================
