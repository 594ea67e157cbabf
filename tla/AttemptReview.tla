---------------------------- MODULE AttemptReview ----------------------------
(***************************************************************************)
(* The review of one input's attempts.  A finished report is opened at one *)
(* of its attempts; the overlay derives from what the server reported the  *)
(* verdict, its reason, the evidence behind it, what was set for the run   *)
(* and the difference between the two replies, and lets its user walk the  *)
(* attempts and jump between those parts.                                  *)
(***************************************************************************)
EXTENDS Naturals, Sequences, FiniteSets

CONSTANTS MaxAttempts, Lines, MaxReply, MaxLines, None

VARIABLES ui, net, srv, odd

vars == <<ui, net, srv, odd>>

Checks == {"length", "refusal"}
ReplyChecks == {"length"}   \* those that read the reply against the baseline's
Settings == {"prompt", "model", "sampling", "fields", "context"}
ToolUses == {"none", "simulated", "recorded", "failed"}
LineLimit == 2              \* the lines a preview shows before it is expanded
Replies == UNION {[1..n -> Lines] : n \in 0..MaxReply}

Min(x, y) == IF x < y THEN x ELSE y
Max(x, y) == IF x < y THEN y ELSE x

-----------------------------------------------------------------------------
(* What the server reports.  Checks that nobody configured run too when    *)
(* they are on by default, and fail the attempt all the same.              *)
Passed(a) == ~a.error /\ ~a.policy /\ \A c \in Checks : a.checks[c] # "fail"

Plain == [checks |-> [c \in Checks |-> "pass"], policy |-> FALSE, error |-> FALSE,
          tools |-> "none", grounded |-> "not_applicable", reply |-> <<"x">>]

Grounding(tools, reply) ==
    CASE tools = "none" -> {"not_applicable"}
      [] tools = "failed" \/ reply = <<>> -> {"fail"}
      [] OTHER -> {"pass", "fail"}

\* The reports made of some attempts, configurations and so on.
Report(attempts, config, tool, baseline, set) ==
    [attempts : attempts, config : config, tool : tool, baseline : baseline, set : set]

Verdicts ==
    {r \in Report([1..1 -> [checks : [Checks -> {"pass", "fail", "not_applicable"}],
                            policy : BOOLEAN, error : BOOLEAN, tools : ToolUses,
                            grounded : {"pass", "fail", "not_applicable"}, reply : {<<>>, <<"x">>}]],
                  SUBSET Checks, BOOLEAN, {<<>>, <<"x">>}, {{}}) :
       LET a == r.attempts[1]
       IN  /\ a.grounded \in Grounding(a.tools, a.reply) /\ ~(a.policy /\ a.error)
           /\ a.policy => r.tool
           /\ a.error => a.reply # <<>> /\ a.tools = "none"}

\* Attempts that nothing failed but a policy, if any.
Clean(policy, tools, replies) ==
    {a \in [checks : {Plain.checks}, policy : policy, error : {FALSE}, tools : tools,
            grounded : {"pass", "not_applicable"}, reply : replies] :
       a.grounded \in Grounding(a.tools, a.reply)}

Setups == Report([1..1 -> Clean(BOOLEAN, {"none", "recorded"}, {<<"x">>})],
                 {Checks}, BOOLEAN, {<<"x">>}, SUBSET Settings)

Comparisons == Report([1..1 -> Clean({FALSE}, {"none"}, Replies)], {Checks}, {FALSE}, Replies, {{}})

Failing == [Plain EXCEPT !.checks["length"] = "fail", !.reply = <<"x", "y", "y">>]
Walks == Report(UNION {[1..n -> {Plain, Failing}] : n \in 2..MaxAttempts},
                {Checks}, {TRUE}, {<<"x">>}, {{}})

Closed == [open |-> FALSE, tab |-> "review", index |-> 1, menu |-> FALSE, failedOnly |-> FALSE,
           input |-> FALSE, removed |-> FALSE, tools |-> FALSE, full |-> FALSE, at |-> None]

Init ==
    /\ ui = Closed /\ net = {} /\ odd = 0
    /\ srv \in Verdicts \cup Setups \cup Comparisons \cup Walks

-----------------------------------------------------------------------------
(* What is derived of the attempt on screen.                               *)
Attempt == srv.attempts[ui.index]

\* The checks listed: those configured, or all when none is.
CheckRows == IF srv.config = {} THEN Checks ELSE srv.config
FailedSignals == {c \in CheckRows : Attempt.checks[c] = "fail"}

PrimaryFailedSignal ==
    IF FailedSignals = {} THEN None
    ELSE CHOOSE c \in FailedSignals : FailedSignals \cap ReplyChecks # {} => c \in ReplyChecks

ShouldShowReplyComparison == PrimaryFailedSignal \in ReplyChecks \cup {None}

GateConfidence ==
    CASE Attempt.grounded = "fail" -> "Low"
      [] Attempt.tools = "simulated" -> "Low"
      [] Attempt.error -> "Low"
      [] srv.baseline = <<>> /\ Attempt.reply = <<>> -> "Low"
      [] srv.baseline = <<>> \/ Attempt.reply = <<>> -> "Medium"
      [] OTHER -> "High"

IsToolDriven == Attempt.tools # "none"
HasToolBehaviorDetails == srv.tool \/ IsToolDriven \/ Attempt.policy

AttentionItems ==
    {item \in {"policy", "evidence", "provider-warning"} :
       \/ item = "policy" /\ Attempt.policy
       \/ item = "evidence" /\ GateConfidence # "High"
       \/ item = "provider-warning" /\ Attempt.error}

HasConfigurationChanges == srv.set \cap {"prompt", "sampling", "fields"} # {}
HasAdditionalDetails ==
    AttentionItems # {} \/ HasToolBehaviorDetails \/ HasConfigurationChanges \/ "context" \in srv.set

\* The rows of the setup that lead somewhere, and where.
InputSetupRows ==
    {[row |-> s, to |-> "details"] : s \in srv.set}
      \cup (IF HasToolBehaviorDetails THEN {[row |-> "tools", to |-> "tools"]} ELSE {})

Sections ==
    (IF ui.tab = "review" THEN {"diff"} ELSE {})
      \cup (IF ui.tab = "review" /\ HasAdditionalDetails THEN {"details"} ELSE {})
      \cup (IF ui.tab = "review" /\ HasAdditionalDetails /\ HasToolBehaviorDetails THEN {"tools"} ELSE {})

-----------------------------------------------------------------------------
(* The difference of the first lines of two replies, by the longest common *)
(* part of them: dp tells how many lines two rests have in common, out how *)
(* the rests differ.                                                       *)
Line(mark, text) == [mark |-> mark, text |-> text]

FirstLines(reply) == SubSeq(reply, 1, Min(MaxLines, Len(reply)))

CommonLines(a, b) ==
    LET n == Len(a)
        m == Len(b)
        dp[p \in (1..n + 1) \X (1..m + 1)] ==
            LET i == p[1]
                j == p[2]
            IN  IF i > n \/ j > m THEN 0
                ELSE IF a[i] = b[j] THEN 1 + dp[<<i + 1, j + 1>>]
                ELSE Max(dp[<<i + 1, j>>], dp[<<i, j + 1>>])
    IN  dp

LineDiff(a, b) ==
    LET n == Len(a)
        m == Len(b)
        dp == CommonLines(a, b)
        out[p \in (1..n + 1) \X (1..m + 1)] ==
            LET i == p[1]
                j == p[2]
            IN  IF i > n /\ j > m THEN <<>>
                ELSE IF j > m THEN <<Line("-", a[i])>> \o out[<<i + 1, j>>]
                ELSE IF i > n THEN <<Line("+", b[j])>> \o out[<<i, j + 1>>]
                ELSE IF a[i] = b[j] THEN <<Line(" ", a[i])>> \o out[<<i + 1, j + 1>>]
                ELSE IF dp[<<i + 1, j>>] >= dp[<<i, j + 1>>] THEN <<Line("-", a[i])>> \o out[<<i + 1, j>>]
                ELSE <<Line("+", b[j])>> \o out[<<i, j + 1>>]
    IN  out[<<1, 1>>]

ComputeSimpleLineDiff(a, b) == LineDiff(FirstLines(a), FirstLines(b))

(* Slip: the two replies are handed over in the wrong order.               *)
SwappedDiffLines ==
    IF srv.baseline = <<>> \/ Attempt.reply = <<>> THEN <<>>
    ELSE ComputeSimpleLineDiff(Attempt.reply, srv.baseline)

ResponseDiffLines ==
    IF srv.baseline = <<>> \/ Attempt.reply = <<>> THEN <<>>
    ELSE ComputeSimpleLineDiff(srv.baseline, Attempt.reply)

\* SelectSeq, as a function that the provers can reason about.
Marked(lines, marks) ==
    LET kept[k \in 0..Len(lines)] ==
            IF k = 0 THEN <<>>
            ELSE IF lines[k].mark \in marks THEN Append(kept[k - 1], lines[k])
            ELSE kept[k - 1]
    IN  kept[Len(lines)]

Texts(lines) == [i \in 1..Len(lines) |-> lines[i].text]

IsCollapsible ==
    \E n \in {Len(srv.baseline), Len(Attempt.reply), Len(ResponseDiffLines)} : n > LineLimit

VisibleResponseDiffLines ==
    LET lines == Marked(ResponseDiffLines, IF ui.removed THEN {"-", "+", " "} ELSE {"+", " "})
    IN  IF ui.full \/ ~IsCollapsible THEN lines ELSE SubSeq(lines, 1, Min(LineLimit, Len(lines)))

-----------------------------------------------------------------------------
(* The user.  Nothing here calls the server.                               *)
Still == UNCHANGED <<net, srv, odd>>
On(tab) == ui.open /\ ui.tab = tab

\* Every opening mounts the overlay anew.
OpenAt(i) ==
    /\ ~ui.open
    /\ ui' = [Closed EXCEPT !.open = TRUE, !.index = i]
    /\ Still

Close == ui.open /\ ui' = [ui EXCEPT !.open = FALSE] /\ Still
PickTab(tab) == ui.open /\ tab # ui.tab /\ ui' = [ui EXCEPT !.tab = tab, !.at = None] /\ Still

\* Another attempt collapses the tools and the replies, and keeps the rest.
GoTo(i, menu) ==
    /\ ui' = [ui EXCEPT !.index = i, !.menu = menu, !.at = None,
                        !.tools = IF i = ui.index THEN @ ELSE FALSE,
                        !.full = IF i = ui.index THEN @ ELSE FALSE]
    /\ Still

Browsing == ui.open /\ Len(srv.attempts) > 1
Previous == Browsing /\ ui.index > 1 /\ GoTo(ui.index - 1, ui.menu)
NextOne == Browsing /\ ui.index < Len(srv.attempts) /\ GoTo(ui.index + 1, ui.menu)
ToggleMenu == Browsing /\ ui' = [ui EXCEPT !.menu = ~@] /\ Still
ToggleFailedOnly == Browsing /\ ui.menu /\ ui' = [ui EXCEPT !.failedOnly = ~@] /\ Still
Choose(i) == /\ Browsing /\ ui.menu /\ (ui.failedOnly => ~Passed(srv.attempts[i]))
             /\ GoTo(i, FALSE)

ToggleInput == On("review") /\ ui' = [ui EXCEPT !.input = ~@] /\ Still
ToggleFull == /\ On("review") /\ ShouldShowReplyComparison /\ IsCollapsible
              /\ ui' = [ui EXCEPT !.full = ~@] /\ Still
ToggleRemoved == /\ On("review") /\ ShouldShowReplyComparison
                 /\ Marked(ResponseDiffLines, {"-"}) # <<>>
                 /\ ui' = [ui EXCEPT !.removed = ~@] /\ Still
ToggleTools == /\ On("review") /\ "tools" \in Sections
               /\ ui' = [ui EXCEPT !.tools = ~@] /\ Still

\* A jump to a section that is not there scrolls nowhere.
ScrollTo(section) == IF section \in Sections THEN section ELSE "nowhere"
JumpTo(r) ==
    /\ On("review")
    /\ ui' = [ui EXCEPT !.at = ScrollTo(r.to), !.tools = @ \/ r.to = "tools"]
    /\ Still
JumpToReply == On("review") /\ IsToolDriven /\ ui' = [ui EXCEPT !.at = ScrollTo("diff")] /\ Still

Next ==
    \/ \E i \in DOMAIN srv.attempts : OpenAt(i) \/ Choose(i)
    \/ Close \/ Previous \/ NextOne \/ ToggleMenu \/ ToggleFailedOnly
    \/ \E tab \in {"review", "debug"} : PickTab(tab)
    \/ ToggleInput \/ ToggleFull \/ ToggleRemoved \/ ToggleTools
    \/ \E r \in InputSetupRows : JumpTo(r)
    \/ JumpToReply

Spec == Init /\ [][Next]_vars

-----------------------------------------------------------------------------
(* The overlay's state has its type, and shows an attempt of the report.   *)
TypeOK ==
    /\ ui.index \in DOMAIN srv.attempts /\ ui.tab \in {"review", "debug"}
    /\ ui.at \in {None, "diff", "details", "tools", "nowhere"}
    /\ {ui.open, ui.menu, ui.failedOnly, ui.input, ui.removed, ui.tools, ui.full} \subseteq BOOLEAN
    /\ ui.failedOnly => Len(srv.attempts) > 1
    /\ net = {} /\ odd = 0

(* The screen agrees with the verdict it heads: an attempt that passed     *)
(* shows no failed check, issue or warning of its provider, and one that   *)
(* failed shows its reason, unless only checks nobody configured failed.   *)
TellsWhy ==
    LET told == FailedSignals # {} \/ AttentionItems \cap {"policy", "provider-warning"} # {}
        unconfigured == {c \in Checks \ srv.config : Attempt.checks[c] = "fail"}
    IN  IF Passed(Attempt) THEN ~told ELSE told \/ unconfigured # {}

(* A jump lands in its section; the one known to lead nowhere is that of   *)
(* a model that differs when there are no further details to show.         *)
JumpsLand == ui.at = "nowhere" => srv.set = {"model"} /\ ~HasAdditionalDetails

(* Some lines of both that are the same, in the order of both.             *)
InCommon(a, b, f, g) ==
    /\ \A k \in DOMAIN f : a[f[k]] = b[g[k]]
    /\ \A k, l \in DOMAIN f : k < l => f[k] < f[l] /\ g[k] < g[l]

(* The difference tells the first lines of both replies, in order, and     *)
(* marks no line as changed that a longer common part would have kept.     *)
(* Shown in full, it hides removed lines and nothing else.                 *)
DiffTells ==
    LET d == ResponseDiffLines
        a == FirstLines(srv.baseline)
        b == FirstLines(Attempt.reply)
    IN  srv.baseline # <<>> /\ Attempt.reply # <<>> =>
          /\ Texts(Marked(d, {"-", " "})) = a
          /\ Texts(Marked(d, {"+", " "})) = b
          /\ \A k \in 1..Len(a) : \A f \in [1..k -> DOMAIN a], g \in [1..k -> DOMAIN b] :
               InCommon(a, b, f, g) => k <= Len(Marked(d, {" "}))
          /\ ui.full => Texts(Marked(VisibleResponseDiffLines, {"+", " "})) = b
          /\ ui.full /\ ui.removed => VisibleResponseDiffLines = d
=============================================================================
