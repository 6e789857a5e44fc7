------------------------ MODULE ActionExecutionProofs ------------------------
(***************************************************************************)
(* Proofs about ActionExecution.                                           *)
(*                                                                         *)
(* What concerns one call is independent of the others, so the invariant   *)
(* is a statement of each call: how far it has come, and what stands at    *)
(* the provider, in the audit trail and in the history of the connection   *)
(* by then.  A step changes one call and leaves the others alone, except   *)
(* for Connect, Disconnect and Crash.                                      *)
(*                                                                         *)
(* The first part goes through the catalogue, provider by provider: only   *)
(* there is it settled that what a schema describes is what a method takes.*)
(***************************************************************************)
EXTENDS ActionExecution, FiniteSetTheorems, TLAPS

-----------------------------------------------------------------------------
(* The catalogue.                                                          *)

\* A capability follows its method: it is a method clients can call, and takes
\* what the capability requires and describes.
Follows(capabilities, methods) ==
    \A a \in DOMAIN capabilities :
        /\ a \in DOMAIN methods \ {"validate_connection"}
        /\ methods[a].needs \subseteq capabilities[a].required
        /\ methods[a].open \/ capabilities[a].properties \subseteq methods[a].takes

Shapes == {<<>>, <<"probe">>, <<"read">>, <<"write">>, <<"read", "probe">>,
           <<"read", "write">>, <<"probe", "probe">>, <<"write", "write">>, <<"attempt">>}

WellFormed(methods) ==
    /\ "validate_connection" \in DOMAIN methods
    /\ \A a \in DOMAIN methods : methods[a].via \in Vias /\ methods[a].steps \in Shapes

LEMMA AirtableFits == Follows(airtable_capabilities, airtable_methods) /\ WellFormed(airtable_methods)
<1>1. Follows(airtable_capabilities, airtable_methods)
  BY DEF Follows, airtable_capabilities, airtable_methods, Accepts, Does,
         Fetches, Changes
<1>2. WellFormed(airtable_methods)
  BY DEF WellFormed, Vias, Shapes, airtable_methods, Does, Fetches, Changes
<1>. QED BY <1>1, <1>2

LEMMA AwsS3Fits == Follows(aws_s3_capabilities, aws_s3_methods) /\ WellFormed(aws_s3_methods)
<1>1. Follows(aws_s3_capabilities, aws_s3_methods)
  BY DEF Follows, aws_s3_capabilities, aws_s3_methods, Accepts, Does
<1>2. WellFormed(aws_s3_methods)
  BY DEF WellFormed, Vias, Shapes, aws_s3_methods, Does
<1>. QED BY <1>1, <1>2

LEMMA DiscordFits == Follows(discord_capabilities, discord_methods) /\ WellFormed(discord_methods)
<1>1. Follows(discord_capabilities, discord_methods)
  BY DEF Follows, discord_capabilities, discord_methods, Accepts, Does, Fetches,
         Changes
<1>2. WellFormed(discord_methods)
  BY DEF WellFormed, Vias, Shapes, discord_methods, Does, Fetches, Changes
<1>. QED BY <1>1, <1>2

LEMMA DropboxFits == Follows(dropbox_capabilities, dropbox_methods) /\ WellFormed(dropbox_methods)
<1>1. Follows(dropbox_capabilities, dropbox_methods)
  BY DEF Follows, dropbox_capabilities, dropbox_methods, Accepts, Does, Fetches,
         Changes
<1>2. WellFormed(dropbox_methods)
  BY DEF WellFormed, Vias, Shapes, dropbox_methods, Does, Fetches, Changes
<1>. QED BY <1>1, <1>2

LEMMA GithubFits == Follows(github_capabilities, github_methods) /\ WellFormed(github_methods)
<1>1. Follows(github_capabilities, github_methods)
  BY DEF Follows, github_capabilities, github_methods, Accepts, Does, Fetches,
         Changes, AnyKey
<1>2. WellFormed(github_methods)
  BY DEF WellFormed, Vias, Shapes, github_methods, Does, Fetches, Changes,
         AnyKey
<1>. QED BY <1>1, <1>2

LEMMA GmailFits == Follows(gmail_capabilities, gmail_methods) /\ WellFormed(gmail_methods)
<1>1. Follows(gmail_capabilities, gmail_methods)
  BY DEF Follows, gmail_capabilities, gmail_methods, Accepts, Does, Fetches,
         Changes
<1>2. WellFormed(gmail_methods)
  BY DEF WellFormed, Vias, Shapes, gmail_methods, Does, Fetches, Changes
<1>. QED BY <1>1, <1>2

LEMMA GoogleCalendarFits == Follows(google_calendar_capabilities, google_calendar_methods) /\ WellFormed(google_calendar_methods)
<1>1. Follows(google_calendar_capabilities, google_calendar_methods)
  BY DEF Follows, google_calendar_capabilities, google_calendar_methods,
         Accepts, Does, Fetches, Changes, AnyKey
<1>2. WellFormed(google_calendar_methods)
  BY DEF WellFormed, Vias, Shapes, google_calendar_methods, Does, Fetches,
         Changes, AnyKey
<1>. QED BY <1>1, <1>2

LEMMA GoogleDriveFits == Follows(google_drive_capabilities, google_drive_methods) /\ WellFormed(google_drive_methods)
<1>1. Follows(google_drive_capabilities, google_drive_methods)
  BY DEF Follows, google_drive_capabilities, google_drive_methods, Accepts,
         Does, Fetches, Changes
<1>2. WellFormed(google_drive_methods)
  BY DEF WellFormed, Vias, Shapes, google_drive_methods, Does, Fetches, Changes
<1>. QED BY <1>1, <1>2

LEMMA HubspotFits == Follows(hubspot_capabilities, hubspot_methods) /\ WellFormed(hubspot_methods)
<1>1. Follows(hubspot_capabilities, hubspot_methods)
  BY DEF Follows, hubspot_capabilities, hubspot_methods, Accepts, Does, Fetches,
         Changes
<1>2. WellFormed(hubspot_methods)
  BY DEF WellFormed, Vias, Shapes, hubspot_methods, Does, Fetches, Changes
<1>. QED BY <1>1, <1>2

LEMMA JiraFits == Follows(jira_capabilities, jira_methods) /\ WellFormed(jira_methods)
<1>1. Follows(jira_capabilities, jira_methods)
  BY DEF Follows, jira_capabilities, jira_methods, Accepts, Does, Fetches,
         Changes, AnyKey
<1>2. WellFormed(jira_methods)
  BY DEF WellFormed, Vias, Shapes, jira_methods, Does, Fetches, Changes, AnyKey
<1>. QED BY <1>1, <1>2

LEMMA MongodbFits == Follows(mongodb_capabilities, mongodb_methods) /\ WellFormed(mongodb_methods)
<1>1. Follows(mongodb_capabilities, mongodb_methods)
  BY DEF Follows, mongodb_capabilities, mongodb_methods, Accepts, Does
<1>2. WellFormed(mongodb_methods)
  BY DEF WellFormed, Vias, Shapes, mongodb_methods, Does
<1>. QED BY <1>1, <1>2

LEMMA MysqlFits == Follows(mysql_capabilities, mysql_methods) /\ WellFormed(mysql_methods)
<1>1. Follows(mysql_capabilities, mysql_methods)
  BY DEF Follows, mysql_capabilities, mysql_methods, Accepts, Does, Reads,
         Committed, Uncommitted
<1>2. WellFormed(mysql_methods)
  BY DEF WellFormed, Vias, Shapes, mysql_methods, Does, Reads, Committed,
         Uncommitted
<1>. QED BY <1>1, <1>2

LEMMA NotionFits == Follows(notion_capabilities, notion_methods) /\ WellFormed(notion_methods)
<1>1. Follows(notion_capabilities, notion_methods)
  BY DEF Follows, notion_capabilities, notion_methods, Accepts, Does, Fetches,
         Changes
<1>2. WellFormed(notion_methods)
  BY DEF WellFormed, Vias, Shapes, notion_methods, Does, Fetches, Changes
<1>. QED BY <1>1, <1>2

LEMMA OnedriveFits == Follows(onedrive_capabilities, onedrive_methods) /\ WellFormed(onedrive_methods)
<1>1. Follows(onedrive_capabilities, onedrive_methods)
  BY DEF Follows, onedrive_capabilities, onedrive_methods, Accepts, Does,
         Fetches, Changes
<1>2. WellFormed(onedrive_methods)
  BY DEF WellFormed, Vias, Shapes, onedrive_methods, Does, Fetches, Changes
<1>. QED BY <1>1, <1>2

LEMMA PostgresFits == Follows(postgres_capabilities, postgres_methods) /\ WellFormed(postgres_methods)
<1>1. Follows(postgres_capabilities, postgres_methods)
  BY DEF Follows, postgres_capabilities, postgres_methods, Accepts, Does, Reads,
         Uncommitted
<1>2. WellFormed(postgres_methods)
  BY DEF WellFormed, Vias, Shapes, postgres_methods, Does, Reads, Uncommitted
<1>. QED BY <1>1, <1>2

LEMMA SalesforceFits == Follows(salesforce_capabilities, salesforce_methods) /\ WellFormed(salesforce_methods)
<1>1. Follows(salesforce_capabilities, salesforce_methods)
  BY DEF Follows, salesforce_capabilities, salesforce_methods, Accepts, Does,
         Fetches, Changes
<1>2. WellFormed(salesforce_methods)
  BY DEF WellFormed, Vias, Shapes, salesforce_methods, Does, Fetches, Changes
<1>. QED BY <1>1, <1>2

LEMMA SendgridFits == Follows(sendgrid_capabilities, sendgrid_methods) /\ WellFormed(sendgrid_methods)
<1>1. Follows(sendgrid_capabilities, sendgrid_methods)
  BY DEF Follows, sendgrid_capabilities, sendgrid_methods, Accepts, Does,
         Fetches, Changes
<1>2. WellFormed(sendgrid_methods)
  BY DEF WellFormed, Vias, Shapes, sendgrid_methods, Does, Fetches, Changes
<1>. QED BY <1>1, <1>2

LEMMA SlackFits == Follows(slack_capabilities, slack_methods) /\ WellFormed(slack_methods)
<1>1. Follows(slack_capabilities, slack_methods)
  BY DEF Follows, slack_capabilities, slack_methods, Accepts, Does, Fetches,
         Changes
<1>2. WellFormed(slack_methods)
  BY DEF WellFormed, Vias, Shapes, slack_methods, Does, Fetches, Changes
<1>. QED BY <1>1, <1>2

LEMMA StripeFits == Follows(stripe_capabilities, stripe_methods) /\ WellFormed(stripe_methods)
<1>1. Follows(stripe_capabilities, stripe_methods)
  BY DEF Follows, stripe_capabilities, stripe_methods, Accepts, Does, Fetches,
         Changes, AnyKey
<1>2. WellFormed(stripe_methods)
  BY DEF WellFormed, Vias, Shapes, stripe_methods, Does, Fetches, Changes,
         AnyKey
<1>. QED BY <1>1, <1>2

LEMMA SupabaseFits == Follows(supabase_capabilities, supabase_methods) /\ WellFormed(supabase_methods)
<1>1. Follows(supabase_capabilities, supabase_methods)
  BY DEF Follows, supabase_capabilities, supabase_methods, Accepts, Does,
         Fetches, Changes
<1>2. WellFormed(supabase_methods)
  BY DEF WellFormed, Vias, Shapes, supabase_methods, Does, Fetches, Changes
<1>. QED BY <1>1, <1>2

LEMMA TrelloFits == Follows(trello_capabilities, trello_methods) /\ WellFormed(trello_methods)
<1>1. Follows(trello_capabilities, trello_methods)
  BY DEF Follows, trello_capabilities, trello_methods, Accepts, Does, Fetches,
         Changes, AnyKey
<1>2. WellFormed(trello_methods)
  BY DEF WellFormed, Vias, Shapes, trello_methods, Does, Fetches, Changes,
         AnyKey
<1>. QED BY <1>1, <1>2

LEMMA TwilioFits == Follows(twilio_capabilities, twilio_methods) /\ WellFormed(twilio_methods)
<1>1. Follows(twilio_capabilities, twilio_methods)
  BY DEF Follows, twilio_capabilities, twilio_methods, Accepts, Does, Fetches,
         Changes
<1>2. WellFormed(twilio_methods)
  BY DEF WellFormed, Vias, Shapes, twilio_methods, Does, Fetches, Changes
<1>. QED BY <1>1, <1>2

LEMMA WebhookFits == Follows(webhook_capabilities, webhook_methods) /\ WellFormed(webhook_methods)
<1>1. Follows(webhook_capabilities, webhook_methods)
  BY DEF Follows, webhook_capabilities, webhook_methods, Accepts, Does, Changes
<1>2. WellFormed(webhook_methods)
  BY DEF WellFormed, Vias, Shapes, webhook_methods, Does, Changes
<1>. QED BY <1>1, <1>2

LEMMA CatalogueFits ==
    \A p \in DOMAIN Capabilities : Follows(Capabilities[p], Methods[p]) /\ WellFormed(Methods[p])
  BY AirtableFits, AwsS3Fits, DiscordFits, DropboxFits, GithubFits, GmailFits,
     GoogleCalendarFits, GoogleDriveFits, HubspotFits, JiraFits, MongodbFits,
     MysqlFits, NotionFits, OnedriveFits, PostgresFits, SalesforceFits,
     SendgridFits, SlackFits, StripeFits, SupabaseFits, TrelloFits, TwilioFits,
     WebhookFits
     DEF Capabilities, Methods

LEMMA ShapesType == Shapes \subseteq Seq(Steps)
  BY DEF Shapes, Steps

\* What the manager finds in the class of a provider it is run with.
LEMMA MethodType ==
    /\ provider \in Providers => Follows(Capabilities[provider], Methods[provider])
    /\ provider \in Providers => "validate_connection" \in DOMAIN Methods[provider]
    /\ \A a : provider \in Providers /\ a \in DOMAIN Methods[provider] =>
          Methods[provider][a].via \in Vias /\ Methods[provider][a].steps \in Seq(Steps)
  BY CatalogueFits, ShapesType, ProviderAssumption DEF WellFormed

-----------------------------------------------------------------------------
(* The inductive invariant.                                                *)

\* The first k steps are done as often as they are in the request.
AsWritten(c, k) ==
    call[c].request.via # "session" =>
        IF call[c].request.via = "http" THEN standing[c] >= Written(call[c].request, k)
        ELSE standing[c] = Written(call[c].request, k)

Unstarted(c) ==
    call[c].pc \in {"idle", "accepted", "fallback"} =>
        call[c].at = 1 /\ standing[c] = 0 /\ call[c].outcome = "none"

InStep(c) ==
    call[c].pc \in {"running", "sent", "executed"} =>
        /\ call[c].outcome = "none"
        /\ call[c].at \in 1..(Len(call[c].request.steps) + 1)
        /\ call[c].pc # "running" => ~ AtEnd(c)
        /\ call[c].pc = "executed" => Step(c) = "write" /\ InTransaction(c)
        /\ AsWritten(c, call[c].at - 1)

Ended(c) ==
    call[c].outcome = "ok" =>
        /\ call[c].pc \in {"closing", "auditing", "answered", "dead"}
        /\ AsWritten(c, Len(call[c].request.steps))

Fitting(c) ==
    /\ call[c].fits => call[c].request # Unbound
    /\ call[c].outcome = "unbound" => call[c].request = Unbound

Trail(c) ==
    /\ call[c].pc = "auditing" => call[c].outcome = "ok" /\ call[c].op = "execute"
    /\ call[c].pc = "answered" /\ call[c].op = "execute" /\ call[c].outcome = "ok"
          => c \in audit
    /\ c \in audit => call[c].outcome = "ok" /\ call[c].pc = "answered"

\* Who got past get_connection found the connection active.
Linked(c) ==
    /\ Active /\ c \in InFlight => c \in connected
    /\ call[c].pc \in {"fallback", "running", "sent", "executed", "closing", "auditing"}
          => c \in connected
    /\ call[c].outcome = "ok" => c \in connected

Opened(c) == c \in clients => call[c].pc \in {"running", "sent", "executed", "closing"}

CallInv(c) ==
    /\ Unstarted(c) /\ InStep(c) /\ Ended(c) /\ Fitting(c)
    /\ Trail(c) /\ Linked(c) /\ Opened(c)

IInv == TypeOK /\ \A c \in Calls : CallInv(c)

-----------------------------------------------------------------------------
(* Counting writes.                                                        *)

LEMMA WrittenFinite ==
    \A r : \A k \in Nat : IsFiniteSet({i \in 1..k : r.steps[i] = "write"})
<1>. TAKE r
<1>. TAKE k \in Nat
<1>1. IsFiniteSet(1..k)
  BY FS_Interval
<1>2. {i \in 1..k : r.steps[i] = "write"} \subseteq 1..k
  OBVIOUS
<1>. QED BY <1>1, <1>2, FS_Subset

LEMMA WrittenType == \A r : \A k \in Nat : Written(r, k) \in Nat
  BY WrittenFinite, FS_CardinalityType DEF Written

LEMMA WrittenNone == \A r : Written(r, 0) = 0
<1>. TAKE r
<1>1. {i \in 1..0 : r.steps[i] = "write"} = {}
  OBVIOUS
<1>. QED BY <1>1, FS_EmptySet DEF Written

\* One more step adds one write or none.
LEMMA WrittenNext ==
    ASSUME NEW r, NEW k \in Nat \ {0}
    PROVE  Written(r, k) = IF r.steps[k] = "write" THEN Written(r, k - 1) + 1
                           ELSE Written(r, k - 1)
<1>. DEFINE W(n) == {i \in 1..n : r.steps[i] = "write"}
<1>1. IsFiniteSet(W(k - 1))
  BY WrittenFinite
<1>2. CASE r.steps[k] = "write"
  <2>1. W(k) = W(k - 1) \cup {k} /\ k \notin W(k - 1)
    BY <1>2
  <2>. QED BY <1>1, <1>2, <2>1, FS_AddElement DEF Written
<1>3. CASE r.steps[k] # "write"
  <2>1. W(k) = W(k - 1)
    BY <1>3
  <2>. QED BY <1>3, <2>1 DEF Written
<1>. QED BY <1>2, <1>3

-----------------------------------------------------------------------------
(* Types.                                                                  *)

LEMMA IdleType == Unbound \in Request /\ Idle \in Call
<1>1. Unbound \in Request
  BY DEF Unbound, Request
<1>. QED BY <1>1 DEF Idle, Call, Points, Outcomes

LEMMA BoundType ==
    ASSUME provider \in Providers, NEW a, NEW fields
    PROVE  Bound(a, fields) \in Request
<1>1. CASE a \in Dispatch /\ Takes(a, fields)
  BY <1>1, MethodType DEF Bound, Dispatch, Request
<1>2. CASE ~ (a \in Dispatch /\ Takes(a, fields))
  BY <1>2, IdleType DEF Bound
<1>. QED BY <1>1, <1>2

LEMMA ValidateType ==
    ASSUME provider \in Providers
    PROVE  [via |-> Methods[provider]["validate_connection"].via,
            steps |-> Methods[provider]["validate_connection"].steps] \in Request
  BY MethodType DEF Request

\* What a request may become keeps its type.
LEMMA CallFields ==
    ASSUME NEW r \in Call
    PROVE  /\ r.request \in Request /\ r.request.steps \in Seq(Steps)
           /\ Len(r.request.steps) \in Nat
           /\ r.at \in Nat /\ r.attempts \in Nat /\ r.fits \in BOOLEAN
  BY DEF Call, Request

LEMMA AcceptedType ==
    ASSUME NEW request \in Request, NEW fits \in BOOLEAN
    PROVE  /\ [Idle EXCEPT !.pc = "accepted", !.op = "execute",
                           !.fits = fits, !.request = request] \in Call
           /\ [Idle EXCEPT !.pc = "accepted", !.op = "validate", !.request = request] \in Call
<1>1. [Idle EXCEPT !.pc = "accepted", !.op = "execute",
                   !.fits = fits, !.request = request] \in Call
  BY IdleType DEF Call, Points
<1>2. [Idle EXCEPT !.pc = "accepted", !.op = "validate", !.request = request] \in Call
  BY IdleType DEF Call, Points
<1>. QED BY <1>1, <1>2

LEMMA FieldType ==
    /\ \A r \in Call : \A x \in Points : [r EXCEPT !.pc = x] \in Call
    /\ \A r \in Call : \A x \in Outcomes : [r EXCEPT !.outcome = x] \in Call
    /\ \A r \in Call : \A x \in BOOLEAN : [r EXCEPT !.fits = x] \in Call
    /\ \A r \in Call : \A x \in Nat : [r EXCEPT !.at = x] \in Call
    /\ \A r \in Call : \A x \in Nat : [r EXCEPT !.attempts = x] \in Call
<1>1. ASSUME NEW r \in Call, NEW x \in Points PROVE [r EXCEPT !.pc = x] \in Call
  BY DEF Call
<1>2. ASSUME NEW r \in Call, NEW x \in Outcomes PROVE [r EXCEPT !.outcome = x] \in Call
  BY DEF Call
<1>3. ASSUME NEW r \in Call, NEW x \in BOOLEAN PROVE [r EXCEPT !.fits = x] \in Call
  BY DEF Call
<1>4. ASSUME NEW r \in Call, NEW x \in Nat PROVE [r EXCEPT !.at = x] \in Call
  BY DEF Call
<1>5. ASSUME NEW r \in Call, NEW x \in Nat PROVE [r EXCEPT !.attempts = x] \in Call
  BY DEF Call
<1>. QED BY <1>1, <1>2, <1>3, <1>4, <1>5

LEMMA MovedType ==
    ASSUME NEW r \in Call
    PROVE  /\ \A p \in Points : [r EXCEPT !.pc = p] \in Call
           /\ \A p \in Points, o \in Outcomes :
                 [r EXCEPT !.pc = p, !.outcome = o] \in Call
           /\ [r EXCEPT !.pc = "running", !.fits = FALSE] \in Call
           /\ [r EXCEPT !.pc = "running", !.at = @ + 1, !.attempts = 0] \in Call
           /\ [r EXCEPT !.pc = "sent", !.attempts = 1] \in Call
           /\ [r EXCEPT !.attempts = @ + 1] \in Call
<1>1. /\ "running" \in Points /\ "sent" \in Points /\ 0 \in Nat /\ 1 \in Nat
      /\ r.at + 1 \in Nat /\ r.attempts + 1 \in Nat
  BY DEF Points, Call
<1>2. \A p, o : [r EXCEPT !.pc = p, !.outcome = o] = [[r EXCEPT !.pc = p] EXCEPT !.outcome = o]
  OBVIOUS
<1>3. [r EXCEPT !.pc = "running", !.fits = FALSE] = [[r EXCEPT !.pc = "running"] EXCEPT !.fits = FALSE]
  OBVIOUS
<1>4. [r EXCEPT !.pc = "running", !.at = @ + 1, !.attempts = 0] =
         [[[r EXCEPT !.pc = "running"] EXCEPT !.at = r.at + 1] EXCEPT !.attempts = 0]
  OBVIOUS
<1>5. [r EXCEPT !.pc = "sent", !.attempts = 1] = [[r EXCEPT !.pc = "sent"] EXCEPT !.attempts = 1]
  OBVIOUS
<1>. QED BY ONLY FieldType, <1>1, <1>2, <1>3, <1>4, <1>5, r \in Call

\* The other calls are where they were.
Others(c) == \A d \in Calls \ {c} : call'[d] = call[d]

LEMMA OneCall ==
    ASSUME TypeOK, NEW c \in Calls, NEW r \in Call, call' = [call EXCEPT ![c] = r]
    PROVE  /\ call' \in [Calls -> Call] /\ call'[c] = r
           /\ Others(c)
  BY DEF TypeOK, Others

\* The ways a step changes its call.
LEMMA ToType ==
    ASSUME TypeOK, NEW c \in Calls, NEW p \in Points, To(c, p)
    PROVE  /\ call' \in [Calls -> Call] /\ Others(c)
           /\ call'[c] = [call[c] EXCEPT !.pc = p]
<1>1. call' = [call EXCEPT ![c] = [call[c] EXCEPT !.pc = p]]
  BY DEF To
<1>2. [call[c] EXCEPT !.pc = p] \in Call
  BY MovedType DEF TypeOK
<1>. QED BY ONLY <1>1, <1>2, OneCall, TypeOK, c \in Calls

LEMMA AnswerType ==
    ASSUME TypeOK, NEW c \in Calls, NEW o \in Outcomes, Answer(c, o)
    PROVE  /\ call' \in [Calls -> Call] /\ Others(c)
           /\ call'[c] = [call[c] EXCEPT !.pc = "answered", !.outcome = o]
<1>1. call' = [call EXCEPT ![c] = [call[c] EXCEPT !.pc = "answered", !.outcome = o]]
  BY DEF Answer
<1>2. [call[c] EXCEPT !.pc = "answered", !.outcome = o] \in Call
  BY MovedType DEF TypeOK, Points
<1>. QED BY ONLY <1>1, <1>2, OneCall, TypeOK, c \in Calls

LEMMA ClosingType ==
    ASSUME TypeOK, NEW c \in Calls, NEW o \in Outcomes, Closing(c, o)
    PROVE  /\ call' \in [Calls -> Call] /\ Others(c)
           /\ call'[c] = [call[c] EXCEPT !.pc = "closing", !.outcome = o]
<1>1. call' = [call EXCEPT ![c] = [call[c] EXCEPT !.pc = "closing", !.outcome = o]]
  BY DEF Closing
<1>2. [call[c] EXCEPT !.pc = "closing", !.outcome = o] \in Call
  BY MovedType DEF TypeOK, Points
<1>. QED BY ONLY <1>1, <1>2, OneCall, TypeOK, c \in Calls

LEMMA AdvanceType ==
    ASSUME TypeOK, NEW c \in Calls, Advance(c)
    PROVE  /\ call' \in [Calls -> Call] /\ Others(c)
           /\ call'[c] = [call[c] EXCEPT !.pc = "running", !.at = @ + 1, !.attempts = 0]
<1>1. call' = [call EXCEPT ![c] = [call[c] EXCEPT !.pc = "running", !.at = @ + 1,
                                                  !.attempts = 0]]
  BY DEF Advance
<1>2. [call[c] EXCEPT !.pc = "running", !.at = @ + 1, !.attempts = 0] \in Call
  BY MovedType DEF TypeOK
<1>. QED BY ONLY <1>1, <1>2, OneCall, TypeOK, c \in Calls

LEMMA BindType ==
    ASSUME TypeOK, NEW c \in Calls, Bind(c)
    PROVE  /\ call' \in [Calls -> Call] /\ Others(c)
           /\ call'[c] = IF call[c].request = Unbound
                         THEN [call[c] EXCEPT !.pc = "closing", !.outcome = "unbound"]
                         ELSE [call[c] EXCEPT !.pc = "running", !.fits = FALSE]
<1>. DEFINE r == IF call[c].request = Unbound
                 THEN [call[c] EXCEPT !.pc = "closing", !.outcome = "unbound"]
                 ELSE [call[c] EXCEPT !.pc = "running", !.fits = FALSE]
<1>1. call' = [call EXCEPT ![c] = r]
  BY DEF Bind
<1>2. [call[c] EXCEPT !.pc = "closing", !.outcome = "unbound"] \in Call
  BY MovedType DEF TypeOK, Points, Outcomes
<1>3. [call[c] EXCEPT !.pc = "running", !.fits = FALSE] \in Call
  BY MovedType DEF TypeOK
<1>4. r \in Call
  BY ONLY <1>2, <1>3
<1>. HIDE DEF r
<1>5. call' \in [Calls -> Call] /\ Others(c) /\ call'[c] = r
  BY ONLY <1>1, <1>4, OneCall, TypeOK, c \in Calls
<1>. QED BY <1>5 DEF r

\* A new request, or one step of a request.
LEMMA TypeStep == TypeOK /\ [Next]_vars => TypeOK'
<1>. SUFFICES ASSUME TypeOK, [Next]_vars PROVE TypeOK'
  OBVIOUS
<1>. DEFINE Rest == /\ provider' \in Providers /\ connection' \in Connection
                    /\ credentials' \in 0..2
                    /\ clients' \subseteq Calls /\ audit' \subseteq Calls
                    /\ connected' \subseteq Calls /\ faults' \in Nat
                    /\ standing' \in [Calls -> Nat]
<1>1. ASSUME NEW c \in Calls, NEW r \in Call, call' = [call EXCEPT ![c] = r]
      PROVE  call' \in [Calls -> Call]
  BY <1>1, OneCall
<1>2. ASSUME NEW c \in Calls PROVE call[c] \in Call
  BY DEF TypeOK
<1>3. ASSUME NEW c \in Calls,
             \/ \E p \in Points : To(c, p)
             \/ \E o \in Outcomes : Answer(c, o) \/ Closing(c, o)
             \/ Advance(c) \/ Bind(c)
      PROVE  call' \in [Calls -> Call]
  BY <1>3, ToType, AnswerType, ClosingType, AdvanceType, BindType
<1>4. /\ {"fallback", "executed", "auditing", "answered"} \subseteq Points
      /\ {"invalid", "refused", "failed", "ok"} \subseteq Outcomes
  BY DEF Points, Outcomes
<1>5. ASSUME NEW c \in Calls, Lands(c) \/ UNCHANGED standing \/ MayHaveLanded(c)
      PROVE  standing' \in [Calls -> Nat]
  BY <1>5 DEF Lands, MayHaveLanded, TypeOK
<1>6. ASSUME NEW c \in Calls, validate_payload(c) PROVE TypeOK'
  <2>1. call' \in [Calls -> Call]
    <3>1. PICK a, fields : \/ Answer(c, "invalid")
                           \/ call' = [call EXCEPT ![c] = [Idle EXCEPT
                                 !.pc = "accepted", !.op = "execute",
                                 !.fits = Described(a, fields), !.request = Bound(a, fields)]]
      BY <1>6 DEF validate_payload
    <3>2. Bound(a, fields) \in Request /\ Described(a, fields) \in BOOLEAN
      BY BoundType DEF TypeOK, Described
    <3>3. [Idle EXCEPT !.pc = "accepted", !.op = "execute",
                       !.fits = Described(a, fields), !.request = Bound(a, fields)] \in Call
      BY <3>2, AcceptedType
    <3>. QED BY <3>1, <3>3, <1>1, <1>3, <1>4
  <2>2. Rest
    BY <1>6 DEF validate_payload, TypeOK, store
  <2>. QED BY <2>1, <2>2 DEF TypeOK
<1>7. ASSUME NEW c \in Calls, validate(c) PROVE TypeOK'
  <2>1. call' \in [Calls -> Call]
    BY <1>7, <1>1, ValidateType, AcceptedType DEF validate, TypeOK
  <2>2. Rest
    BY <1>7 DEF validate, TypeOK, store
  <2>. QED BY <2>1, <2>2 DEF TypeOK
<1>8. ASSUME NEW c \in Calls, get_connection(c) \/ _build_provider(c) PROVE TypeOK'
  <2>1. (\E p \in Points : To(c, p)) \/ (\E o \in Outcomes : Answer(c, o)) \/ Bind(c)
    <3>1. CASE get_connection(c)
      <4>1. connection.blob \in Blobs
        BY DEF TypeOK, Connection
      <4>. QED BY <3>1, <4>1, <1>4 DEF get_connection, Blobs
    <3>2. CASE _build_provider(c)
      BY <3>2, <1>4 DEF _build_provider
    <3>. QED BY <1>8, <3>1, <3>2
  <2>2. Rest
    BY <1>8 DEF get_connection, _build_provider, TypeOK, store
  <2>. QED BY <2>1, <2>2, <1>3 DEF TypeOK
<1>9. ASSUME NEW c \in Calls, RaisesBefore(c) \/ Returns(c) \/ RecordFails(c) \/ ClosesSession(c)
      PROVE  TypeOK'
  <2>1. (\E o \in Outcomes : Answer(c, o) \/ Closing(c, o)) \/ Advance(c)
    BY <1>9, <1>4 DEF RaisesBefore, Raises, Returns, RecordFails, ClosesSession
  <2>2. Rest
    BY <1>9 DEF RaisesBefore, Returns, RecordFails, ClosesSession, TypeOK, store
  <2>. QED BY <2>1, <2>2, <1>3 DEF TypeOK
<1>10. ASSUME NEW c \in Calls, Sends(c) \/ Retries(c) PROVE TypeOK'
  <2>1. call' = [call EXCEPT ![c] = [call[c] EXCEPT !.pc = "sent", !.attempts = 1]]
        \/ call' = [call EXCEPT ![c] = [call[c] EXCEPT !.attempts = @ + 1]]
    BY <1>10 DEF Sends, Retries, Resends
  <2>2. call' \in [Calls -> Call]
    BY <2>1, <1>1, <1>2, MovedType
  <2>3. standing' \in [Calls -> Nat]
    BY <1>10, <1>5 DEF Sends, Retries, Resends
  <2>4. Rest
    BY <1>10, <2>3 DEF Sends, Retries, Resends, TypeOK, store
  <2>. QED BY <2>2, <2>4 DEF TypeOK
<1>11. ASSUME NEW c \in Calls, Succeeds(c) \/ Fails(c) \/ commit(c) PROVE TypeOK'
  <2>1. \/ \E p \in Points : To(c, p)
        \/ \E o \in Outcomes : Closing(c, o)
        \/ Advance(c)
    BY <1>11, <1>4 DEF Succeeds, Fails, Raises, commit
  <2>2. standing' \in [Calls -> Nat]
    BY <1>11, <1>5 DEF Succeeds, Fails, commit
  <2>3. Rest
    BY <1>11, <2>2 DEF Succeeds, Fails, commit, TypeOK, store
  <2>. QED BY <2>1, <2>3, <1>3 DEF TypeOK
<1>12. ASSUME NEW c \in Calls, disconnect(c) \/ record(c) PROVE TypeOK'
  <2>1. \E p \in Points : To(c, p)
    BY <1>12, <1>4 DEF disconnect, record
  <2>2. Rest
    BY <1>12 DEF disconnect, record, Recorded, TypeOK, store
  <2>. QED BY <2>1, <2>2, <1>3 DEF TypeOK
<1>13. CASE Connect \/ Disconnect \/ StoreCredential \/ DeleteCredential
  <2>1. connection.blob \in Blobs
    BY DEF TypeOK, Connection
  <2>2. \A blob \in Blobs, s \in {"none", "active", "inactive"} :
           [state |-> s, blob |-> blob] \in Connection
    BY DEF Connection
  <2>3. {"usable", "empty", "null"} \subseteq Blobs
    BY DEF Blobs
  <2>4. connection' \in Connection
    BY <1>13, <2>1, <2>2, <2>3
       DEF Connect, Disconnect, StoreCredential, DeleteCredential, TypeOK
  <2>5. credentials' \in 0..2
    BY <1>13 DEF Connect, Disconnect, StoreCredential, DeleteCredential, TypeOK
  <2>6. connected' \subseteq Calls
    BY <1>13 DEF Connect, Disconnect, StoreCredential, DeleteCredential, TypeOK, InFlight
  <2>. QED
    BY <1>13, <2>4, <2>5, <2>6
       DEF Connect, Disconnect, StoreCredential, DeleteCredential, TypeOK
<1>14. CASE Crash
  <2>1. \A c \in Calls : call[c] \in Call /\ [call[c] EXCEPT !.pc = "dead"] \in Call
    BY <1>2, MovedType DEF Points
  <2>2. call' \in [Calls -> Call]
    BY <1>14, <2>1 DEF Crash
  <2>3. standing' \in [Calls -> Nat]
    BY <1>14 DEF Crash, TypeOK
  <2>. QED BY <1>14, <2>2, <2>3 DEF Crash, TypeOK, store
<1>15. CASE UNCHANGED vars
  BY <1>15 DEF vars, store, TypeOK
<1>. QED
  BY <1>6, <1>7, <1>8, <1>9, <1>10, <1>11, <1>12, <1>13, <1>14, <1>15 DEF Next, Proceed

LEMMA TypeInit == Init => TypeOK
<1>. SUFFICES ASSUME Init PROVE TypeOK
  OBVIOUS
<1>1. connection \in Connection
  BY DEF Init, Connection, Blobs
<1>2. call \in [Calls -> Call]
  BY IdleType DEF Init
<1>. QED BY <1>1, <1>2, AttemptAssumption DEF Init, TypeOK

-----------------------------------------------------------------------------
(* The calls, one by one.                                                  *)

LEMMA InitInv == Init => IInv
<1>. SUFFICES ASSUME Init PROVE IInv
  OBVIOUS
<1>1. ASSUME NEW c \in Calls PROVE CallInv(c)
  <2>1. /\ call[c].pc = "idle" /\ call[c].at = 1 /\ call[c].outcome = "none"
        /\ ~ call[c].fits /\ standing[c] = 0
        /\ c \notin audit /\ c \notin clients
    BY DEF Init, Idle
  <2>2. Unstarted(c) /\ InStep(c) /\ Ended(c)
    BY <2>1 DEF Unstarted, InStep, Ended
  <2>3. Fitting(c) /\ Trail(c) /\ Opened(c)
    BY <2>1 DEF Fitting, Trail, Opened
  <2>4. Linked(c)
    BY <2>1 DEF Linked, InFlight
  <2>. QED BY <2>2, <2>3, <2>4 DEF CallInv
<1>. QED BY <1>1, TypeInit DEF IInv

\* Nothing is different for the calls other than c.
Apart(c) ==
    /\ Others(c)
    /\ \A d \in Calls \ {c} :
          /\ standing'[d] = standing[d]
          /\ d \in connected' <=> d \in connected
          /\ d \in audit' <=> d \in audit
          /\ d \in clients' <=> d \in clients
    /\ connection' = connection

LEMMA ApartKeep ==
    ASSUME IInv, NEW c \in Calls, Apart(c)
    PROVE  \A d \in Calls \ {c} : CallInv(d)'
<1>. TAKE d \in Calls \ {c}
<1>1. /\ call'[d] = call[d] /\ standing'[d] = standing[d]
      /\ d \in connected' <=> d \in connected
      /\ d \in audit' <=> d \in audit
      /\ d \in clients' <=> d \in clients
      /\ connection' = connection
  BY DEF Apart, Others
<1>2. CallInv(d)
  BY DEF IInv
<1>3. Unstarted(d)' /\ Ended(d)' /\ Fitting(d)' /\ Opened(d)'
  BY <1>1, <1>2 DEF CallInv, Unstarted, Ended, Fitting, Opened, AsWritten
<1>4. InStep(d)'
  BY <1>1, <1>2 DEF CallInv, InStep, AsWritten, AtEnd, Step, InTransaction
<1>5. Trail(d)' /\ Linked(d)'
  BY <1>1, <1>2 DEF CallInv, Trail, Linked, InFlight, Active
<1>. QED BY <1>3, <1>4, <1>5 DEF CallInv

\* What the steps of a call leave as it is.
Same(c) ==
    /\ call'[c].request = call[c].request /\ call'[c].op = call[c].op
    /\ connection' = connection
    /\ c \in connected => c \in connected'
    /\ c \in audit' <=> c \in audit

\* A call fails: it is answered, or its instance is about to be closed.
LEMMA FailsInv ==
    ASSUME IInv, NEW c \in Calls, Same(c), call'[c].fits = call[c].fits,
           call'[c].outcome \in {"invalid", "refused", "failed"},
           \/ /\ call[c].pc \in {"idle", "accepted", "fallback", "auditing"}
              /\ call'[c].pc = "answered" /\ clients' = clients
           \/ /\ call[c].pc \in {"running", "sent", "executed"}
              /\ call'[c].pc = "closing" /\ clients' = clients
    PROVE  CallInv(c)'
<1>1. CallInv(c)
  BY DEF IInv
<1>2. Unstarted(c)' /\ InStep(c)' /\ Ended(c)'
  BY DEF Unstarted, InStep, Ended
<1>3. Fitting(c)' /\ Trail(c)' /\ Opened(c)'
  BY <1>1 DEF CallInv, Fitting, Trail, Opened, Same
<1>4. Linked(c)'
  BY <1>1 DEF CallInv, Linked, InFlight, Active, Same
<1>. QED BY <1>2, <1>3, <1>4 DEF CallInv

\* The writes of the steps so far stand, and those of the next one as well.
LEMMA AdvanceInv ==
    ASSUME IInv, TypeOK', NEW c \in Calls, Same(c), clients' = clients,
           call[c].pc \in {"running", "sent", "executed"}, ~ AtEnd(c),
           call'[c] = [call[c] EXCEPT !.pc = "running", !.at = @ + 1, !.attempts = 0],
           \/ call[c].request.via = "session"
           \/ standing'[c] = IF Step(c) = "write" THEN standing[c] + 1 ELSE standing[c]
           \/ /\ call[c].request.via = "http" /\ Step(c) # "write"
              /\ standing'[c] >= standing[c]
    PROVE  CallInv(c)'
<1>1. CallInv(c) /\ call[c] \in Call /\ standing[c] \in Nat
  BY DEF IInv, TypeOK
<1>. DEFINE k == call[c].at
            q == call[c].request
<1>2. /\ k \in Nat \ {0} /\ Len(q.steps) \in Nat /\ k <= Len(q.steps)
      /\ Written(q, k - 1) \in Nat /\ Written(q, k) \in Nat
      /\ Written(q, k) = IF q.steps[k] = "write" THEN Written(q, k - 1) + 1
                         ELSE Written(q, k - 1)
  <2>1. k \in Nat \ {0} /\ Len(q.steps) \in Nat /\ k <= Len(q.steps)
    BY <1>1, CallFields DEF CallInv, InStep, AtEnd
  <2>2. k - 1 \in Nat
    BY <2>1
  <2>. QED BY <2>1, <2>2, WrittenType, WrittenNext
<1>3. /\ call'[c].pc = "running" /\ call'[c].at = k + 1 /\ call'[c].request = q
      /\ call'[c].outcome = call[c].outcome /\ call'[c].fits = call[c].fits
      /\ call'[c].op = call[c].op
  BY <1>1 DEF Call
<1>4. call[c].outcome = "none" /\ AsWritten(c, k - 1)
  BY <1>1 DEF CallInv, InStep
<1>. HIDE DEF k, q
<1>5. /\ q.via = "http" => standing'[c] >= Written(q, k)
      /\ q.via \notin {"session", "http"} => standing'[c] = Written(q, k)
  <2>1. CASE q.via = "http"
    <3>1. standing[c] >= Written(q, k - 1)
      BY <1>4, <2>1 DEF AsWritten, q
    <3>2. /\ q.steps[k] = "write" => standing'[c] = standing[c] + 1
          /\ q.steps[k] # "write" => standing'[c] >= standing[c]
      BY <1>1, <2>1 DEF Step, q, k
    <3>3. standing'[c] \in Nat
      BY DEF TypeOK
    <3>4. standing'[c] >= Written(q, k)
      BY ONLY <1>1, <1>2, <3>1, <3>2, <3>3
    <3>. QED BY <2>1, <3>4
  <2>2. CASE q.via \notin {"session", "http"}
    <3>1. standing[c] = Written(q, k - 1)
      BY <1>4, <2>2 DEF AsWritten, q
    <3>2. /\ q.steps[k] = "write" => standing'[c] = standing[c] + 1
          /\ q.steps[k] # "write" => standing'[c] = standing[c]
      BY <2>2 DEF Step, q, k
    <3>3. standing'[c] = Written(q, k)
      BY <1>2, <3>1, <3>2
    <3>. QED BY <2>2, <3>3
  <2>. QED BY <2>1, <2>2
<1>6. InStep(c)'
  <2>1. call'[c].at - 1 = k /\ call'[c].at \in 1..(Len(call'[c].request.steps) + 1)
    BY <1>2, <1>3
  <2>2. call'[c].outcome = "none" /\ call'[c].pc = "running"
    BY <1>3, <1>4
  <2>3. AsWritten(c, call[c].at - 1)'
    BY <1>3, <1>5, <2>1 DEF AsWritten
  <2>. QED BY <2>1, <2>2, <2>3 DEF InStep
<1>7. Unstarted(c)' /\ Ended(c)'
  BY <1>3, <1>4 DEF Unstarted, Ended
<1>8. Fitting(c)' /\ Trail(c)' /\ Opened(c)'
  BY <1>1, <1>3 DEF CallInv, Fitting, Trail, Opened, Same
<1>9. Linked(c)'
  BY <1>1, <1>3 DEF CallInv, Linked, InFlight, Active, Same
<1>. QED BY <1>6, <1>7, <1>8, <1>9 DEF CallInv

\* The instance is built and the method called, or refused.
LEMMA BindInv ==
    ASSUME IInv, NEW c \in Calls, Bind(c), call[c].pc \in {"accepted", "fallback"},
           call[c].pc = "accepted" => Active,
           UNCHANGED <<provider, store, clients, audit, faults, standing, connected>>
    PROVE  CallInv(c)'
<1>1. CallInv(c) /\ call[c] \in Call /\ standing[c] \in Nat
  BY DEF IInv, TypeOK
<1>2. call[c].at = 1 /\ standing[c] = 0 /\ call[c].outcome = "none"
  BY <1>1 DEF CallInv, Unstarted
<1>3. c \in connected
  BY <1>1 DEF CallInv, Linked, InFlight
<1>4. connection' = connection
  BY DEF store
<1>5. c \notin clients /\ c \notin audit
  BY <1>1 DEF CallInv, Opened, Trail
<1>6. CASE call[c].request = Unbound
  <2>1. /\ call'[c].pc = "closing" /\ call'[c].outcome = "unbound"
        /\ call'[c].request = Unbound /\ call'[c].fits = call[c].fits
    BY <1>1, <1>6, BindType DEF IInv, Call
  <2>2. Unstarted(c)' /\ InStep(c)' /\ Ended(c)'
    BY <2>1 DEF Unstarted, InStep, Ended
  <2>3. Fitting(c)' /\ Trail(c)' /\ Opened(c)'
    BY <1>1, <1>5, <1>6, <2>1 DEF CallInv, Fitting, Trail, Opened
  <2>4. Linked(c)'
    BY <1>3, <2>1 DEF Linked
  <2>. QED BY <2>2, <2>3, <2>4 DEF CallInv
<1>7. CASE call[c].request # Unbound
  <2>1. /\ call'[c].pc = "running" /\ call'[c].outcome = "none" /\ ~ call'[c].fits
        /\ call'[c].at = 1 /\ call'[c].request = call[c].request
    BY <1>1, <1>2, <1>7, BindType DEF IInv, Call
  <2>2. Len(call[c].request.steps) \in Nat /\ Written(call[c].request, 0) = 0
    BY <1>1, CallFields, WrittenNone
  <2>3. AsWritten(c, 0)'
    BY <1>2, <2>1, <2>2 DEF AsWritten
  <2>4. InStep(c)'
    BY <2>1, <2>2, <2>3 DEF InStep
  <2>5. Unstarted(c)' /\ Ended(c)' /\ Fitting(c)' /\ Trail(c)' /\ Opened(c)'
    BY <1>5, <2>1 DEF Unstarted, Ended, Fitting, Trail, Opened
  <2>6. Linked(c)'
    BY <1>3, <2>1 DEF Linked
  <2>. QED BY <2>4, <2>5, <2>6 DEF CallInv
<1>. QED BY <1>6, <1>7

LEMMA OneStep ==
    ASSUME IInv, TypeOK', NEW c \in Calls, Apart(c), CallInv(c)'
    PROVE  IInv'
<1>1. \A d \in Calls : CallInv(d)'
  BY ApartKeep
<1>. QED BY <1>1 DEF IInv

-----------------------------------------------------------------------------
(* A request up to its provider instance.                                  *)

\* The promise of the catalogue, for the provider called.
LEMMA DescribedBound ==
    ASSUME TypeOK, NEW a, NEW fields, Described(a, fields)
    PROVE  Bound(a, fields) # Unbound
<1>1. provider \in Providers
  BY DEF TypeOK
<1>2. /\ a \in DOMAIN Methods[provider] \ {"validate_connection"}
      /\ Methods[provider][a].needs \subseteq Capabilities[provider][a].required
      /\ Methods[provider][a].open
            \/ Capabilities[provider][a].properties \subseteq Methods[provider][a].takes
  BY <1>1, MethodType DEF Described, Listed, Follows
<1>3. a \in Dispatch /\ Takes(a, fields)
  BY <1>2 DEF Described, Missing, Dispatch, Takes
<1>4. Methods[provider][a].via # "unbound"
  BY <1>1, <1>2, MethodType DEF Vias
<1>. QED BY <1>3, <1>4 DEF Bound, Unbound

LEMMA AcceptInv ==
    ASSUME IInv, NEW c \in Calls, call[c].pc = "idle",
           call'[c].pc = "accepted", call'[c].at = 1, call'[c].outcome = "none",
           call'[c].fits => call'[c].request # Unbound,
           standing' = standing, clients' = clients, audit' = audit,
           connection' = connection, Active => c \in connected'
    PROVE  CallInv(c)'
<1>1. CallInv(c)
  BY DEF IInv
<1>2. standing[c] = 0 /\ c \notin clients /\ c \notin audit
  BY <1>1 DEF CallInv, Unstarted, Opened, Trail
<1>3. Unstarted(c)' /\ InStep(c)' /\ Ended(c)'
  BY <1>2 DEF Unstarted, InStep, Ended
<1>4. Fitting(c)' /\ Trail(c)' /\ Opened(c)'
  BY <1>2 DEF Fitting, Trail, Opened
<1>5. Linked(c)'
  BY DEF Linked, Active
<1>. QED BY <1>3, <1>4, <1>5 DEF CallInv

LEMMA ValidatePayload ==
    ASSUME IInv, TypeOK', NEW c \in Calls, validate_payload(c)
    PROVE  IInv'
<1>1. TypeOK /\ call[c].pc = "idle" /\ call[c] \in Call
  BY DEF IInv, TypeOK, validate_payload
<1>2. /\ connected' = IF Active THEN connected \cup {c} ELSE connected
      /\ UNCHANGED <<connection, clients, audit, standing>>
  BY DEF validate_payload, store
<1>3. PICK a, fields :
         IF Missing(a, fields) THEN Answer(c, "invalid")
         ELSE call' = [call EXCEPT ![c] = [Idle EXCEPT
                 !.pc = "accepted", !.op = "execute",
                 !.fits = Described(a, fields), !.request = Bound(a, fields)]]
  BY DEF validate_payload
<1>4. CASE Missing(a, fields)
  <2>1. Others(c) /\ call'[c] = [call[c] EXCEPT !.pc = "answered", !.outcome = "invalid"]
    BY <1>1, <1>3, <1>4, AnswerType DEF Outcomes
  <2>2. Same(c) /\ call'[c].fits = call[c].fits
    BY <1>1, <1>2, <2>1 DEF Same, Call
  <2>3. call'[c].pc = "answered" /\ call'[c].outcome = "invalid"
    BY <1>1, <2>1 DEF Call
  <2>4. CallInv(c)'
    BY <1>1, <1>2, <2>2, <2>3, FailsInv
  <2>5. Apart(c)
    BY <1>2, <2>1 DEF Apart
  <2>. QED BY <2>4, <2>5, OneStep
<1>5. CASE ~ Missing(a, fields)
  <2>. DEFINE r == [Idle EXCEPT !.pc = "accepted", !.op = "execute",
                       !.fits = Described(a, fields), !.request = Bound(a, fields)]
  <2>1. Bound(a, fields) \in Request /\ Described(a, fields) \in BOOLEAN
    BY <1>1, BoundType DEF TypeOK, Described
  <2>2. r \in Call
    BY <2>1, AcceptedType
  <2>3. /\ r.pc = "accepted" /\ r.at = 1 /\ r.outcome = "none"
        /\ r.fits = Described(a, fields) /\ r.request = Bound(a, fields)
    BY DEF Idle
  <2>4. call' = [call EXCEPT ![c] = r]
    BY <1>3, <1>5
  <2>. HIDE DEF r
  <2>5. call'[c] = r /\ Others(c)
    BY <1>1, <2>2, <2>4, OneCall
  <2>6. r.fits => r.request # Unbound
    BY <1>1, <2>3, DescribedBound
  <2>7. CallInv(c)'
    BY <1>1, <1>2, <2>3, <2>5, <2>6, AcceptInv
  <2>8. Apart(c)
    BY <1>2, <2>5 DEF Apart
  <2>. QED BY <2>7, <2>8, OneStep
<1>. QED BY <1>4, <1>5

LEMMA Validate ==
    ASSUME IInv, TypeOK', NEW c \in Calls, validate(c)
    PROVE  IInv'
<1>1. TypeOK /\ call[c].pc = "idle"
  BY DEF IInv, validate
<1>2. /\ connected' = IF Active THEN connected \cup {c} ELSE connected
      /\ UNCHANGED <<connection, clients, audit, standing>>
  BY DEF validate, store
<1>. DEFINE q == [via |-> Methods[provider]["validate_connection"].via,
                  steps |-> Methods[provider]["validate_connection"].steps]
            r == [Idle EXCEPT !.pc = "accepted", !.op = "validate", !.request = q]
<1>3. call' = [call EXCEPT ![c] = r]
  BY DEF validate
<1>4. q \in Request
  BY <1>1, ValidateType DEF TypeOK
<1>. HIDE DEF q
<1>5. r \in Call
  BY <1>4, AcceptedType
<1>6. r.pc = "accepted" /\ r.at = 1 /\ r.outcome = "none" /\ ~ r.fits
  BY DEF Idle
<1>. HIDE DEF r
<1>7. call'[c] = r /\ Others(c)
  BY <1>1, <1>3, <1>5, OneCall
<1>8. CallInv(c)'
  BY <1>1, <1>2, <1>6, <1>7, AcceptInv
<1>9. Apart(c)
  BY <1>2, <1>7 DEF Apart
<1>. QED BY <1>8, <1>9, OneStep

\* A call that is answered before it has an instance.
LEMMA RefusedInv ==
    ASSUME IInv, TypeOK', NEW c \in Calls, Answer(c, "refused"),
           call[c].pc \in {"accepted", "fallback"},
           UNCHANGED <<provider, store, clients, audit, faults, standing, connected>>
    PROVE  IInv'
<1>1. TypeOK /\ call[c] \in Call
  BY DEF IInv, TypeOK
<1>2. Others(c) /\ call'[c] = [call[c] EXCEPT !.pc = "answered", !.outcome = "refused"]
  BY <1>1, AnswerType DEF Outcomes
<1>3. Same(c) /\ call'[c].fits = call[c].fits
  BY <1>1, <1>2 DEF Same, Call, store
<1>4. call'[c].pc = "answered" /\ call'[c].outcome = "refused"
  BY <1>1, <1>2 DEF Call
<1>5. CallInv(c)'
  BY <1>3, <1>4, FailsInv
<1>6. Apart(c)
  BY <1>2 DEF Apart, store
<1>. QED BY <1>5, <1>6, OneStep

\* What comes of a request that looks for its connection.
LEMMA Found ==
    ASSUME TypeOK, NEW c \in Calls, get_connection(c) \/ _build_provider(c)
    PROVE  /\ UNCHANGED <<provider, store, clients, audit, faults, standing, connected>>
           /\ call[c].pc \in {"accepted", "fallback"}
           /\ \/ Answer(c, "refused")
              \/ Bind(c) /\ (call[c].pc = "accepted" => Active)
              \/ To(c, "fallback") /\ call[c].pc = "accepted" /\ Active
<1>1. connection.blob \in Blobs
  BY DEF TypeOK, Connection
<1>. QED BY <1>1 DEF get_connection, _build_provider, Selected, Blobs

LEMMA GetConnection ==
    ASSUME IInv, TypeOK', NEW c \in Calls, get_connection(c) \/ _build_provider(c)
    PROVE  IInv'
<1>1. TypeOK /\ call[c] \in Call /\ CallInv(c)
  BY DEF IInv, TypeOK
<1>2. /\ UNCHANGED <<provider, store, clients, audit, faults, standing, connected>>
      /\ call[c].pc \in {"accepted", "fallback"}
  BY <1>1, Found
<1>3. \/ Answer(c, "refused")
      \/ Bind(c) /\ (call[c].pc = "accepted" => Active)
      \/ To(c, "fallback") /\ call[c].pc = "accepted" /\ Active
  BY <1>1, Found
<1>4. CASE Answer(c, "refused")
  BY <1>2, <1>4, RefusedInv
<1>5. CASE Bind(c) /\ (call[c].pc = "accepted" => Active)
  <2>1. CallInv(c)'
    BY <1>2, <1>5, BindInv
  <2>2. Apart(c)
    BY <1>1, <1>2, <1>5, BindType DEF Apart, store
  <2>. QED BY <2>1, <2>2, OneStep
<1>6. CASE To(c, "fallback") /\ call[c].pc = "accepted" /\ Active
  <2>1. Others(c) /\ call'[c] = [call[c] EXCEPT !.pc = "fallback"]
    BY <1>1, <1>6, ToType DEF Points
  <2>2. /\ call'[c].pc = "fallback" /\ call'[c].at = call[c].at
        /\ call'[c].outcome = call[c].outcome /\ call'[c].fits = call[c].fits
        /\ call'[c].request = call[c].request
    BY <1>1, <2>1 DEF Call
  <2>3. c \in connected /\ c \notin clients /\ c \notin audit
    BY <1>1, <1>6 DEF CallInv, Linked, InFlight, Opened, Trail
  <2>4. Unstarted(c)' /\ InStep(c)' /\ Ended(c)'
    BY <1>1, <1>2, <1>6, <2>2 DEF CallInv, Unstarted, InStep, Ended
  <2>5. Fitting(c)' /\ Trail(c)' /\ Opened(c)' /\ Linked(c)'
    BY <1>1, <1>2, <2>2, <2>3 DEF CallInv, Fitting, Trail, Opened, Linked
  <2>6. CallInv(c)'
    BY <2>4, <2>5 DEF CallInv
  <2>7. Apart(c)
    BY <1>2, <2>1 DEF Apart, store
  <2>. QED BY <2>6, <2>7, OneStep
<1>. QED BY <1>3, <1>4, <1>5, <1>6

-----------------------------------------------------------------------------
(* The action.                                                             *)

\* A step of the request is over.
LEMMA AdvanceStep ==
    ASSUME IInv, TypeOK', NEW c \in Calls, Advance(c),
           call[c].pc \in {"running", "sent", "executed"}, ~ AtEnd(c),
           UNCHANGED <<provider, store, clients, audit, faults, connected>>,
           \A d \in Calls \ {c} : standing'[d] = standing[d],
           \/ call[c].request.via = "session"
           \/ standing'[c] = IF Step(c) = "write" THEN standing[c] + 1 ELSE standing[c]
           \/ /\ call[c].request.via = "http" /\ Step(c) # "write"
              /\ standing'[c] >= standing[c]
    PROVE  IInv'
<1>1. TypeOK /\ call[c] \in Call
  BY DEF IInv, TypeOK
<1>2. /\ Others(c)
      /\ call'[c] = [call[c] EXCEPT !.pc = "running", !.at = @ + 1, !.attempts = 0]
  BY <1>1, AdvanceType
<1>3. Same(c)
  BY <1>1, <1>2 DEF Same, Call, store
<1>4. CallInv(c)'
  BY <1>2, <1>3, AdvanceInv
<1>5. Apart(c)
  BY <1>2 DEF Apart, store
<1>. QED BY <1>4, <1>5, OneStep

\* A step of the request failed.
LEMMA FailedStep ==
    ASSUME IInv, TypeOK', NEW c \in Calls, Closing(c, "failed"),
           call[c].pc \in {"running", "sent", "executed"},
           UNCHANGED <<provider, store, clients, audit, faults, connected>>,
           \A d \in Calls \ {c} : standing'[d] = standing[d]
    PROVE  IInv'
<1>1. TypeOK /\ call[c] \in Call
  BY DEF IInv, TypeOK
<1>2. Others(c) /\ call'[c] = [call[c] EXCEPT !.pc = "closing", !.outcome = "failed"]
  BY <1>1, ClosingType DEF Outcomes
<1>3. Same(c) /\ call'[c].fits = call[c].fits
  BY <1>1, <1>2 DEF Same, Call, store
<1>4. call'[c].pc = "closing" /\ call'[c].outcome = "failed"
  BY <1>1, <1>2 DEF Call
<1>5. CallInv(c)'
  BY <1>3, <1>4, FailsInv
<1>6. Apart(c)
  BY <1>2 DEF Apart, store
<1>. QED BY <1>5, <1>6, OneStep

\* What may have landed concerns the call alone, and adds one write at most.
LEMMA LandsFact ==
    ASSUME TypeOK, NEW c \in Calls, Lands(c) \/ UNCHANGED standing
    PROVE  /\ \A d \in Calls \ {c} : standing'[d] = standing[d]
           /\ standing[c] \in Nat /\ standing'[c] \in Nat
           /\ standing'[c] >= standing[c]
           /\ Lands(c) => standing'[c] = standing[c] + 1
  BY DEF Lands, TypeOK

LEMMA BeforeStep ==
    ASSUME IInv, TypeOK', NEW c \in Calls, RaisesBefore(c)
    PROVE  IInv'
<1>1. /\ call[c].pc = "running" /\ ~ AtEnd(c)
      /\ UNCHANGED <<provider, store, clients, audit, faults, standing, connected>>
  BY DEF RaisesBefore
<1>2. CASE Step(c) \in {"probe", "attempt"} /\ Advance(c)
  <2>1. Advance(c) /\ Step(c) # "write"
    BY <1>2
  <2>2. standing'[c] = IF Step(c) = "write" THEN standing[c] + 1 ELSE standing[c]
    BY <1>1, <2>1
  <2>. QED BY <1>1, <2>1, <2>2, AdvanceStep
<1>3. CASE Closing(c, "failed")
  BY <1>1, <1>3, FailedStep
<1>. QED BY <1>2, <1>3 DEF RaisesBefore, Raises

\* A request goes out, the first time or again.
LEMMA SendStep ==
    ASSUME IInv, TypeOK', NEW c \in Calls, Sends(c) \/ Retries(c)
    PROVE  IInv'
<1>1. TypeOK /\ call[c] \in Call /\ CallInv(c)
  BY DEF IInv, TypeOK
<1>2. PICK n \in Nat : call' = [call EXCEPT ![c] = [[call[c] EXCEPT !.pc = "sent"]
                                                    EXCEPT !.attempts = n]]
  <2>1. CASE Sends(c)
    BY <2>1 DEF Sends
  <2>2. CASE Retries(c)
    <3>1. call[c].attempts + 1 \in Nat /\ call[c].pc = "sent"
      BY <1>1, <2>2 DEF Retries, Resends, Call
    <3>2. [call[c] EXCEPT !.attempts = @ + 1] =
             [[call[c] EXCEPT !.pc = "sent"] EXCEPT !.attempts = call[c].attempts + 1]
      BY <1>1, <3>1 DEF Call
    <3>. QED BY <2>2, <3>1, <3>2 DEF Retries, Resends
  <2>. QED BY <2>1, <2>2
<1>. DEFINE r == [[call[c] EXCEPT !.pc = "sent"] EXCEPT !.attempts = n]
<1>3. r \in Call
  BY <1>1, FieldType DEF Points
<1>4. /\ r.pc = "sent" /\ r.at = call[c].at /\ r.request = call[c].request
      /\ r.op = call[c].op /\ r.fits = call[c].fits /\ r.outcome = call[c].outcome
  BY <1>1 DEF Call
<1>5. call' = [call EXCEPT ![c] = r]
  BY <1>2
<1>. HIDE DEF r
<1>6. call'[c] = r /\ Others(c)
  BY <1>1, <1>3, <1>5, OneCall
<1>7. /\ call[c].pc \in {"running", "sent"} /\ ~ AtEnd(c)
      /\ clients' = clients \cup {c} \/ clients' = clients
      /\ UNCHANGED <<connection, audit, connected>>
      /\ call[c].request.via = "http" \/ standing' = standing
      /\ Lands(c) \/ UNCHANGED standing
  BY <1>1 DEF Sends, Retries, Resends, CallInv, InStep, store, MayHaveLanded
<1>8. /\ \A d \in Calls \ {c} : standing'[d] = standing[d]
      /\ standing[c] \in Nat /\ standing'[c] \in Nat /\ standing'[c] >= standing[c]
  BY <1>1, <1>7, LandsFact
<1>9. AsWritten(c, call[c].at - 1)'
  <2>1. call[c].request.via = "http" \/ standing'[c] = standing[c]
    BY <1>7
  <2>2. AsWritten(c, call[c].at - 1) /\ call[c].at - 1 \in Nat
    BY <1>1, <1>7 DEF CallInv, InStep
  <2>3. Written(call[c].request, call[c].at - 1) \in Nat
    BY <2>2, WrittenType
  <2>. QED BY <1>4, <1>6, <1>8, <2>1, <2>2, <2>3 DEF AsWritten
<1>10. InStep(c)'
  <2>1. /\ call[c].outcome = "none"
        /\ call[c].at \in 1..(Len(call[c].request.steps) + 1)
    BY <1>1, <1>7 DEF CallInv, InStep
  <2>2. ~ AtEnd(c)'
    BY <1>4, <1>6, <1>7 DEF AtEnd
  <2>. QED BY <1>4, <1>6, <1>9, <2>1, <2>2 DEF InStep
<1>11. Unstarted(c)' /\ Ended(c)'
  BY <1>1, <1>4, <1>6, <1>7 DEF CallInv, InStep, Unstarted, Ended
<1>12. Fitting(c)' /\ Trail(c)' /\ Opened(c)'
  BY <1>1, <1>4, <1>6, <1>7 DEF CallInv, Fitting, Trail, Opened
<1>13. Linked(c)'
  BY <1>1, <1>4, <1>6, <1>7 DEF CallInv, Linked
<1>14. Apart(c)
  BY <1>6, <1>7, <1>8 DEF Apart
<1>. QED BY <1>10, <1>11, <1>12, <1>13, <1>14, OneStep DEF CallInv

LEMMA SucceedStep ==
    ASSUME IInv, TypeOK', NEW c \in Calls, Succeeds(c)
    PROVE  IInv'
<1>1. TypeOK /\ call[c] \in Call /\ CallInv(c)
  BY DEF IInv, TypeOK
<1>2. /\ call[c].pc = "sent" /\ ~ AtEnd(c)
      /\ UNCHANGED <<provider, store, clients, audit, faults, connected>>
  BY <1>1 DEF Succeeds, CallInv, InStep
<1>3. CASE Step(c) = "write" /\ InTransaction(c)
  <2>1. To(c, "executed") /\ standing' = standing
    BY <1>3 DEF Succeeds
  <2>2. Others(c) /\ call'[c] = [call[c] EXCEPT !.pc = "executed"]
    BY <1>1, <2>1, ToType DEF Points
  <2>3. /\ call'[c].pc = "executed" /\ call'[c].at = call[c].at
        /\ call'[c].request = call[c].request /\ call'[c].op = call[c].op
        /\ call'[c].fits = call[c].fits /\ call'[c].outcome = call[c].outcome
    BY <1>1, <2>2 DEF Call
  <2>4. InStep(c)'
    BY <1>1, <1>2, <1>3, <2>1, <2>3
       DEF CallInv, InStep, AtEnd, Step, InTransaction, AsWritten
  <2>5. Unstarted(c)' /\ Ended(c)' /\ Fitting(c)' /\ Trail(c)' /\ Opened(c)'
    BY <1>1, <1>2, <2>3 DEF CallInv, InStep, Unstarted, Ended, Fitting, Trail, Opened
  <2>6. Linked(c)'
    BY <1>1, <1>2, <2>3 DEF CallInv, Linked
  <2>7. Apart(c)
    BY <1>2, <2>1, <2>2 DEF Apart, store
  <2>. QED BY <2>4, <2>5, <2>6, <2>7, OneStep DEF CallInv
<1>4. CASE ~ (Step(c) = "write" /\ InTransaction(c))
  <2>1. Advance(c) /\ IF Step(c) = "write" THEN Lands(c) ELSE UNCHANGED standing
    BY <1>4 DEF Succeeds
  <2>2. /\ \A d \in Calls \ {c} : standing'[d] = standing[d]
        /\ standing'[c] = IF Step(c) = "write" THEN standing[c] + 1 ELSE standing[c]
    BY <1>1, <2>1, LandsFact
  <2>. QED BY <1>2, <2>1, <2>2, AdvanceStep
<1>. QED BY <1>3, <1>4

LEMMA SessionStep ==
    ASSUME IInv, TypeOK', NEW c \in Calls, ClosesSession(c) \/ commit(c)
    PROVE  IInv'
<1>1. TypeOK /\ CallInv(c)
  BY DEF IInv
<1>2. /\ call[c].pc = "executed" /\ Advance(c)
      /\ UNCHANGED <<provider, store, clients, audit, faults, connected>>
      /\ \/ call[c].request.via = "session" /\ UNCHANGED standing
         \/ Lands(c)
  BY DEF ClosesSession, commit
<1>3. ~ AtEnd(c) /\ Step(c) = "write"
  BY <1>1, <1>2 DEF CallInv, InStep
<1>4. /\ \A d \in Calls \ {c} : standing'[d] = standing[d]
      /\ \/ call[c].request.via = "session"
         \/ standing'[c] = IF Step(c) = "write" THEN standing[c] + 1 ELSE standing[c]
  BY <1>1, <1>2, <1>3, LandsFact
<1>. QED BY <1>2, <1>3, <1>4, AdvanceStep

LEMMA FailStep ==
    ASSUME IInv, TypeOK', NEW c \in Calls, Fails(c)
    PROVE  IInv'
<1>1. TypeOK /\ CallInv(c)
  BY DEF IInv
<1>2. /\ call[c].pc \in {"sent", "executed"} /\ ~ AtEnd(c)
      /\ UNCHANGED <<provider, store, clients, audit, faults, connected>>
      /\ UNCHANGED standing \/ (Step(c) = "write" /\ Lands(c))
  BY <1>1 DEF Fails, MayHaveLanded, CallInv, InStep
<1>3. \A d \in Calls \ {c} : standing'[d] = standing[d]
  BY <1>1, <1>2, LandsFact
<1>4. CASE Step(c) \in {"probe", "attempt"} /\ Advance(c)
  <2>1. Advance(c) /\ Step(c) # "write"
    BY <1>4
  <2>2. standing'[c] = IF Step(c) = "write" THEN standing[c] + 1 ELSE standing[c]
    BY <1>2, <2>1
  <2>. QED BY <1>2, <1>3, <2>1, <2>2, AdvanceStep
<1>5. CASE Closing(c, "failed")
  BY <1>2, <1>3, <1>5, FailedStep
<1>. QED BY <1>4, <1>5 DEF Fails, Raises

-----------------------------------------------------------------------------
(* The end of a request.                                                   *)

LEMMA ReturnStep ==
    ASSUME IInv, TypeOK', NEW c \in Calls, Returns(c)
    PROVE  IInv'
<1>1. TypeOK /\ call[c] \in Call /\ CallInv(c)
  BY DEF IInv, TypeOK
<1>2. /\ call[c].pc = "running" /\ AtEnd(c) /\ Closing(c, "ok")
      /\ UNCHANGED <<connection, clients, audit, standing, connected>>
  BY DEF Returns, store
<1>3. Others(c) /\ call'[c] = [call[c] EXCEPT !.pc = "closing", !.outcome = "ok"]
  BY <1>1, <1>2, ClosingType DEF Outcomes
<1>4. /\ call'[c].pc = "closing" /\ call'[c].outcome = "ok"
      /\ call'[c].request = call[c].request /\ call'[c].fits = call[c].fits
  BY <1>1, <1>3 DEF Call
<1>5. AsWritten(c, Len(call[c].request.steps))
  <2>1. /\ call[c].at \in 1..(Len(call[c].request.steps) + 1)
        /\ AsWritten(c, call[c].at - 1)
    BY <1>1, <1>2 DEF CallInv, InStep
  <2>2. call[c].at - 1 = Len(call[c].request.steps)
    BY <1>1, <1>2, <2>1, CallFields DEF AtEnd
  <2>. QED BY <2>1, <2>2
<1>6. Ended(c)'
  BY <1>2, <1>4, <1>5 DEF Ended, AsWritten
<1>7. c \in connected /\ c \notin audit
  BY <1>1, <1>2 DEF CallInv, Linked, Trail
<1>8. Unstarted(c)' /\ InStep(c)' /\ Fitting(c)' /\ Trail(c)' /\ Opened(c)'
  BY <1>1, <1>2, <1>4, <1>7 DEF CallInv, Unstarted, InStep, Fitting, Trail, Opened
<1>9. Linked(c)'
  BY <1>2, <1>4, <1>7 DEF Linked
<1>10. Apart(c)
  BY <1>2, <1>3 DEF Apart
<1>. QED BY <1>6, <1>8, <1>9, <1>10, OneStep DEF CallInv

LEMMA DisconnectStep ==
    ASSUME IInv, TypeOK', NEW c \in Calls, disconnect(c)
    PROVE  IInv'
<1>1. TypeOK /\ call[c] \in Call /\ CallInv(c)
  BY DEF IInv, TypeOK
<1>. DEFINE next == IF call[c].outcome = "ok" /\ call[c].op = "execute"
                    THEN "auditing" ELSE "answered"
<1>2. /\ call[c].pc = "closing" /\ To(c, next) /\ clients' = clients \ {c}
      /\ UNCHANGED <<connection, audit, standing, connected>>
  BY DEF disconnect, Released, store
<1>3. Others(c) /\ call'[c] = [call[c] EXCEPT !.pc = next]
  BY <1>1, <1>2, ToType DEF Points
<1>4. /\ call'[c].pc = next /\ call'[c].outcome = call[c].outcome
      /\ call'[c].request = call[c].request /\ call'[c].fits = call[c].fits
      /\ call'[c].op = call[c].op
  BY <1>1, <1>3 DEF Call
<1>5. Ended(c)'
  BY <1>1, <1>2, <1>4 DEF CallInv, Ended, AsWritten
<1>6. c \in connected /\ c \notin audit
  BY <1>1, <1>2 DEF CallInv, Linked, Trail
<1>7. Unstarted(c)' /\ InStep(c)' /\ Fitting(c)'
  BY <1>1, <1>4 DEF CallInv, Unstarted, InStep, Fitting
<1>8. Trail(c)' /\ Opened(c)' /\ Linked(c)'
  BY <1>2, <1>4, <1>6 DEF Trail, Opened, Linked
<1>9. Apart(c)
  BY <1>2, <1>3 DEF Apart
<1>. QED BY <1>5, <1>7, <1>8, <1>9, OneStep DEF CallInv

LEMMA RecordStep ==
    ASSUME IInv, TypeOK', NEW c \in Calls, record(c)
    PROVE  IInv'
<1>1. TypeOK /\ call[c] \in Call /\ CallInv(c)
  BY DEF IInv, TypeOK
<1>2. /\ call[c].pc = "auditing" /\ To(c, "answered") /\ audit' = audit \cup {c}
      /\ UNCHANGED <<connection, clients, standing, connected>>
  BY DEF record, Recorded, store
<1>3. Others(c) /\ call'[c] = [call[c] EXCEPT !.pc = "answered"]
  BY <1>1, <1>2, ToType DEF Points
<1>4. /\ call'[c].pc = "answered" /\ call'[c].outcome = "ok"
      /\ call'[c].request = call[c].request /\ call'[c].fits = call[c].fits
  BY <1>1, <1>2, <1>3 DEF Call, CallInv, Trail
<1>5. Ended(c)'
  BY <1>1, <1>2, <1>4 DEF CallInv, Trail, Ended, AsWritten
<1>6. c \in connected /\ c \notin clients
  BY <1>1, <1>2 DEF CallInv, Linked, Opened
<1>7. Unstarted(c)' /\ InStep(c)' /\ Fitting(c)'
  BY <1>1, <1>4 DEF CallInv, Unstarted, InStep, Fitting
<1>8. Trail(c)' /\ Opened(c)' /\ Linked(c)'
  BY <1>2, <1>4, <1>6 DEF Trail, Opened, Linked
<1>9. Apart(c)
  BY <1>2, <1>3 DEF Apart
<1>. QED BY <1>5, <1>7, <1>8, <1>9, OneStep DEF CallInv

LEMMA RecordFailsStep ==
    ASSUME IInv, TypeOK', NEW c \in Calls, RecordFails(c)
    PROVE  IInv'
<1>1. TypeOK /\ call[c] \in Call
  BY DEF IInv, TypeOK
<1>2. /\ call[c].pc = "auditing" /\ Answer(c, "failed")
      /\ UNCHANGED <<connection, clients, audit, standing, connected>>
  BY DEF RecordFails, store
<1>3. Others(c) /\ call'[c] = [call[c] EXCEPT !.pc = "answered", !.outcome = "failed"]
  BY <1>1, <1>2, AnswerType DEF Outcomes
<1>4. Same(c) /\ call'[c].fits = call[c].fits
  BY <1>1, <1>2, <1>3 DEF Same, Call
<1>5. call'[c].pc = "answered" /\ call'[c].outcome = "failed"
  BY <1>1, <1>3 DEF Call
<1>6. CallInv(c)'
  BY <1>2, <1>4, <1>5, FailsInv
<1>7. Apart(c)
  BY <1>2, <1>3 DEF Apart
<1>. QED BY <1>6, <1>7, OneStep

-----------------------------------------------------------------------------
(* Other requests, and the process.                                        *)

\* What leaves the calls and what they did alone keeps the invariant, if
\* whoever is in flight under an active connection is on record for it.
LEMMA StoreStep ==
    ASSUME IInv, TypeOK',
           UNCHANGED <<call, clients, audit, standing>>,
           connected \subseteq connected',
           \A c \in InFlight : Active' => Active \/ c \in connected'
    PROVE  IInv'
<1>1. ASSUME NEW c \in Calls PROVE CallInv(c)'
  <2>1. CallInv(c)
    BY DEF IInv
  <2>2. Unstarted(c)' /\ Ended(c)' /\ Fitting(c)' /\ Trail(c)' /\ Opened(c)'
    BY <2>1 DEF CallInv, Unstarted, Ended, Fitting, Trail, Opened, AsWritten
  <2>3. InStep(c)'
    BY <2>1 DEF CallInv, InStep, AsWritten, AtEnd, Step, InTransaction
  <2>4. InFlight' = InFlight
    BY DEF InFlight
  <2>5. Linked(c)'
    BY <2>1, <2>4 DEF CallInv, Linked
  <2>. QED BY <2>2, <2>3, <2>5 DEF CallInv
<1>. QED BY <1>1 DEF IInv

LEMMA CrashStep ==
    ASSUME IInv, TypeOK', Crash
    PROVE  IInv'
<1>1. ASSUME NEW c \in Calls PROVE CallInv(c)'
  <2>1. CallInv(c) /\ call[c] \in Call
    BY <1>1 DEF IInv, TypeOK
  <2>2. UNCHANGED <<connection, audit, connected>> /\ c \notin clients'
    BY DEF Crash, store
  <2>3. CASE c \in InFlight
    <3>1. call'[c] = [call[c] EXCEPT !.pc = "dead"]
      BY <2>3 DEF Crash
    <3>2. /\ call'[c].pc = "dead" /\ call'[c].outcome = call[c].outcome
          /\ call'[c].request = call[c].request /\ call'[c].fits = call[c].fits
      BY <2>1, <3>1 DEF Call
    <3>3. call[c].outcome = "ok" => standing'[c] = standing[c]
      <4>1. call[c].outcome = "ok" => c \notin Unanswered
        BY <2>1 DEF CallInv, InStep, Unanswered
      <4>. QED BY <1>1, <4>1 DEF Crash
    <3>4. Ended(c)'
      BY <2>1, <3>2, <3>3 DEF CallInv, Ended, AsWritten
    <3>5. c \notin audit
      BY <2>1, <2>3 DEF CallInv, Trail, InFlight
    <3>6. Unstarted(c)' /\ InStep(c)' /\ Fitting(c)' /\ Trail(c)' /\ Opened(c)'
      BY <2>1, <2>2, <3>2, <3>5 DEF CallInv, Unstarted, InStep, Fitting, Trail, Opened
    <3>7. Linked(c)'
      BY <2>1, <2>2, <3>2 DEF CallInv, Linked, InFlight
    <3>. QED BY <3>4, <3>6, <3>7 DEF CallInv
  <2>4. CASE c \notin InFlight
    <3>1. call'[c] = call[c] /\ call[c].pc \in {"idle", "answered", "dead"}
      BY <1>1, <2>4 DEF Crash, InFlight
    <3>2. standing'[c] = standing[c]
      <4>1. c \notin Unanswered
        BY <3>1 DEF Unanswered
      <4>. QED BY <1>1, <4>1 DEF Crash
    <3>3. Unstarted(c)' /\ InStep(c)' /\ Ended(c)' /\ Fitting(c)'
      BY <2>1, <3>1, <3>2 DEF CallInv, Unstarted, InStep, Ended, Fitting, AsWritten
    <3>4. Trail(c)' /\ Opened(c)' /\ Linked(c)'
      BY <2>1, <2>2, <3>1 DEF CallInv, Trail, Opened, Linked, InFlight
    <3>. QED BY <3>3, <3>4 DEF CallInv
  <2>. QED BY <2>3, <2>4
<1>. QED BY <1>1 DEF IInv

LEMMA Inductive == IInv /\ [Next]_vars => IInv'
<1>. SUFFICES ASSUME IInv, [Next]_vars PROVE IInv'
  OBVIOUS
<1>1. TypeOK'
  BY TypeStep DEF IInv
<1>2. ASSUME NEW c \in Calls, validate_payload(c) \/ validate(c) PROVE IInv'
  BY <1>1, <1>2, ValidatePayload, Validate
<1>3. ASSUME NEW c \in Calls, Proceed(c) PROVE IInv'
  BY <1>1, <1>3, GetConnection, BeforeStep, SendStep, SucceedStep, FailStep, SessionStep,
     ReturnStep, DisconnectStep, RecordStep, RecordFailsStep
     DEF Proceed
<1>4. CASE Connect
  <2>1. UNCHANGED <<call, clients, audit, standing>> /\ connected' = connected \cup InFlight
    BY <1>4 DEF Connect
  <2>. QED BY <1>1, <2>1, StoreStep
<1>5. CASE Disconnect \/ StoreCredential \/ DeleteCredential
  <2>1. UNCHANGED <<call, clients, audit, standing, connected>> /\ (Active' => Active)
    BY <1>5 DEF Disconnect, StoreCredential, DeleteCredential, Active
  <2>. QED BY <1>1, <2>1, StoreStep
<1>6. CASE Crash
  BY <1>1, <1>6, CrashStep
<1>7. CASE UNCHANGED vars
  <2>1. UNCHANGED <<call, clients, audit, standing, connected, connection>>
    BY <1>7 DEF vars, store
  <2>. QED BY <1>1, <2>1, StoreStep DEF Active
<1>. QED BY <1>2, <1>3, <1>4, <1>5, <1>6, <1>7 DEF Next

\* The invariant holds throughout.
LEMMA Invariance == Spec => []IInv
<1>. QED BY InitInv, Inductive, PTL DEF Spec

-----------------------------------------------------------------------------
\* Every variable keeps its type: a request is one of the catalogue's, the
\* step it is at one of its steps, and what is recorded are requests.
THEOREM TypeCorrect == Spec => []TypeOK
<1>1. IInv => TypeOK
  BY DEF IInv
<1>. QED BY <1>1, Invariance, PTL

\* A payload that follows the capability's schema is never refused by the
\* method's signature (execute_action's handler(**payload)), whichever provider
\* of the catalogue is called.
THEOREM DescribedTheorem == Spec => []DescribedIsBound
<1>1. IInv => DescribedIsBound
  <2>. SUFFICES ASSUME IInv, NEW c \in Calls, call[c].fits PROVE call[c].outcome # "unbound"
    BY DEF DescribedIsBound
  <2>1. Fitting(c)
    BY DEF IInv, CallInv
  <2>. QED BY <2>1 DEF Fitting
<1>. QED BY <1>1, Invariance, PTL

\* Over any number of steps, requests, attempts and deaths of the process, a
\* call that ended well did each of its writes, and outside with_retry's
\* resending exactly once.
THEOREM DoneTheorem == Spec => []OkIsDone
<1>1. IInv => OkIsDone
  <2>. SUFFICES ASSUME IInv, NEW c \in Calls, call[c].outcome = "ok",
                       call[c].request.via # "session"
                PROVE  IF call[c].request.via = "http"
                       THEN standing[c] >= Writes(call[c].request)
                       ELSE standing[c] = Writes(call[c].request)
    BY DEF OkIsDone
  <2>1. AsWritten(c, Len(call[c].request.steps))
    BY DEF IInv, CallInv, Ended
  <2>. QED BY <2>1 DEF AsWritten, Writes
<1>. QED BY <1>1, Invariance, PTL

\* An execution is answered as successful only after its record is committed
\* (AuditService.record), and what is recorded succeeded under a connection
\* that was active while the request ran.
THEOREM AuditTheorem == Spec => []AuditIsTrue
<1>1. IInv => AuditIsTrue
  BY DEF IInv, CallInv, Trail, Linked, AuditIsTrue
<1>. QED BY <1>1, Invariance, PTL

\* No client or engine of a provider instance outlives its request.
THEOREM ReleasedTheorem == Spec => []ReleasedAtEnd
<1>1. IInv => ReleasedAtEnd
  <2>. SUFFICES ASSUME IInv, NEW c \in clients PROVE c \in InFlight
    BY DEF ReleasedAtEnd
  <2>1. c \in Calls /\ Opened(c)
    BY DEF IInv, TypeOK, CallInv
  <2>. QED BY <2>1 DEF Opened, InFlight
<1>. QED BY <1>1, Invariance, PTL

-----------------------------------------------------------------------------
(* How often a write is sent.                                              *)

Base(c, k) == Sendings(call[c].request) * Written(call[c].request, k)

\* Those of the attempts before the one that is out that may have been done.
Earlier(c) == IF Step(c) = "write" THEN call[c].attempts - 1 ELSE 0

Total(c) == Sendings(call[c].request) * Writes(call[c].request)

Frugal(c) ==
    /\ call[c].pc = "running" => standing[c] <= Base(c, call[c].at - 1)
    /\ call[c].pc \in {"sent", "executed"} =>
          /\ call[c].attempts \in 1..Sendings(call[c].request)
          /\ standing[c] <= Base(c, call[c].at - 1) + Earlier(c)
    /\ call[c].pc \in {"closing", "auditing", "answered", "dead"} => standing[c] <= Total(c)

FrugalInv == \A c \in Calls : Frugal(c)

LEMMA SendingsType == \A r : Sendings(r) \in Nat /\ Sendings(r) >= 1
  BY AttemptAssumption DEF Sendings

LEMMA Times ==
    ASSUME NEW m \in Nat, NEW a \in Nat
    PROVE  m * a \in Nat /\ m * (a + 1) = m * a + m
  OBVIOUS

LEMMA TimesMonotone ==
    ASSUME NEW m \in Nat, NEW a \in Nat, NEW b \in Nat, a <= b
    PROVE  m * a <= m * b
<1>1. PICK d \in Nat : b = a + d
  <2>. WITNESS b - a \in Nat
  <2>. QED OBVIOUS
<1>2. m * (a + d) = m * a + m * d /\ m * d \in Nat /\ m * a \in Nat
  OBVIOUS
<1>. QED BY <1>1, <1>2

LEMMA WrittenMonotone ==
    ASSUME NEW r, NEW k \in Nat, NEW n \in Nat, k <= n
    PROVE  Written(r, k) <= Written(r, n)
<1>1. {i \in 1..k : r.steps[i] = "write"} \subseteq {i \in 1..n : r.steps[i] = "write"}
  OBVIOUS
<1>. QED BY <1>1, WrittenFinite, FS_Subset DEF Written

LEMMA BaseFacts ==
    ASSUME TypeOK, NEW c \in Calls
    PROVE  /\ \A k \in Nat : Base(c, k) \in Nat /\ Base(c, k) >= 0
           /\ \A k, n \in Nat : k <= n => Base(c, k) <= Base(c, n)
           /\ Total(c) = Base(c, Len(call[c].request.steps))
           /\ Total(c) \in Nat /\ standing[c] \in Nat
           /\ call[c] \in Call /\ Len(call[c].request.steps) \in Nat /\ call[c].at \in Nat
<1>. DEFINE r == call[c].request
            m == Sendings(r)
<1>1. m \in Nat
  BY SendingsType
<1>2. call[c] \in Call /\ standing[c] \in Nat
  BY DEF TypeOK
<1>3. Len(r.steps) \in Nat /\ call[c].at \in Nat
  BY <1>2, CallFields
<1>4. ASSUME NEW k \in Nat PROVE Base(c, k) \in Nat /\ Base(c, k) >= 0
  <2>1. m * Written(r, k) \in Nat
    BY <1>1, WrittenType, Times
  <2>. QED BY <2>1 DEF Base
<1>5. ASSUME NEW k \in Nat, NEW n \in Nat, k <= n PROVE Base(c, k) <= Base(c, n)
  <2>1. Written(r, k) <= Written(r, n) /\ Written(r, k) \in Nat /\ Written(r, n) \in Nat
    BY <1>5, WrittenMonotone, WrittenType
  <2>2. m * Written(r, k) <= m * Written(r, n)
    BY <1>1, <2>1, TimesMonotone
  <2>. QED BY <2>2 DEF Base
<1>6. Total(c) = Base(c, Len(r.steps))
  BY DEF Total, Base, Writes
<1>. QED BY <1>2, <1>3, <1>4, <1>5, <1>6

LEMMA Place ==
    ASSUME IInv, NEW c \in Calls, call[c].pc \in {"running", "sent", "executed"}
    PROVE  /\ call[c].at \in Nat \ {0} /\ call[c].at - 1 \in Nat
           /\ call[c].at - 1 <= Len(call[c].request.steps)
           /\ call[c].at - 1 <= call[c].at
           /\ ~ AtEnd(c) => call[c].at <= Len(call[c].request.steps)
           /\ call[c].pc # "running" => ~ AtEnd(c)
           /\ AtEnd(c) => call[c].at - 1 = Len(call[c].request.steps)
<1>. DEFINE k == call[c].at
            n == Len(call[c].request.steps)
<1>1. TypeOK
  BY DEF IInv
<1>2. k \in Nat /\ n \in Nat
  BY <1>1, BaseFacts
<1>3. InStep(c)
  BY DEF IInv, CallInv
<1>4. k \in 1..(n + 1) /\ (call[c].pc # "running" => ~ AtEnd(c)) /\ (AtEnd(c) <=> k > n)
  BY <1>3 DEF InStep, AtEnd
<1>. HIDE DEF k, n
<1>5. /\ k \in Nat \ {0} /\ k - 1 \in Nat /\ k - 1 <= n /\ k - 1 <= k
      /\ ~ AtEnd(c) => k <= n
      /\ AtEnd(c) => k - 1 = n
  BY <1>2, <1>4
<1>. QED BY <1>4, <1>5 DEF k, n

\* What is out can add one write at most, and then stays within the step's share.
LEMMA Share ==
    ASSUME IInv, NEW c \in Calls, Frugal(c), call[c].pc \in {"sent", "executed"}
    PROVE  /\ standing[c] <= Base(c, call[c].at)
           /\ Step(c) = "write" => standing[c] + 1 <= Base(c, call[c].at)
           /\ Base(c, call[c].at) <= Total(c)
<1>. DEFINE r == call[c].request
            m == Sendings(r)
            k == call[c].at
<1>1. TypeOK
  BY DEF IInv
<1>2. k \in Nat \ {0} /\ k <= Len(r.steps) /\ k - 1 \in Nat /\ Len(r.steps) \in Nat
  BY <1>1, Place, BaseFacts
<1>3. Base(c, k) <= Total(c)
  BY <1>1, <1>2, BaseFacts
<1>4. /\ call[c].attempts \in 1..m /\ standing[c] <= Base(c, k - 1) + Earlier(c)
  BY DEF Frugal
<1>5. Base(c, k) = IF Step(c) = "write" THEN Base(c, k - 1) + m ELSE Base(c, k - 1)
  <2>1. Written(r, k) = IF r.steps[k] = "write" THEN Written(r, k - 1) + 1
                        ELSE Written(r, k - 1)
    BY <1>2, WrittenNext
  <2>2. m * (Written(r, k - 1) + 1) = m * Written(r, k - 1) + m
    BY <1>2, SendingsType, WrittenType, Times
  <2>. QED BY <2>1, <2>2 DEF Base, Step
<1>6. /\ Base(c, k - 1) \in Nat /\ m \in Nat /\ standing[c] \in Nat
  BY <1>1, <1>2, BaseFacts, SendingsType
<1>. HIDE DEF m
<1>7. CASE Step(c) = "write"
  BY <1>3, <1>4, <1>5, <1>6, <1>7 DEF Earlier
<1>8. CASE Step(c) # "write"
  BY <1>3, <1>4, <1>5, <1>6, <1>8 DEF Earlier
<1>. QED BY <1>7, <1>8

\* Between two steps, and before the first one.
LEMMA Between ==
    ASSUME IInv, NEW c \in Calls, Frugal(c)
    PROVE  /\ call[c].pc = "running" => standing[c] <= Total(c)
           /\ call[c].pc = "running" /\ ~ AtEnd(c) => standing[c] <= Base(c, call[c].at)
           /\ call[c].pc \in {"idle", "accepted", "fallback"} => standing[c] = 0
<1>1. TypeOK /\ InStep(c) /\ Unstarted(c)
  BY DEF IInv, CallInv
<1>2. call[c].pc \in {"idle", "accepted", "fallback"} => standing[c] = 0
  BY <1>1 DEF Unstarted
<1>3. CASE call[c].pc = "running"
  <2>. DEFINE k == call[c].at
  <2>1. k \in Nat \ {0} /\ k - 1 \in Nat /\ k - 1 <= Len(call[c].request.steps) /\ k - 1 <= k
    BY <1>3, Place
  <2>2. standing[c] <= Base(c, k - 1) /\ standing[c] \in Nat
    BY <1>1, <1>3, BaseFacts DEF Frugal
  <2>3. /\ Base(c, k - 1) <= Total(c) /\ Base(c, k - 1) <= Base(c, k)
        /\ Base(c, k - 1) \in Nat /\ Base(c, k) \in Nat /\ Total(c) \in Nat
    BY <1>1, <2>1, BaseFacts
  <2>. QED BY <1>2, <2>2, <2>3, <1>3
<1>. QED BY <1>2, <1>3

\* A call's steps are its own.
LEMMA Alone ==
    ASSUME TypeOK, NEW c \in Calls, NEW d \in Calls, c # d,
           validate_payload(c) \/ validate(c) \/ Proceed(c)
    PROVE  call'[d] = call[d] /\ standing'[d] = standing[d]
<1>. DEFINE Kept == call'[d] = call[d]
<1>1. /\ \A p : To(c, p) => Kept
      /\ \A o : Answer(c, o) \/ Closing(c, o) => Kept
      /\ Advance(c) => Kept
  BY DEF TypeOK, To, Answer, Closing, Advance
<1>2. Bind(c) => Kept
  BY DEF TypeOK, Bind
<1>3. Lands(c) \/ UNCHANGED standing => standing'[d] = standing[d]
  BY DEF Lands, TypeOK
<1>4. CASE validate_payload(c) \/ validate(c)
  <2>1. validate_payload(c) => Kept
    BY <1>1 DEF validate_payload, TypeOK
  <2>2. validate(c) => Kept
    BY DEF validate, TypeOK
  <2>. QED BY <1>4, <2>1, <2>2 DEF validate_payload, validate
<1>5. CASE get_connection(c) \/ _build_provider(c)
  BY <1>1, <1>2, <1>5, Found
<1>6. CASE RaisesBefore(c) \/ Fails(c)
  <2>1. Raises(c) /\ (Lands(c) \/ UNCHANGED standing)
    BY <1>6 DEF RaisesBefore, Fails, MayHaveLanded
  <2>. QED BY <1>1, <1>3, <2>1 DEF Raises
<1>7. CASE Sends(c) \/ Retries(c)
  <2>1. Sends(c) \/ Retries(c) => Kept
    BY DEF Sends, Retries, Resends, TypeOK
  <2>. QED BY <1>3, <1>7, <2>1 DEF Sends, Retries, Resends, MayHaveLanded
<1>8. CASE Succeeds(c) \/ commit(c) \/ ClosesSession(c)
  BY <1>1, <1>3, <1>8 DEF Succeeds, commit, ClosesSession
<1>9. CASE Returns(c) \/ disconnect(c) \/ record(c) \/ RecordFails(c)
  BY <1>1, <1>9 DEF Returns, disconnect, record, RecordFails
<1>. QED BY <1>4, <1>5, <1>6, <1>7, <1>8, <1>9 DEF Proceed

LEMMA FrugalInit == Init => FrugalInv
  BY DEF Init, Idle, FrugalInv, Frugal

LEMMA FrugalFrame ==
    ASSUME NEW c \in Calls, Frugal(c), call'[c] = call[c], standing'[c] = standing[c]
    PROVE  Frugal(c)'
  BY DEF Frugal, Base, Total, Earlier, Step

\* The next step begins, or the call ends.
LEMMA FrugalAdvance ==
    ASSUME TypeOK, NEW c \in Calls, Advance(c), standing'[c] <= Base(c, call[c].at)
    PROVE  Frugal(c)'
<1>1. call[c] \in Call /\ call[c].at \in Nat
  BY BaseFacts
<1>2. call'[c] = [call[c] EXCEPT !.pc = "running", !.at = @ + 1, !.attempts = 0]
  BY AdvanceType
<1>3. /\ call'[c].pc = "running" /\ call'[c].at = call[c].at + 1
      /\ call'[c].request = call[c].request
  BY <1>1, <1>2 DEF Call
<1>4. call'[c].at - 1 = call[c].at
  BY <1>1, <1>3
<1>5. Base(c, call[c].at - 1)' = Base(c, call[c].at)
  BY <1>3, <1>4 DEF Base
<1>. QED BY <1>3, <1>5 DEF Frugal

LEMMA FrugalEnd ==
    ASSUME NEW c \in Calls, call'[c].request = call[c].request, standing'[c] <= Total(c),
           call'[c].pc \in {"closing", "auditing", "answered", "dead"}
    PROVE  Frugal(c)'
  BY DEF Frugal, Total

LEMMA FrugalRaises ==
    ASSUME TypeOK, NEW c \in Calls, Raises(c),
           standing'[c] <= Base(c, call[c].at), standing'[c] <= Total(c)
    PROVE  Frugal(c)'
<1>1. CASE Advance(c)
  BY <1>1, FrugalAdvance
<1>2. CASE Closing(c, "failed")
  <2>1. call'[c] = [call[c] EXCEPT !.pc = "closing", !.outcome = "failed"]
    BY <1>2, ClosingType DEF Outcomes
  <2>2. call'[c].request = call[c].request /\ call'[c].pc = "closing"
    BY <2>1, BaseFacts DEF Call
  <2>. QED BY <2>2, FrugalEnd
<1>. QED BY <1>1, <1>2 DEF Raises

LEMMA FrugalBind ==
    ASSUME IInv, NEW c \in Calls, Frugal(c), Bind(c) \/ Answer(c, "refused") \/ To(c, "fallback"),
           call[c].pc \in {"accepted", "fallback"}, standing' = standing
    PROVE  Frugal(c)'
<1>1. TypeOK /\ call[c] \in Call /\ standing'[c] = 0 /\ call[c].at = 1
  BY Between, BaseFacts DEF IInv, CallInv, Unstarted
<1>2. Base(c, 0) >= 0 /\ Total(c) \in Nat
  BY <1>1, BaseFacts
<1>3. CASE Bind(c)
  <2>1. call'[c] = IF call[c].request = Unbound
                   THEN [call[c] EXCEPT !.pc = "closing", !.outcome = "unbound"]
                   ELSE [call[c] EXCEPT !.pc = "running", !.fits = FALSE]
    BY <1>1, <1>3, BindType
  <2>2. /\ call'[c].request = call[c].request /\ call'[c].at = 1
        /\ call'[c].pc \in {"closing", "running"}
    BY <1>1, <2>1 DEF Call
  <2>3. Base(c, call[c].at - 1)' = Base(c, 0)
    BY <2>2 DEF Base
  <2>. QED BY <1>1, <1>2, <2>2, <2>3 DEF Frugal, Total
<1>4. CASE Answer(c, "refused")
  <2>1. call'[c] = [call[c] EXCEPT !.pc = "answered", !.outcome = "refused"]
    BY <1>1, <1>4, AnswerType DEF Outcomes
  <2>2. call'[c].request = call[c].request /\ call'[c].pc = "answered"
    BY <1>1, <2>1 DEF Call
  <2>3. standing'[c] <= Total(c)
    BY <1>1, <1>2
  <2>. QED BY <2>2, <2>3, FrugalEnd
<1>5. CASE To(c, "fallback")
  <2>0. call'[c] = [call[c] EXCEPT !.pc = "fallback"]
    BY <1>1, <1>5, ToType DEF Points
  <2>1. call'[c].pc = "fallback"
    BY <1>1, <2>0 DEF Call
  <2>. QED BY <2>1 DEF Frugal
<1>. QED BY <1>3, <1>4, <1>5

LEMMA FrugalAccept ==
    ASSUME IInv, NEW c \in Calls, Frugal(c), validate_payload(c) \/ validate(c)
    PROVE  Frugal(c)'
<1>1. TypeOK /\ call[c] \in Call /\ call[c].pc = "idle" /\ standing' = standing
  BY BaseFacts DEF IInv, validate_payload, validate
<1>2. standing'[c] = 0 /\ Total(c) \in Nat
  BY <1>1, Between, BaseFacts
<1>3. Answer(c, "invalid") \/ call'[c].pc = "accepted"
  <2>1. validate_payload(c) => Answer(c, "invalid") \/ call'[c].pc = "accepted"
    BY <1>1 DEF validate_payload, TypeOK, Idle
  <2>2. validate(c) => call'[c].pc = "accepted"
    BY <1>1 DEF validate, TypeOK, Idle
  <2>. QED BY <2>1, <2>2
<1>4. CASE Answer(c, "invalid")
  <2>1. call'[c] = [call[c] EXCEPT !.pc = "answered", !.outcome = "invalid"]
    BY <1>1, <1>4, AnswerType DEF Outcomes
  <2>2. call'[c].request = call[c].request /\ call'[c].pc = "answered"
    BY <1>1, <2>1 DEF Call
  <2>. QED BY <1>2, <2>2, FrugalEnd
<1>5. CASE ~ Answer(c, "invalid")
  BY <1>3, <1>5 DEF Frugal
<1>. QED BY <1>4, <1>5

LEMMA FrugalSend ==
    ASSUME IInv, NEW c \in Calls, Frugal(c), Sends(c) \/ Retries(c)
    PROVE  Frugal(c)'
<1>1. TypeOK /\ call[c] \in Call /\ standing[c] \in Nat
  BY BaseFacts DEF IInv
<1>2. CASE Sends(c)
  <2>1. /\ call[c].pc = "running" /\ standing' = standing
        /\ call' = [call EXCEPT ![c] = [call[c] EXCEPT !.pc = "sent", !.attempts = 1]]
    BY <1>2 DEF Sends
  <2>2. call'[c] = [call[c] EXCEPT !.pc = "sent", !.attempts = 1]
    BY <1>1, <2>1 DEF TypeOK
  <2>3. /\ call'[c].pc = "sent" /\ call'[c].attempts = 1 /\ call'[c].at = call[c].at
        /\ call'[c].request = call[c].request
    BY <1>1, <2>2 DEF Call
  <2>4. /\ standing[c] <= Base(c, call[c].at - 1) /\ Base(c, call[c].at - 1) \in Nat
        /\ Base(c, call[c].at - 1)' = Base(c, call[c].at - 1)
    BY <1>1, <2>1, <2>3, Place, BaseFacts DEF Frugal, Base
  <2>5. 1 \in 1..Sendings(call[c].request)
    BY SendingsType
  <2>6. Earlier(c)' = 0
    BY <2>3 DEF Earlier
  <2>. QED BY <1>1, <2>1, <2>3, <2>4, <2>5, <2>6 DEF Frugal
<1>3. CASE Retries(c)
  <2>1. /\ call[c].pc = "sent" /\ call[c].request.via = "http" /\ call[c].attempts < MaxAttempts
        /\ Lands(c) \/ UNCHANGED standing
        /\ Lands(c) => Step(c) = "write" \/ UNCHANGED standing
        /\ call' = [call EXCEPT ![c] = [call[c] EXCEPT !.attempts = @ + 1]]
    BY <1>3 DEF Retries, Resends, MayHaveLanded
  <2>2. call'[c] = [call[c] EXCEPT !.attempts = @ + 1]
    BY <1>1, <2>1 DEF TypeOK
  <2>3. /\ call'[c].pc = "sent" /\ call'[c].attempts = call[c].attempts + 1
        /\ call'[c].at = call[c].at /\ call'[c].request = call[c].request
    BY <1>1, <2>1, <2>2 DEF Call
  <2>4. /\ call[c].attempts \in 1..Sendings(call[c].request)
        /\ standing[c] <= Base(c, call[c].at - 1) + Earlier(c)
    BY <2>1 DEF Frugal
  <2>5. Sendings(call[c].request) = MaxAttempts
    BY <2>1 DEF Sendings
  <2>6. call[c].attempts \in Nat /\ call'[c].attempts \in 1..Sendings(call[c].request)
    BY <2>1, <2>3, <2>4, <2>5, AttemptAssumption
  <2>7. Base(c, call[c].at - 1)' = Base(c, call[c].at - 1) /\ Base(c, call[c].at - 1) \in Nat
    BY <1>1, <2>1, <2>3, Place, BaseFacts DEF Base
  <2>8. /\ Step(c) = "write" => Earlier(c) = call[c].attempts - 1
        /\ Step(c) = "write" => Earlier(c)' = call[c].attempts
        /\ Step(c) # "write" => Earlier(c) = 0 /\ Earlier(c)' = 0
    BY <2>3, <2>6 DEF Earlier, Step
  <2>9. /\ standing'[c] = standing[c] \/ standing'[c] = standing[c] + 1
        /\ Step(c) # "write" => standing'[c] = standing[c]
    BY <1>1, <2>1, LandsFact
  <2>10. standing'[c] <= Base(c, call[c].at - 1) + Earlier(c)'
    <3>1. CASE Step(c) = "write"
      BY <1>1, <2>4, <2>6, <2>7, <2>8, <2>9, <3>1
    <3>2. CASE Step(c) # "write"
      BY <1>1, <2>4, <2>7, <2>8, <2>9, <3>2
    <3>. QED BY <3>1, <3>2
  <2>. QED BY <2>3, <2>6, <2>7, <2>10 DEF Frugal
<1>. QED BY <1>2, <1>3

LEMMA FrugalAnswer ==
    ASSUME IInv, NEW c \in Calls, Frugal(c), Succeeds(c) \/ Fails(c)
    PROVE  Frugal(c)'
<1>1. TypeOK /\ call[c] \in Call /\ standing[c] \in Nat
  BY BaseFacts DEF IInv
<1>2. call[c].pc \in {"sent", "executed"}
  BY DEF Succeeds, Fails
<1>3. /\ standing[c] <= Base(c, call[c].at)
      /\ Step(c) = "write" => standing[c] + 1 <= Base(c, call[c].at)
      /\ Base(c, call[c].at) <= Total(c)
      /\ Base(c, call[c].at) \in Nat /\ Total(c) \in Nat
  BY <1>1, <1>2, Share, BaseFacts
<1>4. \/ UNCHANGED standing
      \/ Step(c) = "write" /\ Lands(c)
  BY DEF Succeeds, Fails, MayHaveLanded
<1>5. \/ standing'[c] = standing[c]
      \/ Step(c) = "write" /\ standing'[c] = standing[c] + 1
  BY <1>1, <1>4, LandsFact
<1>6. standing'[c] <= Base(c, call[c].at) /\ standing'[c] <= Total(c)
  BY <1>1, <1>3, <1>5
<1>7. CASE Advance(c)
  BY <1>1, <1>6, <1>7, FrugalAdvance
<1>8. CASE Raises(c)
  BY <1>1, <1>6, <1>8, FrugalRaises
<1>9. CASE To(c, "executed") /\ UNCHANGED standing
  <2>1. call'[c] = [call[c] EXCEPT !.pc = "executed"]
    BY <1>1, <1>9, ToType DEF Points
  <2>2. /\ call'[c].pc = "executed" /\ call'[c].attempts = call[c].attempts
        /\ call'[c].at = call[c].at /\ call'[c].request = call[c].request
    BY <1>1, <2>1 DEF Call
  <2>. QED BY <1>2, <1>9, <2>2 DEF Frugal, Base, Earlier, Step
<1>. QED BY <1>7, <1>8, <1>9 DEF Succeeds, Fails

LEMMA FrugalSession ==
    ASSUME IInv, NEW c \in Calls, Frugal(c), ClosesSession(c) \/ commit(c)
    PROVE  Frugal(c)'
<1>1. TypeOK /\ call[c] \in Call /\ standing[c] \in Nat /\ Step(c) = "write"
  BY BaseFacts DEF IInv, CallInv, InStep, ClosesSession, commit
<1>2. call[c].pc = "executed" /\ Advance(c) /\ (Lands(c) \/ UNCHANGED standing)
  BY DEF ClosesSession, commit
<1>3. standing[c] + 1 <= Base(c, call[c].at) /\ Base(c, call[c].at) \in Nat
  BY <1>1, <1>2, Share, BaseFacts
<1>4. standing'[c] = standing[c] \/ standing'[c] = standing[c] + 1
  BY <1>1, <1>2, LandsFact
<1>5. standing'[c] <= Base(c, call[c].at)
  BY <1>1, <1>3, <1>4
<1>. QED BY <1>1, <1>2, <1>5, FrugalAdvance

LEMMA FrugalBefore ==
    ASSUME IInv, NEW c \in Calls, Frugal(c), RaisesBefore(c)
    PROVE  Frugal(c)'
<1>1. TypeOK /\ call[c].pc = "running" /\ ~ AtEnd(c) /\ Raises(c) /\ standing' = standing
  BY DEF IInv, RaisesBefore
<1>2. standing'[c] <= Base(c, call[c].at) /\ standing'[c] <= Total(c)
  BY <1>1, Between
<1>. QED BY <1>1, <1>2, FrugalRaises

LEMMA FrugalClose ==
    ASSUME IInv, NEW c \in Calls, Frugal(c),
           Returns(c) \/ disconnect(c) \/ record(c) \/ RecordFails(c)
    PROVE  Frugal(c)'
<1>1. TypeOK /\ call[c] \in Call /\ standing' = standing
  BY BaseFacts DEF IInv, Returns, disconnect, record, RecordFails
<1>2. standing[c] <= Total(c)
  BY Between DEF Returns, disconnect, record, RecordFails, Frugal
<1>3. CASE Returns(c)
  <2>1. call'[c] = [call[c] EXCEPT !.pc = "closing", !.outcome = "ok"]
    BY <1>1, <1>3, ClosingType DEF Returns, Outcomes
  <2>2. call'[c].request = call[c].request /\ call'[c].pc = "closing"
    BY <1>1, <2>1 DEF Call
  <2>. QED BY <1>1, <1>2, <2>2, FrugalEnd
<1>4. CASE RecordFails(c)
  <2>1. call'[c] = [call[c] EXCEPT !.pc = "answered", !.outcome = "failed"]
    BY <1>1, <1>4, AnswerType DEF RecordFails, Outcomes
  <2>2. call'[c].request = call[c].request /\ call'[c].pc = "answered"
    BY <1>1, <2>1 DEF Call
  <2>. QED BY <1>1, <1>2, <2>2, FrugalEnd
<1>5. CASE disconnect(c) \/ record(c)
  <2>1. PICK p \in {"auditing", "answered"} : To(c, p)
    BY <1>5 DEF disconnect, record
  <2>2. call'[c] = [call[c] EXCEPT !.pc = p]
    BY <1>1, <2>1, ToType DEF Points
  <2>3. call'[c].request = call[c].request /\ call'[c].pc = p
    BY <1>1, <2>2 DEF Call
  <2>. QED BY <1>1, <1>2, <2>3, FrugalEnd
<1>. QED BY <1>3, <1>4, <1>5

LEMMA FrugalCrash ==
    ASSUME IInv, NEW c \in Calls, Frugal(c), Crash
    PROVE  Frugal(c)'
<1>1. TypeOK /\ call[c] \in Call /\ standing[c] \in Nat /\ Total(c) \in Nat
  BY BaseFacts DEF IInv
<1>2. /\ standing'[c] = standing[c] \/ standing'[c] = standing[c] + 1
      /\ c \notin Unanswered => standing'[c] = standing[c]
  BY DEF Crash
<1>3. CASE c \notin InFlight
  <2>1. call'[c] = call[c] /\ c \notin Unanswered
    BY <1>3 DEF Crash, InFlight, Unanswered
  <2>. QED BY <1>2, <2>1, FrugalFrame
<1>4. CASE c \in InFlight
  <2>1. call'[c] = [call[c] EXCEPT !.pc = "dead"]
    BY <1>4 DEF Crash
  <2>2. call'[c].request = call[c].request /\ call'[c].pc = "dead"
    BY <1>1, <2>1 DEF Call
  <2>3. standing'[c] <= Total(c)
    <3>1. CASE call[c].pc \in {"sent", "executed"}
      <4>1. c \in Unanswered => Step(c) = "write"
        BY DEF Unanswered, IInv, CallInv, InStep
      <4>2. /\ standing[c] <= Base(c, call[c].at) /\ Base(c, call[c].at) <= Total(c)
            /\ Step(c) = "write" => standing[c] + 1 <= Base(c, call[c].at)
            /\ Base(c, call[c].at) \in Nat
        BY <1>1, <3>1, Share, BaseFacts
      <4>. QED BY <1>1, <1>2, <4>1, <4>2
    <3>2. CASE call[c].pc \notin {"sent", "executed"}
      <4>1. standing[c] <= Total(c)
        BY <1>1, <1>4, <3>2, Between DEF Frugal, InFlight, Call, Points
      <4>2. c \notin Unanswered
        BY <3>2 DEF Unanswered
      <4>. QED BY <1>2, <4>1, <4>2
    <3>. QED BY <3>1, <3>2
  <2>. QED BY <2>2, <2>3, FrugalEnd
<1>. QED BY <1>3, <1>4

LEMMA FrugalStep == IInv /\ FrugalInv /\ [Next]_vars => FrugalInv'
<1>. SUFFICES ASSUME IInv, FrugalInv, [Next]_vars, NEW d \in Calls PROVE Frugal(d)'
  BY DEF FrugalInv
<1>1. TypeOK /\ Frugal(d)
  BY DEF IInv, FrugalInv
<1>2. ASSUME NEW c \in Calls, validate_payload(c) \/ validate(c) \/ Proceed(c)
      PROVE  Frugal(d)'
  <2>1. CASE c = d
    <3>1. CASE get_connection(d) \/ _build_provider(d)
      <4>1. /\ Bind(d) \/ Answer(d, "refused") \/ To(d, "fallback")
            /\ call[d].pc \in {"accepted", "fallback"} /\ standing' = standing
        BY <1>1, <3>1, Found
      <4>. QED BY <1>1, <4>1, FrugalBind
    <3>2. CASE validate_payload(d) \/ validate(d)
      BY <1>1, <3>2, FrugalAccept
    <3>3. CASE Sends(d) \/ Retries(d)
      BY <1>1, <3>3, FrugalSend
    <3>4. CASE RaisesBefore(d) \/ Succeeds(d) \/ Fails(d) \/ commit(d) \/ ClosesSession(d)
      BY <1>1, <3>4, FrugalBefore, FrugalAnswer, FrugalSession
    <3>5. CASE Returns(d) \/ disconnect(d) \/ record(d) \/ RecordFails(d)
      BY <1>1, <3>5, FrugalClose
    <3>. QED BY <1>2, <2>1, <3>1, <3>2, <3>3, <3>4, <3>5 DEF Proceed
  <2>2. CASE c # d
    <3>1. call'[d] = call[d] /\ standing'[d] = standing[d]
      BY <1>1, <1>2, <2>2, Alone
    <3>. QED BY <1>1, <3>1, FrugalFrame
  <2>. QED BY <2>1, <2>2
<1>3. CASE Connect \/ Disconnect \/ StoreCredential \/ DeleteCredential \/ UNCHANGED vars
  <2>1. call'[d] = call[d] /\ standing'[d] = standing[d]
    BY <1>3 DEF Connect, Disconnect, StoreCredential, DeleteCredential, vars
  <2>. QED BY <1>1, <2>1, FrugalFrame
<1>4. CASE Crash
  BY <1>1, <1>4, FrugalCrash
<1>. QED BY <1>2, <1>3, <1>4 DEF Next

\* However a call ends, its writes were not done more often than they may be
\* sent: once, and max_attempts times under a retry policy (with_retry), over
\* any number of steps, requests, lost answers and deaths of the process.
THEOREM NotTooOftenTheorem == Spec => []NoWriteTooOften
<1>1. IInv /\ FrugalInv => NoWriteTooOften
  <2>. SUFFICES ASSUME IInv, FrugalInv, NEW c \in Calls PROVE standing[c] <= Total(c)
    BY DEF NoWriteTooOften, Total
  <2>1. TypeOK /\ Frugal(c)
    BY DEF IInv, FrugalInv
  <2>2. /\ call[c].pc \in Points /\ Total(c) \in Nat /\ standing[c] \in Nat
    BY <2>1, BaseFacts DEF Call
  <2>3. CASE call[c].pc \in {"idle", "accepted", "fallback", "running"}
    BY <2>1, <2>2, <2>3, Between
  <2>4. CASE call[c].pc \in {"sent", "executed"}
    <3>1. standing[c] <= Base(c, call[c].at) /\ Base(c, call[c].at) <= Total(c)
      BY <2>1, <2>4, Share
    <3>2. Base(c, call[c].at) \in Nat
      BY <2>1, BaseFacts
    <3>. QED BY <2>2, <3>1, <3>2
  <2>5. CASE call[c].pc \in {"closing", "auditing", "answered", "dead"}
    BY <2>1, <2>5 DEF Frugal
  <2>. QED BY <2>2, <2>3, <2>4, <2>5 DEF Points
<1>. QED BY <1>1, Invariance, FrugalInit, FrugalStep, PTL DEF Spec
=============================================================================
