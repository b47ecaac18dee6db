---------------------------- MODULE Submissions ----------------------------
(***************************************************************************)
(* A vendor's staged copy of a product and the review that publishes it.   *)
(* Most operations are one transaction under the lock of the submission's  *)
(* row and are one action; what is read before that lock, or beside it, is *)
(* a step of its own: the endpoints of the staged files, the copies of the *)
(* live product, and the admin's edit of the product's columns.            *)
(*                                                                         *)
(* There is one product and its submission.  The columns of the product    *)
(* are the one field "name", and of a field's content only equality counts.*)
(***************************************************************************)
CONSTANTS
    Requests,           \* requests in progress at the same time
    Values,             \* the contents a field may have
    Empty,              \* the content of categories, details or media: no rows
    Fitting,            \* <<c, d>>: categories c define and are content with details d
    NoProduct,          \* the product is not in the catalog yet
    Nobody              \* no request

ASSUME SubmissionsAssumption ==
    /\ Empty \in Values /\ Fitting \subseteq Values \X Values
    /\ Nobody \notin Requests /\ NoProduct \notin [{"name", "categories", "details", "media"} -> Values]

VARIABLES
    sub,                \* the submission: its status and staged content
    live,               \* the product in the catalog
    author,             \* history: author[f]: who wrote text field f of the product last
    unchecked,          \* history: whoever wrote categories or details last did
                        \* not test what the categories require
    sent,               \* history: what the vendor sent to the review it is in
    lock,               \* the request that has the submission's row locked
    job                 \* job[q]: what request q is doing

vars == <<sub, live, author, unchecked, sent, lock, job>>

Fields == {"name", "categories", "details", "media"}
Text == Fields \ {"media"}
Paired == {"categories", "details"}

Content == [Fields -> Values]
Blank == [f \in Fields |-> Empty]

Editable == {"draft", "confirmed", "need_recheck", "reject"}
Pending == {"confirmation_await", "request_update"}

NoSubmission == [status |-> "none", content |-> Blank]

Idle == [pc |-> "idle", op |-> "none", buf |-> Blank]

Fits(c) == <<c["categories"], c["details"]>> \in Fitting

\* changed_fields is not empty.
Changed == live = NoProduct \/ sub.content # live

Init ==
    /\ sub = NoSubmission /\ sent = Blank
    /\ live \in {NoProduct} \cup {c \in Content : Fits(c)}
    /\ author = [f \in Text |-> "catalog"] /\ unchecked = FALSE
    /\ lock = Nobody /\ job = [q \in Requests |-> Idle]

Become(q, j) == job' = [job EXCEPT ![q] = j]

----------------------------------------------------------------------------
\* The vendor.

CreateDraft(c) ==
    /\ sub.status = "none" /\ live = NoProduct
    /\ c["media"] = Empty /\ Fits(c)
    /\ sub' = [status |-> "draft", content |-> c]
    /\ UNCHANGED <<live, author, unchecked, sent, lock, job>>

\* Mutant of Update: the status is not looked at again.
UpdateAnyway(c) ==
    /\ lock = Nobody /\ sub.status # "none"
    /\ c["media"] = sub.content["media"]
    /\ c["details"] = sub.content["details"] \/ Fits(c)
    /\ sub' = [sub EXCEPT !.content = c]
    /\ UNCHANGED <<live, author, unchecked, sent, lock, job>>

\* Details that were sent have to fit; categories alone need not.
Update(c) ==
    /\ lock = Nobody /\ sub.status \in Editable
    /\ c["media"] = sub.content["media"]
    /\ c["details"] = sub.content["details"] \/ Fits(c)
    /\ sub' = [status |-> IF sub.status = "confirmed" /\ c # live
                          THEN "draft" ELSE sub.status,
               content |-> c]
    /\ UNCHANGED <<live, author, unchecked, sent, lock, job>>

Submit ==
    /\ lock = Nobody /\ sub.status \in Editable
    /\ sub.status \in {"need_recheck", "reject"} \/ Changed
    /\ sub' = [sub EXCEPT !.status = IF live = NoProduct THEN "confirmation_await"
                                     ELSE "request_update"]
    /\ sent' = sub.content
    /\ UNCHANGED <<live, author, unchecked, lock, job>>

\* The rows of the details are PROTECTed: while a draft has any, it stays.
DiscardDraft ==
    /\ lock = Nobody /\ sub.status \in Editable
    /\ live = NoProduct /\ sub.content["details"] = Empty
    /\ sub' = NoSubmission
    /\ UNCHANGED <<live, author, unchecked, sent, lock, job>>

\* The endpoints of the staged files test the status and lock the row later;
\* the service does not test it again.
BeginFile(q) ==
    /\ job[q].pc = "idle" /\ sub.status \in Editable
    /\ Become(q, [Idle EXCEPT !.pc = "file"])
    /\ UNCHANGED <<sub, live, author, unchecked, sent, lock>>

WriteFile(q, v) ==
    /\ job[q].pc = "file" /\ lock = Nobody
    /\ sub' = IF sub.status = "none" THEN sub ELSE [sub EXCEPT !.content["media"] = v]
    /\ Become(q, Idle)
    /\ UNCHANGED <<live, author, unchecked, sent, lock>>

----------------------------------------------------------------------------
\* Copies of the live product, one statement per table and no lock on it: the
\* baseline of a revision, and a discarded revision.

After == [name |-> "categories", categories |-> "details", details |-> "media",
          media |-> "copied"]

BeginBaseline(q) ==
    /\ job[q].pc = "idle" /\ sub.status = "none" /\ live # NoProduct
    /\ Become(q, [Idle EXCEPT !.pc = "name", !.op = "baseline"])
    /\ UNCHANGED <<sub, live, author, unchecked, sent, lock>>

BeginDiscard(q) ==
    /\ job[q].pc = "idle" /\ lock = Nobody
    /\ sub.status \in Editable /\ live # NoProduct
    /\ lock' = q
    /\ Become(q, [Idle EXCEPT !.pc = "name", !.op = "discard"])
    /\ UNCHANGED <<sub, live, author, unchecked, sent>>

CopyNext(q) ==
    LET f == job[q].pc
    IN  /\ f \in Fields
        /\ Become(q, [job[q] EXCEPT !.pc = After[f], !.buf[f] = live[f]])
        /\ UNCHANGED <<sub, live, author, unchecked, sent, lock>>

\* One product, one submission: a second baseline is refused.
SaveBaseline(q) ==
    /\ job[q].pc = "copied" /\ job[q].op = "baseline"
    /\ sub' = IF sub.status = "none" THEN [status |-> "draft", content |-> job[q].buf]
              ELSE sub
    /\ Become(q, Idle)
    /\ UNCHANGED <<live, author, unchecked, sent, lock>>

SaveDiscard(q) ==
    /\ job[q].pc = "copied" /\ job[q].op = "discard"
    /\ sub' = [status |-> "confirmed", content |-> job[q].buf]
    /\ lock' = Nobody /\ Become(q, Idle)
    /\ UNCHANGED <<live, author, unchecked, sent>>

----------------------------------------------------------------------------
\* The review.

Confirm ==
    /\ lock = Nobody
    /\ live = NoProduct /\ sub.status = "confirmation_await" /\ Fits(sub.content)
    /\ live' = sub.content
    /\ author' = [f \in Text |-> "review"] /\ unchecked' = FALSE
    /\ sub' = [sub EXCEPT !.status = "confirmed"]
    /\ sent' = Blank
    /\ UNCHANGED <<lock, job>>

Ticked(fields) == [f \in Fields |-> IF f \in fields THEN sub.content[f] ELSE live[f]]

\* Mutant of Apply: what was not ticked stays staged.
ApplyNoRevert(fields) ==
    /\ lock = Nobody
    /\ live # NoProduct /\ sub.status = "request_update"
    /\ fields \cap Paired # {} => Fits(Ticked(fields))
    /\ live' = Ticked(fields)
    /\ author' = [f \in Text |-> IF f \in fields THEN "review" ELSE author[f]]
    /\ unchecked' = (unchecked /\ fields \cap Paired = {})
    /\ sub' = [sub EXCEPT !.status = "confirmed"]
    /\ sent' = Blank
    /\ UNCHANGED <<lock, job>>

\* Mutant of Apply: only ticked details are validated.
ApplyDetailsOnly(fields) ==
    /\ lock = Nobody
    /\ live # NoProduct /\ sub.status = "request_update"
    /\ "details" \in fields => Fits(Ticked(fields))
    /\ live' = Ticked(fields)
    /\ author' = [f \in Text |-> IF f \in fields THEN "review" ELSE author[f]]
    /\ unchecked' = (unchecked /\ fields \cap Paired = {})
    /\ sub' = [status |-> "confirmed", content |-> Ticked(fields)]
    /\ sent' = Blank
    /\ UNCHANGED <<lock, job>>

\* The ticked fields go live, the others are staged again as they are live.
\* Both rows are locked: this is one step.
Apply(fields) ==
    /\ lock = Nobody
    /\ live # NoProduct /\ sub.status = "request_update"
    /\ fields \cap Paired # {} => Fits(Ticked(fields))
    /\ live' = Ticked(fields)
    /\ author' = [f \in Text |-> IF f \in fields THEN "review" ELSE author[f]]
    /\ unchecked' = (unchecked /\ fields \cap Paired = {})
    /\ sub' = [status |-> "confirmed", content |-> Ticked(fields)]
    /\ sent' = Blank
    /\ UNCHANGED <<lock, job>>

Decide(code) ==
    /\ lock = Nobody /\ sub.status \in Pending
    /\ sub' = [sub EXCEPT !.status = code]
    /\ sent' = Blank
    /\ UNCHANGED <<live, author, unchecked, lock, job>>

----------------------------------------------------------------------------
\* The catalog's own endpoints, which know nothing of submissions.

Writes(f) == author' = [author EXCEPT ![f] = "catalog"]

UpdateComplete(c) ==
    /\ live # NoProduct /\ c["media"] = live["media"] /\ Fits(c)
    /\ live' = c
    /\ author' = [f \in Text |-> "catalog"] /\ unchecked' = FALSE
    /\ UNCHANGED <<sub, sent, lock, job>>

\* The columns are read, and saved whole.
BeginBasic(q, v) ==
    /\ job[q].pc = "idle" /\ live # NoProduct
    /\ Become(q, [Idle EXCEPT !.pc = "basic", !.buf["name"] = v])
    /\ UNCHANGED <<sub, live, author, unchecked, sent, lock>>

SaveBasic(q) ==
    /\ job[q].pc = "basic"
    /\ live' = [live EXCEPT !["name"] = job[q].buf["name"]]
    /\ Writes("name") /\ Become(q, Idle)
    /\ UNCHANGED <<sub, unchecked, sent, lock>>

\* A detail is tested against the categories read before, and what another
\* detail requires is not tested at all.
AddDetail(d) ==
    /\ live # NoProduct
    /\ live' = [live EXCEPT !["details"] = d]
    /\ Writes("details") /\ unchecked' = TRUE
    /\ UNCHANGED <<sub, sent, lock, job>>

\* The importer's next run over a product of its source: the columns are
\* replaced, categories (one at least) and details added, files attached, and
\* what the categories require is not tested.  It locks the product, not the
\* submission.
ImportProduct(c) ==
    /\ live # NoProduct /\ c["categories"] # Empty
    /\ live' = c
    /\ author' = [f \in Text |-> "catalog"] /\ unchecked' = TRUE
    /\ UNCHANGED <<sub, sent, lock, job>>

ProductFile(v) ==
    /\ live # NoProduct
    /\ live' = [live EXCEPT !["media"] = v]
    /\ UNCHANGED <<sub, author, unchecked, sent, lock, job>>

\* A request that dies takes its transaction with it.
Crash(q) ==
    /\ job[q].pc # "idle"
    /\ lock' = IF lock = q THEN Nobody ELSE lock
    /\ Become(q, Idle)
    /\ UNCHANGED <<sub, live, author, unchecked, sent>>

----------------------------------------------------------------------------
Vendor ==
    \/ \E c \in Content : CreateDraft(c) \/ Update(c)
    \/ Submit \/ DiscardDraft

Review ==
    \/ Confirm
    \/ \E fields \in (SUBSET Fields) \ {{}} : Apply(fields)
    \/ \E code \in {"need_recheck", "reject"} : Decide(code)

Catalog ==
    \/ \E c \in Content : UpdateComplete(c) \/ ImportProduct(c)
    \/ \E v \in Values : AddDetail(v) \/ ProductFile(v)

RequestStep(q) ==
    \/ BeginFile(q) \/ \E v \in Values : WriteFile(q, v) \/ BeginBasic(q, v)
    \/ BeginBaseline(q) \/ BeginDiscard(q) \/ CopyNext(q)
    \/ SaveBaseline(q) \/ SaveDiscard(q) \/ SaveBasic(q) \/ Crash(q)

Next == Vendor \/ Review \/ Catalog \/ \E q \in Requests : RequestStep(q)

Spec == Init /\ [][Next]_vars

----------------------------------------------------------------------------
JobType ==
    [pc : Fields \cup {"idle", "copied", "file", "basic"},
     op : {"none", "baseline", "discard"}, buf : Content]

TypeOK ==
    /\ sub \in [status : Editable \cup Pending \cup {"none"}, content : Content]
    /\ live \in Content \cup {NoProduct}
    /\ author \in [Text -> {"catalog", "review"}]
    /\ unchecked \in BOOLEAN
    /\ sent \in Content
    /\ lock \in Requests \cup {Nobody}
    /\ job \in [Requests -> JobType]

\* submit "freezes" a submission: whatever becomes of it between, a review
\* that ends confirmed put into the catalog, field by field, what the vendor
\* sent or what was there.  (Of the staged files this is not true.)
ApprovedAsSent ==
    [][sub.status \in Pending /\ sub'.status = "confirmed" =>
           \A f \in Text : \/ live'[f] = sent[f]
                           \/ live # NoProduct /\ live'[f] = live[f]]_vars

\* "Status confirmed means the staging content equals the live content": true
\* of every field the review was the last to write, through later updates,
\* partial approvals and withdrawals that copy beside an admin's edits.
ConfirmedAgrees ==
    sub.status = "confirmed" =>
        \A f \in Text : author[f] = "review" => live # NoProduct /\ sub.content[f] = live[f]

\* The catalog's categories and details fit each other, although the admin
\* ticks them one by one and the vendor stages them one by one, unless the last
\* to write one of them was a writer that does not test what they require of
\* each other: a single detail, or the importer.
LiveFits == live # NoProduct /\ ~unchecked => Fits(live)

=============================================================================
