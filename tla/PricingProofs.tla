----------------------------- MODULE PricingProofs -----------------------------
(***************************************************************************)
(* What is proved about prices, for any members, imports, permissions,     *)
(* periods, reservers, instants and bounds.  The registry: every           *)
(* publication was reviewed, and every approval means what its reviewer    *)
(* named; the invariant that carries both says what an import's state      *)
(* promises about its row, and that a revision that was put to review is   *)
(* either over or is still exactly the row.  The procedures: Evaluate      *)
(* allows a send exactly when every instant that matters is covered, and   *)
(* intervalMaximum accepts exactly the horizons of which every instant has *)
(* one price.  Budgets: a period's reservations stay within its limit.     *)
(***************************************************************************)
EXTENDS MCPricing, WellFoundedInduction, FiniteSetTheorems, TLAPS

ImportType == [state : State, revision : Nat, importer : Members \cup {None},
               reviewer : Members \cup {None}, base : Nat, report : {None, "VALID"},
               diff : Nat \cup {None}, reviewed : ContentType \cup {None}]

PublicationType == [import : Imports, publisher : Members, reviewer : Members,
                    content : ContentType, supersedes : Nat]

SettingsType == [enabled : BOOLEAN, currency : {None, "IDR"}, policy : Nat, head : Nat]

Types ==
    /\ settings \in SettingsType
    /\ import \in [Imports -> ImportType]
    /\ publications \in Seq(PublicationType)
    /\ submitted \subseteq ContentType
    /\ approvals \subseteq [by : Members, named : Nat, content : ContentType]

UnderReview == {"IN_REVIEW", "CHANGES_REQUIRED", "APPROVED", "PUBLISHED"}

\* What a row in review holds, and that it is on record as it stands.
RowsReviewed ==
    \A i \in Imports :
        /\ import[i].state \in {"VALIDATED", "DIFFED"} \cup UnderReview => import[i].report = "VALID"
        /\ import[i].state \in {"DIFFED"} \cup UnderReview => import[i].diff = import[i].base
        /\ import[i].state \in UnderReview => Content(i) \in submitted
        /\ import[i].state = "APPROVED" =>
              \E a \in approvals : a.content = Content(i) /\ a.by = import[i].reviewer

\* A revision that was put to review is over, or is the row.
SubmittedOnce ==
    \A c \in submitted :
        /\ c.revision <= import[c.import].revision
        /\ import[c.import].state # "NONE"
        /\ c.revision = import[c.import].revision =>
              import[c.import].state \in UnderReview /\ c = Content(c.import)

Unambiguous ==
    /\ \A c, d \in submitted : c.import = d.import /\ c.revision = d.revision => c = d
    /\ \A a \in approvals : /\ a.content \in submitted /\ a.named = a.content.revision
                            /\ a.by # import[a.content.import].importer

Link(k) ==
    /\ publications[k].supersedes = k - 1
    /\ publications[k].content.report = "VALID"
    /\ publications[k].content.base = k - 1 /\ publications[k].content.diff = k - 1
    /\ publications[k].content.import = publications[k].import
    /\ import[publications[k].import].state = "PUBLISHED"
    /\ \E a \in approvals : a.content = publications[k].content /\ a.by = publications[k].reviewer

Chain ==
    /\ settings.head = Len(publications)
    /\ \A k \in 1..Len(publications) : Link(k)
    /\ \A j, k \in 1..Len(publications) : publications[j].import = publications[k].import => j = k

RInv == Types /\ RowsReviewed /\ SubmittedOnce /\ Unambiguous /\ Chain

------------------------------------------------------------------------------

\* The code's initial rows satisfy the invariant.
LEMMA RegistryInit == Init => RInv
BY RegistryAssumption DEF Init, RInv, Types, RowsReviewed, SubmittedOnce, Unambiguous, Chain, Link,
   NoImport, ImportType, SettingsType, State, UnderReview, Content

\* What the rows and the chain say of one publication.
LEMMA OnePublication ==
    ASSUME RInv, NEW k \in 1..Len(publications)
    PROVE  /\ publications[k] \in PublicationType /\ publications[k].import \in Imports
           /\ import[publications[k].import].state = "PUBLISHED"
<1>1. publications[k] \in PublicationType
  BY DEF RInv, Types
<1> QED BY <1>1 DEF RInv, Chain, Link, PublicationType

\* A request that rewrites one row, not a published one, and only adds to the
\* histories: what it leaves alone.
LEMMA OneRow ==
    ASSUME RInv, NEW i \in Imports, NEW row \in ImportType,
           import' = [import EXCEPT ![i] = row], import[i].state # "PUBLISHED",
           UNCHANGED <<settings, publications>>,
           submitted \subseteq submitted', submitted' \subseteq ContentType,
           approvals \subseteq approvals',
           approvals' \subseteq [by : Members, named : Nat, content : ContentType]
    PROVE  /\ Types' /\ Chain'
           /\ import'[i] = row
           /\ Content(i)' = [import |-> i, revision |-> row.revision, base |-> row.base,
                             report |-> row.report, diff |-> row.diff]
           /\ \A j \in Imports \ {i} : import'[j] = import[j] /\ Content(j)' = Content(j)
<1>1. import'[i] = row /\ \A j \in Imports \ {i} : import'[j] = import[j]
  BY DEF RInv, Types
<1>2. Types'
  BY DEF RInv, Types
<1>3. Chain'
  <2>1. \A k \in 1..Len(publications) :
           /\ publications[k].import \in Imports
           /\ import[publications[k].import].state = "PUBLISHED"
    BY OnePublication
  <2>2. \A k \in 1..Len(publications) : import'[publications[k].import] = import[publications[k].import]
    BY <1>1, <2>1
  <2>3. \A k \in 1..Len(publications) : Link(k)'
    BY <2>2 DEF RInv, Chain, Link
  <2> QED BY <2>3 DEF RInv, Chain
<1> QED BY <1>1, <1>2, <1>3 DEF Content

\* The requests that concern one import, one by one.
LEMMA ImportSteps ==
    ASSUME RInv, NEW m \in Members, NEW i \in Imports,
           \/ Import(m, i) \/ Validate(m, i) \/ Diff(m, i) \/ Submit(m, i) \/ Revise(m, i)
           \/ Review(m, i, "approve") \/ Review(m, i, "reject")
    PROVE  RInv'
<1> USE RegistryAssumption
<1>0. /\ import \in [Imports -> ImportType] /\ import[i] \in ImportType /\ settings.head \in Nat
      /\ import[i].base \in Nat
      /\ Content(i) \in ContentType /\ Content(i).import = i /\ Content(i).revision = import[i].revision
      /\ \A j \in Imports : import[j].revision \in Nat
      /\ submitted \subseteq ContentType
      /\ \A c \in ContentType : c.import \in Imports /\ c.revision \in Nat
      /\ approvals \subseteq [by : Members, named : Nat, content : ContentType]
  BY DEF RInv, Types, ImportType, SettingsType, Content, ContentType
<1>1. ASSUME Import(m, i) PROVE RInv'
  <2> DEFINE row == [NoImport EXCEPT !.state = "DRAFT", !.importer = m, !.base = settings.head]
  <2>1. import[i].state = "NONE" /\ import' = [import EXCEPT ![i] = row]
    BY <1>1, <1>0 DEF Import, Names
  <2>2. row \in ImportType
    BY <1>0 DEF ImportType, State, NoImport
  <2>3. /\ row.state = "DRAFT" /\ row.revision = 1
    BY <1>0 DEF ImportType, NoImport
  <2>4. /\ UNCHANGED <<settings, publications>>
        /\ submitted \subseteq submitted' /\ submitted' \subseteq ContentType
        /\ approvals \subseteq approvals'
        /\ approvals' \subseteq [by : Members, named : Nat, content : ContentType]
    BY <1>1, <1>0 DEF Import, Names, RInv, Types
  <2> HIDE DEF row
  <2>5. /\ Types' /\ Chain' /\ import'[i] = row
        /\ Content(i)' = [import |-> i, revision |-> row.revision, base |-> row.base,
                          report |-> row.report, diff |-> row.diff]
        /\ \A j \in Imports \ {i} : import'[j] = import[j] /\ Content(j)' = Content(j)
    BY <2>1, <2>2, <2>4, OneRow
  <2>7. RowsReviewed'
    BY <1>1, <1>0, <2>1, <2>3, <2>4, <2>5 DEF Import, RInv, RowsReviewed, UnderReview
  <2>8. SubmittedOnce'
    BY <1>1, <1>0, <2>1, <2>3, <2>4, <2>5 DEF Import, RInv, SubmittedOnce, UnderReview
  <2>9. Unambiguous'
    BY <1>1, <1>0, <2>1, <2>3, <2>4, <2>5 DEF Import, RInv, Unambiguous, SubmittedOnce, UnderReview
  <2> QED BY <2>5, <2>7, <2>8, <2>9 DEF RInv
<1>2. ASSUME Validate(m, i) PROVE RInv'
  <2> DEFINE row == [import[i] EXCEPT !.state = "VALIDATED", !.report = "VALID"]
  <2>1. import[i].state = "DRAFT" /\ import' = [import EXCEPT ![i] = row]
    BY <1>2, <1>0 DEF Validate, Names
  <2>2. row \in ImportType
    BY <1>0 DEF ImportType, State
  <2>3. /\ row.state = "VALIDATED" /\ row.revision = import[i].revision /\ row.importer = import[i].importer
        /\ row.reviewer = import[i].reviewer /\ row.base = import[i].base /\ row.report = "VALID"
        /\ row.diff = import[i].diff /\ row.reviewed = import[i].reviewed
    BY <1>0 DEF ImportType
  <2>4. /\ UNCHANGED <<settings, publications>>
        /\ submitted \subseteq submitted' /\ submitted' \subseteq ContentType
        /\ approvals \subseteq approvals'
        /\ approvals' \subseteq [by : Members, named : Nat, content : ContentType]
    BY <1>2, <1>0 DEF Validate, Names, RInv, Types
  <2> HIDE DEF row
  <2>5. /\ Types' /\ Chain' /\ import'[i] = row
        /\ Content(i)' = [import |-> i, revision |-> row.revision, base |-> row.base,
                          report |-> row.report, diff |-> row.diff]
        /\ \A j \in Imports \ {i} : import'[j] = import[j] /\ Content(j)' = Content(j)
    BY <2>1, <2>2, <2>4, OneRow
  <2>7. RowsReviewed'
    BY <1>2, <1>0, <2>1, <2>3, <2>4, <2>5 DEF Validate, RInv, RowsReviewed, UnderReview
  <2>8. SubmittedOnce'
    BY <1>2, <1>0, <2>1, <2>3, <2>4, <2>5 DEF Validate, RInv, SubmittedOnce, UnderReview
  <2>9. Unambiguous'
    BY <1>2, <1>0, <2>1, <2>3, <2>4, <2>5 DEF Validate, RInv, Unambiguous, SubmittedOnce, UnderReview
  <2> QED BY <2>5, <2>7, <2>8, <2>9 DEF RInv
<1>3. ASSUME Diff(m, i) PROVE RInv'
  <2> DEFINE row == [import[i] EXCEPT !.state = "DIFFED", !.base = settings.head, !.diff = settings.head]
  <2>1. import[i].state = "VALIDATED" /\ import' = [import EXCEPT ![i] = row]
    BY <1>3, <1>0 DEF Diff, Names
  <2>2. row \in ImportType
    BY <1>0 DEF ImportType, State
  <2>3. /\ row.state = "DIFFED" /\ row.revision = import[i].revision /\ row.importer = import[i].importer
        /\ row.reviewer = import[i].reviewer /\ row.base = settings.head /\ row.report = import[i].report
        /\ row.diff = settings.head /\ row.reviewed = import[i].reviewed
    BY <1>0 DEF ImportType
  <2>4. /\ UNCHANGED <<settings, publications>>
        /\ submitted \subseteq submitted' /\ submitted' \subseteq ContentType
        /\ approvals \subseteq approvals'
        /\ approvals' \subseteq [by : Members, named : Nat, content : ContentType]
    BY <1>3, <1>0 DEF Diff, Names, RInv, Types
  <2> HIDE DEF row
  <2>5. /\ Types' /\ Chain' /\ import'[i] = row
        /\ Content(i)' = [import |-> i, revision |-> row.revision, base |-> row.base,
                          report |-> row.report, diff |-> row.diff]
        /\ \A j \in Imports \ {i} : import'[j] = import[j] /\ Content(j)' = Content(j)
    BY <2>1, <2>2, <2>4, OneRow
  <2>7. RowsReviewed'
    BY <1>3, <1>0, <2>1, <2>3, <2>4, <2>5 DEF Diff, RInv, RowsReviewed, UnderReview
  <2>8. SubmittedOnce'
    BY <1>3, <1>0, <2>1, <2>3, <2>4, <2>5 DEF Diff, RInv, SubmittedOnce, UnderReview
  <2>9. Unambiguous'
    BY <1>3, <1>0, <2>1, <2>3, <2>4, <2>5 DEF Diff, RInv, Unambiguous, SubmittedOnce, UnderReview
  <2> QED BY <2>5, <2>7, <2>8, <2>9 DEF RInv
<1>4. ASSUME Submit(m, i) PROVE RInv'
  <2> DEFINE row == [import[i] EXCEPT !.state = "IN_REVIEW"]
  <2>1. import[i].state = "DIFFED" /\ import' = [import EXCEPT ![i] = row]
    BY <1>4, <1>0 DEF Submit, Names
  <2>2. row \in ImportType
    BY <1>0 DEF ImportType, State
  <2>3. /\ row.state = "IN_REVIEW" /\ row.revision = import[i].revision /\ row.importer = import[i].importer
        /\ row.reviewer = import[i].reviewer /\ row.base = import[i].base /\ row.report = import[i].report
        /\ row.diff = import[i].diff /\ row.reviewed = import[i].reviewed
    BY <1>0 DEF ImportType
  <2>4. /\ UNCHANGED <<settings, publications>>
        /\ submitted \subseteq submitted' /\ submitted' \subseteq ContentType
        /\ approvals \subseteq approvals'
        /\ approvals' \subseteq [by : Members, named : Nat, content : ContentType]
    BY <1>4, <1>0 DEF Submit, Names, RInv, Types
  <2> HIDE DEF row
  <2>5. /\ Types' /\ Chain' /\ import'[i] = row
        /\ Content(i)' = [import |-> i, revision |-> row.revision, base |-> row.base,
                          report |-> row.report, diff |-> row.diff]
        /\ \A j \in Imports \ {i} : import'[j] = import[j] /\ Content(j)' = Content(j)
    BY <2>1, <2>2, <2>4, OneRow
  <2>6. Content(i)' = Content(i)
    BY <2>3, <2>5 DEF Content
  <2>7. RowsReviewed'
    BY <1>4, <1>0, <2>1, <2>3, <2>4, <2>5, <2>6 DEF Submit, RInv, RowsReviewed, UnderReview
  <2>8. SubmittedOnce'
    BY <1>4, <1>0, <2>1, <2>3, <2>4, <2>5, <2>6 DEF Submit, RInv, SubmittedOnce, UnderReview
  <2>9. Unambiguous'
    BY <1>4, <1>0, <2>1, <2>3, <2>4, <2>5, <2>6 DEF Submit, RInv, Unambiguous, SubmittedOnce, UnderReview
  <2> QED BY <2>5, <2>7, <2>8, <2>9 DEF RInv
<1>5. ASSUME Revise(m, i) PROVE RInv'
  <2> DEFINE row == [import[i] EXCEPT !.state = "DRAFT", !.revision = @ + 1, !.report = None,
                                !.diff = None, !.reviewer = None, !.reviewed = None]
  <2>1. import[i].state = "CHANGES_REQUIRED" /\ import' = [import EXCEPT ![i] = row]
    BY <1>5, <1>0 DEF Revise, Names
  <2>2. row \in ImportType
    <3>1. row = [import[i] EXCEPT !.state = "DRAFT", !.revision = import[i].revision + 1, !.report = None,
                                  !.diff = None, !.reviewer = None, !.reviewed = None]
      BY <1>0 DEF ImportType
    <3>2. import[i].revision + 1 \in Nat
      BY <1>0
    <3> QED BY <1>0, <3>1, <3>2 DEF ImportType, State
  <2>3. /\ row.state = "DRAFT" /\ row.revision = import[i].revision + 1 /\ row.importer = import[i].importer
        /\ row.reviewer = None /\ row.base = import[i].base /\ row.report = None
        /\ row.diff = None /\ row.reviewed = None
    BY <1>0 DEF ImportType
  <2>4. /\ UNCHANGED <<settings, publications>>
        /\ submitted \subseteq submitted' /\ submitted' \subseteq ContentType
        /\ approvals \subseteq approvals'
        /\ approvals' \subseteq [by : Members, named : Nat, content : ContentType]
    BY <1>5, <1>0 DEF Revise, Names, RInv, Types
  <2> HIDE DEF row
  <2>5. /\ Types' /\ Chain' /\ import'[i] = row
        /\ Content(i)' = [import |-> i, revision |-> row.revision, base |-> row.base,
                          report |-> row.report, diff |-> row.diff]
        /\ \A j \in Imports \ {i} : import'[j] = import[j] /\ Content(j)' = Content(j)
    BY <2>1, <2>2, <2>4, OneRow
  <2>7. RowsReviewed'
    BY <1>5, <1>0, <2>1, <2>3, <2>4, <2>5 DEF Revise, RInv, RowsReviewed, UnderReview
  <2>8. SubmittedOnce'
    BY <1>5, <1>0, <2>1, <2>3, <2>4, <2>5 DEF Revise, RInv, SubmittedOnce, UnderReview
  <2>9. Unambiguous'
    BY <1>5, <1>0, <2>1, <2>3, <2>4, <2>5 DEF Revise, RInv, Unambiguous, SubmittedOnce, UnderReview
  <2> QED BY <2>5, <2>7, <2>8, <2>9 DEF RInv
<1>6. ASSUME Review(m, i, "approve") PROVE RInv'
  <2> DEFINE row == [import[i] EXCEPT !.state = "APPROVED", !.reviewer = m, !.reviewed = Content(i)]
  <2>1. import[i].state = "IN_REVIEW" /\ import' = [import EXCEPT ![i] = row]
    BY <1>6, <1>0 DEF Review, Names
  <2>2. row \in ImportType
    BY <1>0 DEF ImportType, State
  <2>3. /\ row.state = "APPROVED" /\ row.revision = import[i].revision /\ row.importer = import[i].importer
        /\ row.reviewer = m /\ row.base = import[i].base /\ row.report = import[i].report
        /\ row.diff = import[i].diff /\ row.reviewed = Content(i)
    BY <1>0 DEF ImportType
  <2>4. /\ UNCHANGED <<settings, publications>>
        /\ submitted \subseteq submitted' /\ submitted' \subseteq ContentType
        /\ approvals \subseteq approvals'
        /\ approvals' \subseteq [by : Members, named : Nat, content : ContentType]
    BY <1>6, <1>0 DEF Review, Names, RInv, Types
  <2> HIDE DEF row
  <2>5. /\ Types' /\ Chain' /\ import'[i] = row
        /\ Content(i)' = [import |-> i, revision |-> row.revision, base |-> row.base,
                          report |-> row.report, diff |-> row.diff]
        /\ \A j \in Imports \ {i} : import'[j] = import[j] /\ Content(j)' = Content(j)
    BY <2>1, <2>2, <2>4, OneRow
  <2>6. Content(i)' = Content(i)
    BY <2>3, <2>5 DEF Content
  <2> DEFINE verdict == [by |-> m, named |-> import[i].revision, content |-> Content(i)]
  <2>9. /\ approvals' = approvals \cup {verdict} /\ submitted' = submitted
        /\ verdict.by = m /\ verdict.content = Content(i) /\ verdict.named = import[i].revision
        /\ import[i].importer # m /\ Content(i) \in submitted
    BY <1>6, <2>1 DEF Review, Names, OtherPerson, RInv, RowsReviewed, UnderReview
  <2> HIDE DEF verdict
  <2>10. \A j \in Imports : import'[j].importer = import[j].importer
    BY <2>3, <2>5
  <2>7. RowsReviewed'
    BY <1>0, <2>1, <2>3, <2>9, <2>5, <2>6 DEF RInv, RowsReviewed, UnderReview
  <2>8. SubmittedOnce'
    BY <1>0, <2>1, <2>3, <2>9, <2>5, <2>6 DEF RInv, SubmittedOnce, UnderReview
  <2>11. Unambiguous'
    <3>1. \A a \in approvals' : a \in approvals \/ a = verdict
      BY <2>9
    <3>2. \A a \in approvals : a.content \in ContentType
      BY <1>0
    <3> QED BY <1>0, <2>9, <2>10, <3>1, <3>2 DEF RInv, Unambiguous
  <2> QED BY <2>5, <2>7, <2>8, <2>11 DEF RInv
<1>7. ASSUME Review(m, i, "reject") PROVE RInv'
  <2> DEFINE row == [import[i] EXCEPT !.state = "CHANGES_REQUIRED", !.reviewer = m, !.reviewed = Content(i)]
  <2>1. import[i].state = "IN_REVIEW" /\ import' = [import EXCEPT ![i] = row]
    BY <1>7, <1>0 DEF Review, Names
  <2>2. row \in ImportType
    BY <1>0 DEF ImportType, State
  <2>3. /\ row.state = "CHANGES_REQUIRED" /\ row.revision = import[i].revision /\ row.importer = import[i].importer
        /\ row.reviewer = m /\ row.base = import[i].base /\ row.report = import[i].report
        /\ row.diff = import[i].diff /\ row.reviewed = Content(i)
    BY <1>0 DEF ImportType
  <2>4. /\ UNCHANGED <<settings, publications>>
        /\ submitted \subseteq submitted' /\ submitted' \subseteq ContentType
        /\ approvals \subseteq approvals'
        /\ approvals' \subseteq [by : Members, named : Nat, content : ContentType]
    BY <1>7, <1>0 DEF Review, Names, RInv, Types
  <2> HIDE DEF row
  <2>5. /\ Types' /\ Chain' /\ import'[i] = row
        /\ Content(i)' = [import |-> i, revision |-> row.revision, base |-> row.base,
                          report |-> row.report, diff |-> row.diff]
        /\ \A j \in Imports \ {i} : import'[j] = import[j] /\ Content(j)' = Content(j)
    BY <2>1, <2>2, <2>4, OneRow
  <2>6. Content(i)' = Content(i)
    BY <2>3, <2>5 DEF Content
  <2>7. RowsReviewed'
    BY <1>7, <1>0, <2>1, <2>3, <2>4, <2>5, <2>6 DEF Review, RInv, RowsReviewed, UnderReview
  <2>8. SubmittedOnce'
    BY <1>7, <1>0, <2>1, <2>3, <2>4, <2>5, <2>6 DEF Review, RInv, SubmittedOnce, UnderReview
  <2>9. Unambiguous'
    BY <1>7, <1>0, <2>1, <2>3, <2>4, <2>5, <2>6 DEF Review, OtherPerson, Names, RInv, Unambiguous, SubmittedOnce, UnderReview
  <2> QED BY <2>5, <2>7, <2>8, <2>9 DEF RInv
<1> QED BY <1>1, <1>2, <1>3, <1>4, <1>5, <1>6, <1>7

\* A publication extends the chain by the row as it was approved.
LEMMA PublishStep ==
    ASSUME RInv, NEW m \in Members, NEW i \in Imports, Publish(m, i)
    PROVE  RInv'
<1> DEFINE row == [import[i] EXCEPT !.state = "PUBLISHED"]
           new == [import |-> i, publisher |-> m, reviewer |-> import[i].reviewer,
                   content |-> Content(i), supersedes |-> settings.head]
<1>1. /\ import[i] \in ImportType /\ import[i].state = "APPROVED" /\ import[i].reviewer \in Members
      /\ import[i].base = settings.head /\ Content(i) \in ContentType
  BY RegistryAssumption DEF RInv, Types, Publish, Names, FreshBase, ImportType, Content, ContentType
<1>2. /\ import' = [import EXCEPT ![i] = row] /\ row \in ImportType
      /\ publications' = Append(publications, new)
      /\ settings' \in SettingsType
      /\ settings'.head = Len(publications) + 1
      /\ UNCHANGED <<approvals, submitted>>
  <2>1. import' = [import EXCEPT ![i] = row] /\ row \in ImportType
    BY <1>1 DEF RInv, Types, Publish, ImportType, State
  <2>2. /\ publications' = Append(publications, new)
        /\ settings' = [Bump(settings) EXCEPT !.head = Len(publications) + 1]
        /\ UNCHANGED <<approvals, submitted>>
    BY DEF Publish
  <2>3. Len(publications) \in Nat /\ settings \in SettingsType
    BY DEF RInv, Types
  <2>4. settings' = [enabled |-> settings.enabled, currency |-> settings.currency,
                     policy |-> settings.policy + 1, head |-> Len(publications) + 1]
    BY <2>2, <2>3 DEF Bump, SettingsType
  <2>5. settings.policy + 1 \in Nat /\ settings.enabled \in BOOLEAN /\ settings.currency \in {None, "IDR"}
    BY <2>3 DEF SettingsType
  <2>6. settings' \in SettingsType
    BY <2>3, <2>4, <2>5 DEF SettingsType
  <2> QED BY <2>1, <2>2, <2>4, <2>6
<1>3. new \in PublicationType
  BY <1>1 DEF RInv, Types, PublicationType, SettingsType
<1>4. Types'
  BY <1>2, <1>3 DEF RInv, Types
<1>5. /\ import'[i] = row
      /\ \A j \in Imports \ {i} : import'[j] = import[j]
      /\ \A j \in Imports : Content(j)' = Content(j)
  BY <1>2 DEF RInv, Types, Content, ImportType
<1>6. RowsReviewed' /\ SubmittedOnce' /\ Unambiguous'
  <2>1. RowsReviewed'
    BY <1>1, <1>2, <1>5 DEF RInv, RowsReviewed, UnderReview
  <2>2. SubmittedOnce'
    BY <1>1, <1>2, <1>5 DEF RInv, Types, SubmittedOnce, UnderReview, ContentType, ImportType
  <2>3. Unambiguous'
    BY <1>1, <1>2, <1>5 DEF RInv, Types, Unambiguous, ContentType, ImportType
  <2> QED BY <2>1, <2>2, <2>3
<1>7. Chain'
  <2>1. /\ Len(publications') = Len(publications) + 1
        /\ publications'[Len(publications) + 1] = new
        /\ \A k \in 1..Len(publications) : publications'[k] = publications[k]
    BY <1>2 DEF RInv, Types
  <2>2. \A k \in 1..Len(publications) : publications[k].import \in Imports \ {i}
    BY <1>1, OnePublication
  <2>3. new.supersedes = Len(publications)
    BY DEF RInv, Chain
  <2>4. /\ new.content.report = "VALID" /\ new.content.base = new.supersedes /\ new.content.diff = new.supersedes
        /\ new.content.import = new.import
        /\ \E a \in approvals : a.content = new.content /\ a.by = new.reviewer
    BY <1>1 DEF RInv, RowsReviewed, UnderReview, Content
  <2> HIDE DEF new
  <2>5. new.import = i /\ import'[i].state = "PUBLISHED"
    BY <1>1, <1>5 DEF new, ImportType
  <2>9. Len(publications) \in Nat
    BY DEF RInv, Types
  <2>6. ASSUME NEW k \in Nat, k = Len(publications) + 1 PROVE Link(k)'
    <3>1. k - 1 = Len(publications) /\ publications'[k] = new
      BY <2>1, <2>6, <2>9
    <3>2. \E a \in approvals' : a.content = new.content /\ a.by = new.reviewer
      BY <1>2, <2>4
    <3> QED BY <2>3, <2>4, <2>5, <3>1, <3>2 DEF Link
  <2>7. ASSUME NEW k \in 1..Len(publications) PROVE Link(k)'
    BY <1>2, <1>5, <2>1, <2>2 DEF RInv, Chain, Link
  <2>8. \A j \in 1..Len(publications) : publications'[j].import # new.import
    BY <2>1, <2>2, <2>5
  <2>10. \A k \in 1..Len(publications') : k \in 1..Len(publications) \/ k = Len(publications) + 1
    BY <2>1, <2>9
  <2>11. \A k \in 1..Len(publications') : Link(k)'
    BY <2>6, <2>7, <2>10
  <2>12. \A j, k \in 1..Len(publications') : publications'[j].import = publications'[k].import => j = k
    BY <2>1, <2>8, <2>10 DEF RInv, Chain
  <2>13. settings'.head = Len(publications')
    BY <1>2, <2>1
  <2> QED BY <2>11, <2>12, <2>13 DEF Chain
<1> QED BY <1>4, <1>6, <1>7 DEF RInv

\* The other requests leave imports and publications alone.
LEMMA OtherSteps ==
    ASSUME RInv, UNCHANGED <<import, publications, approvals, submitted>>,
           settings' \in SettingsType,
           settings'.head = settings.head
    PROVE  RInv'
BY DEF RInv, Types, RowsReviewed, SubmittedOnce, Unambiguous, Chain, Link, Content

\* Every step of the registry preserves the invariant.
LEMMA RegistryStepPreserves == RInv /\ [Next]_registryVars => RInv'
<1> SUFFICES ASSUME RInv, [Next]_registryVars PROVE RInv'
  OBVIOUS
<1>1. CASE UNCHANGED registryVars
  BY <1>1, OtherSteps DEF registryVars, RInv, Types
<1>2. CASE \E m \in Members : \/ Begin(m) \/ Refuse(m) \/ (\E k \in Permissions : Revoke(m, k))
  BY <1>2, OtherSteps DEF Begin, Refuse, Revoke, RInv, Types, SettingsType
<1>3. CASE \E m \in Members : \/ RecordCurrency(m) \/ (\E e \in BOOLEAN : SaveSettings(m, e))
  <2>1. /\ UNCHANGED <<import, publications, approvals, submitted>>
        /\ \/ settings' = [Bump(settings) EXCEPT !.currency = "IDR"]
           \/ \E e \in BOOLEAN : settings' = [Bump(settings) EXCEPT !.enabled = e]
    BY <1>3 DEF RecordCurrency, SaveSettings
  <2>2. settings \in SettingsType /\ settings.policy + 1 \in Nat
    BY DEF RInv, Types, SettingsType
  <2>3. \/ settings' = [enabled |-> settings.enabled, currency |-> "IDR",
                        policy |-> settings.policy + 1, head |-> settings.head]
        \/ \E e \in BOOLEAN : settings' = [enabled |-> e, currency |-> settings.currency,
                                           policy |-> settings.policy + 1, head |-> settings.head]
    BY <2>1, <2>2 DEF Bump, SettingsType
  <2>4. settings' \in SettingsType /\ settings'.head = settings.head
    BY <2>2, <2>3 DEF SettingsType
  <2> QED BY <2>1, <2>4, OtherSteps
<1>4. CASE Lapse
  BY <1>4, OtherSteps DEF Lapse, RInv, Types
<1>5. CASE \E m \in Members, i \in Imports : Publish(m, i)
  BY <1>5, PublishStep
<1>6. CASE \E m \in Members, i \in Imports :
             \/ Import(m, i) \/ Validate(m, i) \/ Diff(m, i) \/ Submit(m, i) \/ Revise(m, i)
             \/ Review(m, i, "approve") \/ Review(m, i, "reject")
  BY <1>6, ImportSteps
<1> QED BY <1>1, <1>2, <1>3, <1>4, <1>5, <1>6 DEF Next, WritesSettings, ReadsSettings

\* The invariant holds in every state the registry reaches.
THEOREM RegistryInvariant == Spec => []RInv
BY RegistryInit, RegistryStepPreserves, PTL DEF Spec

\* What is active was compared with its predecessor and approved, as it stands,
\* by somebody other than its importer (registry.go:292-389).
THEOREM EveryPublicationReviewed == Spec => []PublicationsReviewed
<1>1. RInv => PublicationsReviewed
  <2> SUFFICES ASSUME RInv PROVE PublicationsReviewed
    OBVIOUS
  <2>1. ASSUME NEW k \in 1..Len(publications) PROVE Reviewed(k)
    <3>1. PICK a \in approvals : a.content = publications[k].content /\ a.by = publications[k].reviewer
      BY DEF RInv, Chain, Link
    <3>2. a.by # import[publications[k].import].importer
      BY <3>1 DEF RInv, Chain, Link, Unambiguous
    <3> QED BY <3>1, <3>2 DEF RInv, Chain, Link, Reviewed
  <2>2. DOMAIN publications = 1..Len(publications)
    BY DEF RInv, Types
  <2> QED BY <2>1, <2>2 DEF RInv, Chain, PublicationsReviewed
<1> QED BY <1>1, RegistryInvariant, PTL

\* A verdict concerns the revision its reviewer named (registry.go:281-283).
THEOREM EveryApprovalAsSubmitted == Spec => []ApprovedAsSubmitted
<1>1. RInv => ApprovedAsSubmitted
  BY DEF RInv, Unambiguous, ApprovedAsSubmitted
<1> QED BY <1>1, RegistryInvariant, PTL

------------------------------------------------------------------------------

\* A client that waits to save has read settings that the policy revision names.
ReadsNamed ==
    /\ request = [m \in Members |-> request[m]]
    /\ \A m \in Members :
          request[m] # None /\ request[m].op = "save" =>
              /\ request[m].read \in SettingsType
              /\ request[m].read.policy <= settings.policy
              /\ request[m].read.policy = settings.policy => request[m].read = settings

\* A request that ends, with the settings unchanged or moved to a new revision.
LEMMA RequestEnds ==
    ASSUME RInv, ReadsNamed, NEW m \in Members, request' = [request EXCEPT ![m] = None],
           settings' = settings \/ settings'.policy = settings.policy + 1
    PROVE  ReadsNamed'
<1>1. /\ request' = [n \in Members |-> request'[n]] /\ request'[m] = None
      /\ \A n \in Members \ {m} : request'[n] = request[n]
  BY DEF ReadsNamed
<1>2. settings.policy \in Nat /\ \A n \in Members :
         request[n] # None /\ request[n].op = "save" => request[n].read.policy \in Nat
  BY DEF ReadsNamed, RInv, Types, SettingsType
<1> QED BY <1>1, <1>2 DEF ReadsNamed

\* What a step does to the settings: nothing, or one request moves the revision.
LEMMA SettingsSteps ==
    ASSUME RInv, [Next]_registryVars
    PROVE  \/ settings' = settings
           \/ \E m \in Members :
                 /\ request' = [request EXCEPT ![m] = None] /\ request[m] # None
                 /\ settings'.policy = settings.policy + 1
                 /\ request[m].op = "save" => UnchangedPolicy(m)
<1>1. settings \in SettingsType
  BY DEF RInv, Types
<1>2. ASSUME NEW m \in Members, NEW i \in Imports, Publish(m, i)
      PROVE  /\ request' = [request EXCEPT ![m] = None] /\ request[m] # None /\ request[m].op = "publish"
             /\ settings'.policy = settings.policy + 1
  BY <1>1, <1>2 DEF Publish, Names, Done, Bump, SettingsType
<1>3. ASSUME NEW m \in Members, RecordCurrency(m)
      PROVE  /\ request' = [request EXCEPT ![m] = None] /\ request[m] # None /\ request[m].op = "currency"
             /\ settings'.policy = settings.policy + 1
  BY <1>1, <1>3 DEF RecordCurrency, Done, Bump, SettingsType
<1>4. ASSUME NEW m \in Members, NEW e \in BOOLEAN, SaveSettings(m, e)
      PROVE  /\ request' = [request EXCEPT ![m] = None] /\ request[m] # None /\ UnchangedPolicy(m)
             /\ settings'.policy = settings.policy + 1
  BY <1>1, <1>4 DEF SaveSettings, Done, Bump, SettingsType
<1>5. ASSUME NEW m \in Members, ReadsSettings(m) PROVE settings' = settings
  BY <1>5 DEF ReadsSettings, Begin, Refuse, Import, Validate, Diff, Submit, Review, Revise
<1>6. Lapse \/ UNCHANGED registryVars \/ (\E m \in Members, k \in Permissions : Revoke(m, k)) => settings' = settings
  BY DEF Lapse, Revoke, registryVars
<1> QED BY <1>2, <1>3, <1>4, <1>5, <1>6 DEF Next, WritesSettings

\* Steps that end no request begin one or leave them alone.
LEMMA ReadsNamedStep == RInv /\ ReadsNamed /\ [Next]_registryVars => ReadsNamed'
<1> SUFFICES ASSUME RInv, ReadsNamed, [Next]_registryVars PROVE ReadsNamed'
  OBVIOUS
<1>1. ASSUME NEW m \in Members, Begin(m) PROVE ReadsNamed'
  <2>1. PICK r : /\ request' = [request EXCEPT ![m] = r] /\ settings' = settings
                 /\ r.op = "save" => r.read = settings
    <3>1. "save" \notin DOMAIN Key
      BY DEF Key
    <3>2. \A r \in ImportRequests : r.op \in DOMAIN Key
      BY DEF ImportRequests
    <3>3. CASE \E r \in ImportRequests : request' = [request EXCEPT ![m] = r]
      BY <1>1, <3>1, <3>2, <3>3 DEF Begin
    <3>4. CASE \E i \in Imports : request' = [request EXCEPT ![m] = [op |-> "import", on |-> i, named |-> 1]]
      <4>1. PICK i \in Imports : request' = [request EXCEPT ![m] = [op |-> "import", on |-> i, named |-> 1]]
        BY <3>4
      <4>2. settings' = settings
        BY <1>1 DEF Begin
      <4> DEFINE r0 == [op |-> "import", on |-> i, named |-> 1]
      <4>3. request' = [request EXCEPT ![m] = r0] /\ r0.op # "save"
        BY <4>1
      <4> HIDE DEF r0
      <4> QED BY <4>2, <4>3
    <3>5. CASE request' = [request EXCEPT ![m] = [op |-> "save", read |-> settings]]
      <4> DEFINE r0 == [op |-> "save", read |-> settings]
      <4>1. request' = [request EXCEPT ![m] = r0] /\ r0.read = settings /\ settings' = settings
        BY <1>1, <3>5 DEF Begin
      <4> HIDE DEF r0
      <4> QED BY <4>1
    <3>6. CASE request' = [request EXCEPT ![m] = [op |-> "currency"]]
      <4> DEFINE r0 == [op |-> "currency"]
      <4>1. request' = [request EXCEPT ![m] = r0] /\ r0.op # "save" /\ settings' = settings
        BY <1>1, <3>6 DEF Begin
      <4> HIDE DEF r0
      <4> QED BY <4>1
    <3> QED BY <1>1, <3>3, <3>4, <3>5, <3>6 DEF Begin
  <2>2. settings \in SettingsType /\ settings.policy <= settings.policy
    BY DEF RInv, Types, SettingsType
  <2>3. /\ request' = [n \in Members |-> request'[n]] /\ request'[m] = r
        /\ \A n \in Members \ {m} : request'[n] = request[n]
    BY <2>1 DEF ReadsNamed
  <2> QED BY <2>1, <2>2, <2>3 DEF ReadsNamed
<1>2. ASSUME settings' # settings PROVE ReadsNamed'
  BY <1>2, SettingsSteps, RequestEnds
<1>3. ASSUME NEW m \in Members, settings' = settings, request' = [request EXCEPT ![m] = None]
      PROVE  ReadsNamed'
  BY <1>3, RequestEnds
<1>4. ASSUME request' = request, settings' = settings PROVE ReadsNamed'
  BY <1>4 DEF ReadsNamed
<1>5. \/ \E m \in Members : Begin(m) \/ request' = [request EXCEPT ![m] = None]
      \/ request' = request
  <2>1. ASSUME NEW m \in Members, NEW i \in Imports,
               \/ Import(m, i) \/ Validate(m, i) \/ Diff(m, i) \/ Submit(m, i) \/ Revise(m, i) \/ Publish(m, i)
        PROVE  request' = [request EXCEPT ![m] = None]
    BY <2>1 DEF Import, Validate, Diff, Submit, Revise, Publish, Done
  <2>2. ASSUME NEW m \in Members, NEW i \in Imports, NEW v \in {"approve", "reject"}, Review(m, i, v)
        PROVE  request' = [request EXCEPT ![m] = None]
    BY <2>2 DEF Review, Done
  <2>3. ASSUME NEW m \in Members, RecordCurrency(m) \/ Refuse(m) \/ (\E e \in BOOLEAN : SaveSettings(m, e))
        PROVE  request' = [request EXCEPT ![m] = None]
    BY <2>3 DEF RecordCurrency, Refuse, SaveSettings, Done
  <2>4. Lapse \/ UNCHANGED registryVars \/ (\E m \in Members, k \in Permissions : Revoke(m, k)) => request' = request
    BY DEF Lapse, Revoke, registryVars
  <2> QED BY <2>1, <2>2, <2>3, <2>4 DEF Next, WritesSettings, ReadsSettings
<1> QED BY <1>1, <1>2, <1>3, <1>4, <1>5

\* Sending is only switched over the settings its administrator has read: the
\* policy revision names them, because every other request moves it
\* (operations.go:92-98).
THEOREM SettingsNotLost == Spec => SavedOverWhatWasRead
<1>1. Init => ReadsNamed
  BY DEF Init, ReadsNamed
<1>2. ASSUME RInv, ReadsNamed, [Next]_registryVars, NEW m \in Members,
             request[m] # None, request[m].op = "save", settings' # settings, request'[m] = None
      PROVE  settings = request[m].read
  <2>1. PICK n \in Members : /\ request' = [request EXCEPT ![n] = None]
                             /\ request[n].op = "save" => UnchangedPolicy(n)
    BY <1>2, SettingsSteps
  <2>2. n = m
    BY <1>2, <2>1 DEF ReadsNamed
  <2> QED BY <1>2, <2>1, <2>2 DEF ReadsNamed, UnchangedPolicy
<1>3. RInv /\ ReadsNamed /\ [Next]_registryVars =>
        [\A m \in Members :
            request[m] # None /\ request[m].op = "save" /\ settings' # settings /\ request'[m] = None
              => settings = request[m].read]_registryVars
  BY <1>2
<1> QED BY <1>1, <1>3, RegistryInvariant, ReadsNamedStep, PTL DEF Spec, SavedOverWhatWasRead

------------------------------------------------------------------------------
(* The procedures: Evaluate *)

\* Instants are numbers, what is not known is Nil, and facts are true or false.
GuardInput(x) ==
    /\ x.now \in Int /\ x.reviewAt \in Int
    /\ x.windowExpiry \in Int \cup {Nil} /\ x.deliveryLatest \in Int \cup {Nil}
    /\ x.policyFrom \in Int \cup {Nil} /\ x.policyTo \in Int \cup {Nil}
    /\ x.authorized \in BOOLEAN /\ x.sendingEnabled \in BOOLEAN
    /\ x.suppressed \in BOOLEAN /\ x.trustedWindow \in BOOLEAN

\* One interval, priced at zero by a policy.
Zero(from, to) == [from |-> from, to |-> to, unit |-> 0, zero |-> TRUE]

\* The least number of a set.
LEMMA LeastNatural ==
    ASSUME NEW S, S \subseteq Nat, S # {}
    PROVE  \E n \in S : \A m \in S : n <= m
<1>1. \E n \in S : \A m \in S : ~(<<m, n>> \in OpToRel(<, Nat))
    BY NatLessThanWellFounded, WFMin
<1>2. PICK n \in S : \A m \in S : ~(<<m, n>> \in OpToRel(<, Nat)) BY <1>1
<1>3. ASSUME NEW m \in S PROVE n <= m
    <2>1. m \in Nat /\ n \in Nat OBVIOUS
    <2>2. ~(m < n) BY <1>2, <2>1 DEF OpToRel
    <2> QED BY <2>1, <2>2
<1> QED BY <1>3

LEMMA SameCardinality == ASSUME NEW S PROVE G!Cardinality(S) = Cardinality(S)
BY DEF G!Cardinality, Cardinality

LEMMA OneInterval ==
    ASSUME NEW p PROVE G!SortedByStart({p}) = {<<p>>}
<1>1. G!Cardinality({p}) = 1 BY FS_Singleton, SameCardinality
<1>2. 1..1 = {1} OBVIOUS
<1>3. ASSUME NEW s \in [1..1 -> {p}] PROVE s = <<p>>
    BY <1>2
<1>4. <<p>> \in [1..1 -> {p}] OBVIOUS
<1>5. ASSUME NEW j \in DOMAIN <<p>>, NEW k \in DOMAIN <<p>>
      PROVE  ~(j # k) /\ ~(j < k)
    OBVIOUS
<1> DEFINE Sorts == {s \in [1..G!Cardinality({p}) -> {p}] :
                       /\ \A j, k \in DOMAIN s : j # k => s[j] # s[k]
                       /\ \A j, k \in DOMAIN s : j < k => s[j].from <= s[k].from}
<1>6. G!SortedByStart({p}) = Sorts BY DEF G!SortedByStart
<1>7. <<p>> \in Sorts BY <1>1, <1>4, <1>5
<1>8. \A s \in Sorts : s = <<p>> BY <1>1, <1>3
<1> HIDE DEF Sorts
<1> QED BY <1>6, <1>7, <1>8

LEMMA NoInterval == G!SortedByStart({}) = {<<>>}
<1>1. G!Cardinality({}) = 0 BY FS_EmptySet, SameCardinality
<1>2. 1..0 = {} OBVIOUS
<1>3. ASSUME NEW s \in [1..0 -> {}] PROVE s = <<>>
    BY <1>2
<1>4. <<>> \in [1..0 -> {}] OBVIOUS
<1>5. DOMAIN <<>> = {} OBVIOUS
<1> DEFINE Sorts == {s \in [1..G!Cardinality({}) -> {}] :
                       /\ \A j, k \in DOMAIN s : j # k => s[j] # s[k]
                       /\ \A j, k \in DOMAIN s : j < k => s[j].from <= s[k].from}
<1>6. G!SortedByStart({}) = Sorts BY DEF G!SortedByStart
<1>7. <<>> \in Sorts BY <1>1, <1>4, <1>5
<1>8. \A s \in Sorts : s = <<>> BY <1>1, <1>3
<1> HIDE DEF Sorts
<1> QED BY <1>6, <1>7, <1>8

LEMMA UpTo == \A n \in Nat : 1..n \subseteq Nat
OBVIOUS

\* The two outcomes of a walk.
LEMMA WalkFaulty ==
    ASSUME NEW s, NEW a, NEW e, Len(s) \in Nat, NEW k \in 1..Len(s), G!IntervalFault(s, k, a) # ""
    PROVE  \E j \in 1..Len(s) : /\ G!IntervalFault(s, j, a) # ""
                               /\ G!Walk(s, a, e) = G!PricingError(G!IntervalFault(s, j, a))
<1> DEFINE faulty == {j \in 1..Len(s) : G!IntervalFault(s, j, a) # ""}
<1>1. \E j \in faulty : \A i \in faulty : j <= i
    <2>1. k \in faulty OBVIOUS
    <2>2. faulty \subseteq Nat
        BY UpTo
    <2> HIDE DEF faulty
    <2> QED BY <2>1, <2>2, LeastNatural
<1> DEFINE first == CHOOSE j \in faulty : \A i \in faulty : j <= i
<1>2. first \in faulty
    <2> HIDE DEF faulty
    <2> QED BY <1>1
<1>3. G!Walk(s, a, e) = G!PricingError(G!IntervalFault(s, first, a))
    BY <1>2 DEF G!Walk
<1> HIDE DEF first
<1> QED BY <1>2, <1>3

LEMMA WalkShort ==
    ASSUME NEW s, NEW a, NEW e, \A k \in 1..Len(s) : G!IntervalFault(s, k, a) = "",
           (IF Len(s) = 0 THEN a ELSE s[Len(s)].to) <= e
    PROVE  G!Walk(s, a, e) = G!PricingError("PRICING_HORIZON_NOT_FULLY_COVERED")
<1>1. {k \in 1..Len(s) : G!IntervalFault(s, k, a) # ""} = {} OBVIOUS
<1> QED BY <1>1 DEF G!Walk

Units(s) == {s[k].unit : k \in 1..Len(s)} \cup {0}

LEMMA WalkThrough ==
    ASSUME NEW s, NEW a, NEW e, \A k \in 1..Len(s) : G!IntervalFault(s, k, a) = "",
           ~((IF Len(s) = 0 THEN a ELSE s[Len(s)].to) <= e)
    PROVE  G!Walk(s, a, e) = [error |-> "",
                              maximum |-> CHOOSE u \in Units(s) : \A v \in Units(s) : v <= u]
<1>1. {k \in 1..Len(s) : G!IntervalFault(s, k, a) # ""} = {} OBVIOUS
<1> QED BY <1>1 DEF G!Walk, Units

\* The horizon is covered by one policy exactly when it is in force from the first
\* instant to the last.
LEMMA HorizonOfOne ==
    ASSUME NEW now \in Int, NEW latest \in Int, NEW from \in Int, NEW to \in Int, NEW r,
           r \in G!IntervalMaximum(now, latest, {Zero(from, to)})
    PROVE  (r.error = "") <=> (now <= latest /\ from <= now /\ latest < to)
<1> DEFINE p == Zero(from, to)
<1>1. p.from = from /\ p.to = to /\ p.unit = 0 /\ p.zero = TRUE BY DEF Zero
<1>2. CASE latest < now \/ ~(to > from)
    <2>1. now = Nil \/ latest < now \/ \E q \in {p} : ~G!WellFormed(q)
        BY <1>1, <1>2, ProceduresAssumption DEF G!WellFormed
    <2>2. r = G!PricingError("PRICING_HORIZON_NOT_FULLY_COVERED") BY <2>1 DEF G!IntervalMaximum
    <2>3. r.error # "" BY <2>2 DEF G!PricingError
    <2>4. ~(now <= latest /\ from <= now /\ latest < to) BY <1>2
    <2> QED BY <2>3, <2>4, Zenon
<1>3. CASE now <= latest /\ to > from
    <2>1. ~(now = Nil \/ latest < now \/ \E q \in {p} : ~G!WellFormed(q))
        BY <1>1, <1>3, ProceduresAssumption DEF G!WellFormed
    <2>2. r \in {G!Walk(s, now, latest) : s \in G!SortedByStart({q \in {p} : G!Meets(q, now, latest)})}
        BY <2>1 DEF G!IntervalMaximum
    <2>3. CASE ~G!Meets(p, now, latest)
        <3>1. {q \in {p} : G!Meets(q, now, latest)} = {} BY <2>3
        <3>2. r = G!Walk(<<>>, now, latest) BY <2>2, <3>1, NoInterval
        <3>3. r = G!PricingError("PRICING_HORIZON_NOT_FULLY_COVERED")
            <4>1. Len(<<>>) = 0 /\ 1..0 = {} OBVIOUS
            <4>2. \A k \in 1..Len(<<>>) : G!IntervalFault(<<>>, k, now) = "" BY <4>1
            <4>3. (IF Len(<<>>) = 0 THEN now ELSE <<>>[Len(<<>>)].to) <= latest BY <1>3, <4>1
            <4> QED BY <3>2, <4>2, <4>3, WalkShort
        <3> QED BY <1>1, <1>3, <2>3, <3>3 DEF G!Meets, G!PricingError
    <2>4. CASE G!Meets(p, now, latest)
        <3>1. {q \in {p} : G!Meets(q, now, latest)} = {p} BY <2>4
        <3>2. r = G!Walk(<<p>>, now, latest) BY <2>2, <3>1, OneInterval
        <3>3. 1..1 = {1} /\ Len(<<p>>) = 1 /\ <<p>>[1] = p OBVIOUS
        <3>4. G!IntervalFault(<<p>>, 1, now) = IF from > now THEN "PRICING_HORIZON_NOT_FULLY_COVERED" ELSE ""
            <4>1. 0 # Nil BY ProceduresAssumption
            <4> HIDE DEF p
            <4>2. CASE from > now BY <1>1, <3>3, <4>2 DEF G!IntervalFault
            <4>3. CASE ~(from > now) BY <1>1, <3>3, <4>1, <4>3 DEF G!IntervalFault
            <4> QED BY <4>2, <4>3
        <3> HIDE DEF p
        <3>5. CASE from > now
            <4>1. Len(<<p>>) \in Nat /\ 1 \in 1..Len(<<p>>) /\ G!IntervalFault(<<p>>, 1, now) # ""
                BY <3>3, <3>4, <3>5
            <4>2. PICK j \in 1..Len(<<p>>) : /\ G!IntervalFault(<<p>>, j, now) # ""
                                            /\ r = G!PricingError(G!IntervalFault(<<p>>, j, now))
                BY <3>2, <4>1, WalkFaulty
            <4>3. r.error # "" BY <4>2 DEF G!PricingError
            <4>4. ~(from <= now) BY <3>5
            <4> QED BY <4>3, <4>4, Zenon
        <3>6. CASE ~(from > now)
            <4>1. \A k \in 1..Len(<<p>>) : G!IntervalFault(<<p>>, k, now) = "" BY <3>3, <3>4, <3>6
            <4>2. (IF Len(<<p>>) = 0 THEN now ELSE <<p>>[Len(<<p>>)].to) = to BY <1>1, <3>3
            <4>3. ASSUME to <= latest PROVE r.error # ""
                <5>1. r = G!PricingError("PRICING_HORIZON_NOT_FULLY_COVERED")
                    BY <3>2, <4>1, <4>2, <4>3, WalkShort
                <5> QED BY <5>1 DEF G!PricingError
            <4>4. ASSUME ~(to <= latest) PROVE r.error = ""
                <5>1. PICK m : r = [error |-> "", maximum |-> m]
                    BY <3>2, <4>1, <4>2, <4>4, WalkThrough
                <5> QED BY <5>1
            <4>5. now <= latest /\ from <= now /\ (to <= latest <=> ~(latest < to)) BY <1>3, <3>6
            <4> QED BY <4>3, <4>4, <4>5, Zenon
        <3> QED BY <3>5, <3>6
    <2> QED BY <2>3, <2>4
<1>4. (latest < now \/ ~(to > from)) \/ (now <= latest /\ to > from) OBVIOUS
<1> QED BY <1>2, <1>3, <1>4, Zenon

LEMMA HorizonVerdict ==
    ASSUME NEW x, GuardInput(x), x.policyFrom # Nil, x.policyTo # Nil, x.deliveryLatest # Nil
    PROVE  G!HorizonError(x) = "" <=>
             x.now <= x.deliveryLatest /\ x.policyFrom <= x.now /\ x.deliveryLatest < x.policyTo
<1> DEFINE R == G!IntervalMaximum(x.now, x.deliveryLatest, {Zero(x.policyFrom, x.policyTo)})
<1>1. x.now \in Int /\ x.deliveryLatest \in Int /\ x.policyFrom \in Int /\ x.policyTo \in Int
    BY DEF GuardInput
<1>2. R # {}
    <2>1. \A I : I = {} \/ I = {Zero(x.policyFrom, x.policyTo)} => G!SortedByStart(I) # {}
        BY NoInterval, OneInterval
    <2>2. {q \in {Zero(x.policyFrom, x.policyTo)} : G!Meets(q, x.now, x.deliveryLatest)} = {}
          \/ {q \in {Zero(x.policyFrom, x.policyTo)} : G!Meets(q, x.now, x.deliveryLatest)}
                = {Zero(x.policyFrom, x.policyTo)}
        OBVIOUS
    <2> QED BY <2>1, <2>2 DEF G!IntervalMaximum
<1>3. G!HorizonError(x) = (CHOOSE r \in R : TRUE).error BY DEF G!HorizonError, Zero
<1>4. (CHOOSE r \in R : TRUE) \in R BY <1>2
<1>5. ASSUME NEW r \in R
      PROVE  (r.error = "") <=>
               (x.now <= x.deliveryLatest /\ x.policyFrom <= x.now /\ x.deliveryLatest < x.policyTo)
    <2> DEFINE from == x.policyFrom
               to == x.policyTo
               now == x.now
               latest == x.deliveryLatest
    <2>1. r \in G!IntervalMaximum(now, latest, {Zero(from, to)}) OBVIOUS
    <2>2. now \in Int /\ latest \in Int /\ from \in Int /\ to \in Int BY <1>1
    <2> HIDE DEF R, from, to, now, latest
    <2>3. (r.error = "") <=> (now <= latest /\ from <= now /\ latest < to)
        BY <2>1, <2>2, HorizonOfOne
    <2> QED BY <2>3 DEF from, to, now, latest
<1> HIDE DEF R
<1> QED BY <1>3, <1>4, <1>5

\* What none of the denials applies to.
Clear(x) ==
    /\ x.authorized /\ x.sendingEnabled /\ ~x.suppressed
    /\ x.expectedAssignment = x.assignment /\ x.handoff # "BOT"
    /\ ~G!Paid(x)
    /\ G!Window(x) # "UNKNOWN" /\ ~G!WindowTooShort(x)
    /\ x.policyFrom # Nil /\ x.policyTo # Nil /\ x.now >= x.policyFrom /\ x.now < x.policyTo
    /\ ~G!ReviewOverdue(x)
    /\ x.deliveryLatest # Nil /\ G!HorizonError(x) = ""

LEMMA AllowedWhenClear ==
    ASSUME NEW x, GuardInput(x)
    PROVE  G!Evaluate(x).allowed <=> Clear(x)
<1>1. G!Evaluate(x).allowed <=> G!Denials(x) = {} BY DEF G!Evaluate
<1>2. G!Denials(x) = {} <=> \A k \in 1..12 : ~G!Applies(G!DenialOrder[k], x)
    BY DEF G!Denials, G!DenialOrder
<1>3. (\A k \in 1..12 : ~G!Applies(G!DenialOrder[k], x)) <=>
         /\ ~G!Applies("PERMISSION_DENIED", x) /\ ~G!Applies("SENDING_DISABLED", x)
         /\ ~G!Applies("RECIPIENT_SUPPRESSED", x) /\ ~G!Applies("ASSIGNMENT_CHANGED", x)
         /\ ~G!Applies("HANDOFF_CONFLICT", x) /\ ~G!Applies("BILLING_CURRENCY_UNVERIFIED", x)
         /\ ~G!Applies("PAID_TEMPLATE_AUTHORITY_CLOSED", x) /\ ~G!Applies("SERVICE_WINDOW_UNKNOWN", x)
         /\ ~G!Applies("TEMPLATE_REQUIRED", x) /\ ~G!Applies("PRICING_COVERAGE_MISSING", x)
         /\ ~G!Applies("PRICING_POLICY_REVIEW_OVERDUE", x)
         /\ ~G!Applies("PRICING_HORIZON_NOT_FULLY_COVERED", x)
    <2>1. 1..12 = {1, 2, 3, 4, 5, 6, 7, 8, 9, 10, 11, 12} OBVIOUS
    <2> QED BY <2>1 DEF G!DenialOrder
<1>4. /\ G!Applies("PERMISSION_DENIED", x) <=> ~x.authorized
      /\ G!Applies("SENDING_DISABLED", x) <=> ~x.sendingEnabled
      /\ G!Applies("RECIPIENT_SUPPRESSED", x) <=> x.suppressed
      /\ G!Applies("ASSIGNMENT_CHANGED", x) <=> x.expectedAssignment # x.assignment
      /\ G!Applies("HANDOFF_CONFLICT", x) <=> x.handoff = "BOT"
      /\ G!Applies("BILLING_CURRENCY_UNVERIFIED", x) => G!Paid(x)
      /\ G!Applies("PAID_TEMPLATE_AUTHORITY_CLOSED", x) <=> G!Paid(x)
      /\ G!Applies("SERVICE_WINDOW_UNKNOWN", x) <=> G!Window(x) = "UNKNOWN"
      /\ G!Applies("TEMPLATE_REQUIRED", x) <=> G!Window(x) # "UNKNOWN" /\ G!WindowTooShort(x)
      /\ G!Applies("PRICING_COVERAGE_MISSING", x) <=>
             \/ x.policyFrom = Nil \/ x.policyTo = Nil
             \/ x.now < x.policyFrom \/ x.now >= x.policyTo
      /\ G!Applies("PRICING_POLICY_REVIEW_OVERDUE", x) <=> G!ReviewOverdue(x)
      /\ G!Applies("PRICING_HORIZON_NOT_FULLY_COVERED", x) <=>
             x.deliveryLatest = Nil \/ G!HorizonError(x) # ""
    BY DEF G!Applies
<1>5. x.policyFrom # Nil /\ x.policyTo # Nil =>
         /\ (x.now < x.policyFrom) <=> ~(x.now >= x.policyFrom)
         /\ (x.now >= x.policyTo) <=> ~(x.now < x.policyTo)
    BY DEF GuardInput
<1> QED BY <1>1, <1>2, <1>3, <1>4, <1>5 DEF Clear

\* The window's state and its margin, instant by instant.
LEMMA WindowOpen ==
    ASSUME NEW x, GuardInput(x)
    PROVE  (G!Window(x) # "UNKNOWN" /\ ~G!WindowTooShort(x)) <=>
             (/\ x.trustedWindow /\ x.windowExpiry # Nil
              /\ \A t \in x.now .. x.now + Margin : t < x.windowExpiry)
<1>1. x.now \in Int /\ Margin \in Nat /\ x.windowExpiry \in Int \cup {Nil}
    BY ProceduresAssumption DEF GuardInput
<1>2. CASE ~x.trustedWindow \/ x.windowExpiry = Nil
    BY <1>2 DEF G!Window
<1>3. CASE x.trustedWindow /\ x.windowExpiry # Nil
    <2>1. x.windowExpiry \in Int BY <1>1, <1>3
    <2>2. G!Window(x) # "UNKNOWN"
        <3>1. G!Window(x) = CASE x.windowExpiry - x.now <= 0 -> "EXPIRED"
                              [] x.windowExpiry - x.now > 0 /\ x.windowExpiry - x.now <= WarnBefore -> "EXPIRING_SOON"
                              [] OTHER -> "ACTIVE"
            BY <1>3 DEF G!Window
        <3> QED BY <3>1
    <2>3. ~G!WindowTooShort(x) <=> x.now + Margin < x.windowExpiry
        BY <1>1, <2>1 DEF G!WindowTooShort
    <2>4. (\A t \in x.now .. x.now + Margin : t < x.windowExpiry) <=> x.now + Margin < x.windowExpiry
        BY <1>1, <2>1
    <2> QED BY <1>3, <2>2, <2>3, <2>4
<1> QED BY <1>2, <1>3

\* The policy is in force throughout exactly when it is at the ends that are compared.
LEMMA PolicyInForce ==
    ASSUME NEW x, GuardInput(x), x.policyFrom # Nil, x.policyTo # Nil, x.deliveryLatest # Nil
    PROVE  (x.now >= x.policyFrom /\ x.now < x.policyTo /\ G!HorizonError(x) = "") <=>
             (/\ x.now <= x.deliveryLatest
              /\ \A t \in x.now .. x.deliveryLatest : x.policyFrom <= t /\ t < x.policyTo)
<1>1. x.now \in Int /\ x.deliveryLatest \in Int /\ x.policyFrom \in Int /\ x.policyTo \in Int
    BY DEF GuardInput
<1>2. (x.now <= x.deliveryLatest /\ \A t \in x.now .. x.deliveryLatest : x.policyFrom <= t /\ t < x.policyTo)
        <=> (x.now <= x.deliveryLatest /\ x.policyFrom <= x.now /\ x.deliveryLatest < x.policyTo)
    BY <1>1
<1>3. x.now <= x.deliveryLatest /\ x.policyFrom <= x.now /\ x.deliveryLatest < x.policyTo
        => x.now >= x.policyFrom /\ x.now < x.policyTo
    BY <1>1
<1>4. (G!HorizonError(x) = "") <=>
        (x.now <= x.deliveryLatest /\ x.policyFrom <= x.now /\ x.deliveryLatest < x.policyTo)
    BY HorizonVerdict
<1> QED BY <1>2, <1>3, <1>4

\* Whatever the code may be given, Evaluate allows a send exactly when every instant
\* of its horizon is covered (guard.go:33-91).
THEOREM AllowedExactly == ASSUME in = Nil \/ GuardInput(in) PROVE AllowedIffCovered
<1> SUFFICES ASSUME GuardInput(in), in # Nil
             PROVE  AllowedIffCovered
    BY DEF AllowedIffCovered, G!AllowedIffCovered
<1>1. G!Evaluate(in).allowed <=> Clear(in) BY AllowedWhenClear
<1>2. in.now \in Int /\ in.reviewAt \in Int
    BY DEF GuardInput
<1>3. ~G!Paid(in) <=> (in.messageType = "TEXT" /\ in.category = "SERVICE") BY DEF G!Paid
<1>4. ~G!ReviewOverdue(in) <=> in.now < in.reviewAt BY <1>2 DEF G!ReviewOverdue
<1>5. (G!Window(in) # "UNKNOWN" /\ ~G!WindowTooShort(in)) <=>
             (/\ in.trustedWindow /\ in.windowExpiry # Nil
              /\ \A t \in in.now .. in.now + Margin : t < in.windowExpiry)
    BY WindowOpen
<1>6. in.policyFrom # Nil /\ in.policyTo # Nil /\ in.deliveryLatest # Nil =>
        ((in.now >= in.policyFrom /\ in.now < in.policyTo /\ G!HorizonError(in) = "") <=>
             (/\ in.now <= in.deliveryLatest
              /\ \A t \in in.now .. in.deliveryLatest : in.policyFrom <= t /\ t < in.policyTo))
    BY PolicyInForce
<1> QED BY <1>1, <1>3, <1>4, <1>5, <1>6, Zenon DEF AllowedIffCovered, G!AllowedIffCovered, Clear

------------------------------------------------------------------------------
(* The maximum of a horizon: intervals sorted by their starts, walked once. *)

Covers(p, t) == p.from <= t /\ t < p.to
Priced(p) == p.unit # Nil /\ (p.zero <=> p.unit = 0)

\* s lists the intervals M, which all meet the horizon a..e, by their starts.
Listing(s, n, M, a, e) ==
    /\ n \in Nat /\ a \in Int /\ e \in Int /\ a <= e
    /\ s \in [1..n -> M]
    /\ \A p \in M : \E k \in 1..n : s[k] = p
    /\ \A j, k \in 1..n : j # k => s[j] # s[k]
    /\ \A j, k \in 1..n : j < k => s[j].from <= s[k].from
    /\ \A p \in M : p.from \in Int /\ p.to \in Int /\ p.from < p.to /\ a < p.to /\ p.from <= e

\* The end of what is covered when the walk reaches its k-th interval.
Cursor(s, k, a) == IF k = 1 THEN a ELSE s[k-1].to

Gapless(s, n, a, e) ==
    /\ \A k \in 1..n : /\ s[k].from <= Cursor(s, k, a)
                       /\ k > 1 => Cursor(s, k, a) <= s[k].from
                       /\ Priced(s[k])
    /\ e < IF n = 0 THEN a ELSE s[n].to

CoveredOnce(M, a, e) ==
    \A t \in a..e : \E p \in M : {q \in M : Covers(q, t)} = {p} /\ Priced(p)

LEMMA ListedInterval ==
    ASSUME NEW s, NEW n, NEW M, NEW a, NEW e, Listing(s, n, M, a, e), NEW k \in 1..n
    PROVE  /\ s[k] \in M /\ s[k].from \in Int /\ s[k].to \in Int
           /\ s[k].from < s[k].to /\ a < s[k].to /\ s[k].from <= e
BY DEF Listing

\* An instant of the horizon at which an interval that meets it holds.
LEMMA MeetsHorizon ==
    ASSUME NEW M, NEW a \in Int, NEW e \in Int, a <= e, NEW p,
           p.from \in Int, p.to \in Int, p.from < p.to, a < p.to, p.from <= e
    PROVE  \E t \in a..e : Covers(p, t) /\ p.from <= t /\ (t = a \/ t = p.from)
<1>1. CASE p.from < a BY <1>1 DEF Covers
<1>2. CASE ~(p.from < a) BY <1>2 DEF Covers
<1> QED BY <1>1, <1>2

LEMMA GaplessCoversOnce ==
    ASSUME NEW s, NEW n, NEW M, NEW a, NEW e, Listing(s, n, M, a, e), Gapless(s, n, a, e)
    PROVE  CoveredOnce(M, a, e)
<1>1. n \in Nat /\ a \in Int /\ e \in Int /\ a <= e BY DEF Listing
<1>2. n >= 1 /\ s[n].to > e
    <2>1. n # 0 BY <1>1 DEF Gapless
    <2>2. n \in 1..n BY <1>1, <2>1
    <2>3. s[n].to \in Int BY <2>2, ListedInterval
    <2>4. e < s[n].to BY <2>1 DEF Gapless
    <2> QED BY <1>1, <2>1, <2>3, <2>4
<1> SUFFICES ASSUME NEW t \in a..e
             PROVE  \E p \in M : {q \in M : Covers(q, t)} = {p} /\ Priced(p)
    BY DEF CoveredOnce
<1>3. PICK k \in 1..n : s[k].to > t /\ \A j \in 1..n : s[j].to > t => k <= j
    <2> DEFINE K == {k \in 1..n : s[k].to > t}
    <2>1. n \in K
        <3>1. n \in 1..n BY <1>1, <1>2
        <3>2. s[n].to \in Int BY <3>1, ListedInterval
        <3> QED BY <1>1, <1>2, <3>1, <3>2
    <2>2. K \subseteq Nat BY <1>1, UpTo
    <2>3. \E k \in K : \A j \in K : k <= j
        <3> HIDE DEF K
        <3> QED BY <2>1, <2>2, LeastNatural
    <2> QED BY <2>3
<1>4. Covers(s[k], t)
    <2>1. s[k].from <= Cursor(s, k, a) /\ s[k].from \in Int /\ s[k].to \in Int BY ListedInterval DEF Gapless
    <2>2. CASE k = 1 BY <1>1, <1>3, <2>1, <2>2 DEF Cursor, Covers
    <2>3. CASE k # 1
        <3>1. k - 1 \in 1..n /\ ~(k <= k - 1) BY <1>1, <2>3
        <3>2. s[k-1].to \in Int /\ ~(s[k-1].to > t) BY <1>3, <3>1, ListedInterval
        <3> QED BY <1>1, <1>3, <2>1, <2>3, <3>2 DEF Cursor, Covers
    <2> QED BY <2>2, <2>3
<1>5. ASSUME NEW q \in M, Covers(q, t) PROVE q = s[k]
    <2>1. PICK j \in 1..n : q = s[j] BY DEF Listing
    <2>2. s[j].from \in Int /\ s[j].to \in Int /\ s[k].to \in Int BY ListedInterval
    <2>3. s[j].from <= t /\ s[j].to > t BY <1>5, <2>1, <2>2 DEF Covers
    <2>4. k <= j BY <1>3, <2>3
    <2>5. ASSUME k < j PROVE FALSE
        <3>1. k + 1 \in 1..n /\ k + 1 > 1 /\ k + 1 # 1 /\ (k + 1) - 1 = k /\ k + 1 <= j BY <1>1, <2>5
        <3>2. s[k].to <= s[k+1].from BY <3>1 DEF Gapless, Cursor
        <3>3. s[k+1].from <= s[j].from
            <4>1. CASE k + 1 = j BY <2>2, <4>1
            <4>2. CASE k + 1 < j BY <3>1, <4>2 DEF Listing
            <4> QED BY <3>1, <4>1, <4>2
        <3>4. s[k+1].from \in Int BY <3>1, ListedInterval
        <3> QED BY <1>3, <2>2, <2>3, <3>2, <3>3, <3>4
    <2>6. k = j BY <2>4, <2>5
    <2> QED BY <2>1, <2>6
<1>6. s[k] \in M /\ Priced(s[k]) BY ListedInterval DEF Gapless
<1>7. {q \in M : Covers(q, t)} = {s[k]} BY <1>4, <1>5, <1>6
<1> QED BY <1>6, <1>7

LEMMA CoveredOnceIsGapless ==
    ASSUME NEW s, NEW n, NEW M, NEW a, NEW e, Listing(s, n, M, a, e), CoveredOnce(M, a, e)
    PROVE  Gapless(s, n, a, e)
<1>1. n \in Nat /\ a \in Int /\ e \in Int /\ a <= e BY DEF Listing
<1>2. ASSUME NEW t \in a..e PROVE \E j \in 1..n : Covers(s[j], t)
    BY <1>2 DEF CoveredOnce, Listing
<1>3. ASSUME NEW t \in a..e, NEW j \in 1..n, NEW k \in 1..n, Covers(s[j], t), Covers(s[k], t)
      PROVE  j = k
    BY <1>3 DEF CoveredOnce, Listing
<1>4. ASSUME NEW k \in 1..n PROVE Priced(s[k])
    <2>1. PICK t \in a..e : Covers(s[k], t) BY <1>1, ListedInterval, MeetsHorizon
    <2> QED BY <2>1, ListedInterval DEF CoveredOnce
<1>5. ASSUME NEW j \in 1..n, NEW k \in 1..n, j < k PROVE s[j].to <= s[k].from
    <2>1. PICK t \in a..e : Covers(s[k], t) /\ s[k].from <= t /\ (t = a \/ t = s[k].from)
        BY <1>1, ListedInterval, MeetsHorizon
    <2>2. s[j].from <= s[k].from BY <1>5 DEF Listing
    <2>3. s[j].from \in Int /\ s[j].to \in Int /\ s[k].from \in Int /\ a < s[j].to BY ListedInterval
    <2>4. ASSUME s[k].from < s[j].to PROVE FALSE
        <3>1. Covers(s[j], t) BY <2>1, <2>2, <2>3, <2>4 DEF Covers
        <3> QED BY <1>1, <1>3, <1>5, <2>1, <3>1
    <2> QED BY <2>3, <2>4
<1>6. ASSUME NEW k \in 1..n PROVE s[k].from <= Cursor(s, k, a)
    <2>1. CASE k = 1
        <3>1. PICK j \in 1..n : Covers(s[j], a) BY <1>1, <1>2
        <3>2. s[1].from <= s[j].from
            <4>1. CASE j = 1 BY <4>1, ListedInterval
            <4>2. CASE j # 1 BY <1>1, <2>1, <4>2 DEF Listing
            <4> QED BY <4>1, <4>2
        <3>3. s[1].from \in Int /\ s[j].from \in Int BY <2>1, ListedInterval
        <3> QED BY <1>1, <2>1, <3>1, <3>2, <3>3 DEF Cursor, Covers
    <2>2. CASE k # 1
        <3>1. k - 1 \in 1..n /\ k - 1 < k BY <1>1, <2>2
        <3> DEFINE t == s[k-1].to
        <3>2. t \in Int /\ a < t /\ s[k].from \in Int /\ s[k].from <= e
            BY <3>1, ListedInterval
        <3>3. ASSUME t < s[k].from PROVE FALSE
            <4>1. t \in a..e BY <1>1, <3>2, <3>3
            <4>2. PICK j \in 1..n : Covers(s[j], t) BY <1>2, <4>1
            <4>3. s[j].from \in Int /\ s[j].to \in Int /\ s[k-1].from \in Int /\ s[k-1].from < t
                BY <3>1, ListedInterval
            <4>4. CASE j < k - 1
                <5>1. s[j].to <= s[k-1].from BY <1>5, <3>1, <4>4
                <5> QED BY <3>2, <4>2, <4>3, <5>1 DEF Covers
            <4>5. CASE j = k - 1 BY <3>2, <4>2, <4>5 DEF Covers
            <4>6. CASE j = k BY <3>2, <3>3, <4>2, <4>6 DEF Covers
            <4>7. CASE j > k
                <5>1. s[k].from <= s[j].from BY <4>7 DEF Listing
                <5> QED BY <3>2, <3>3, <4>2, <4>3, <5>1 DEF Covers
            <4> QED BY <1>1, <4>4, <4>5, <4>6, <4>7
        <3>4. s[k].from <= t BY <3>2, <3>3
        <3> QED BY <2>2, <3>4 DEF Cursor
    <2> QED BY <2>1, <2>2
<1>7. ASSUME NEW k \in 1..n, k > 1 PROVE Cursor(s, k, a) <= s[k].from
    <2>1. k - 1 \in 1..n /\ k - 1 < k /\ k # 1 BY <1>1, <1>7
    <2> QED BY <1>5, <2>1 DEF Cursor
<1>8. n # 0 /\ e < s[n].to
    <2>1. PICK j \in 1..n : Covers(s[j], e) BY <1>1, <1>2
    <2>2. n \in 1..n BY <1>1
    <2>3. s[j].to \in Int /\ s[n].to \in Int /\ s[n].from \in Int /\ s[n].from < s[n].to
        BY <2>2, ListedInterval
    <2>4. CASE j = n BY <1>1, <2>1, <2>4 DEF Covers
    <2>5. CASE j < n
        <3>1. s[j].to <= s[n].from BY <1>5, <2>2, <2>5
        <3> QED BY <1>1, <2>1, <2>2, <2>3, <3>1 DEF Covers
    <2> QED BY <1>1, <2>4, <2>5
<1> QED BY <1>4, <1>6, <1>7, <1>8 DEF Gapless

\* A list that the sorter may return.
LEMMA SorterLists ==
    ASSUME NEW M, IsFiniteSet(M), NEW s \in G!SortedByStart(M)
    PROVE  /\ Len(s) \in Nat /\ s \in [1..Len(s) -> M]
           /\ \A p \in M : \E k \in 1..Len(s) : s[k] = p
           /\ \A j, k \in 1..Len(s) : j # k => s[j] # s[k]
           /\ \A j, k \in 1..Len(s) : j < k => s[j].from <= s[k].from
<1> DEFINE n == Cardinality(M)
<1>1. n \in Nat BY FS_CardinalityType
<1>2. /\ s \in [1..n -> M]
      /\ \A j, k \in DOMAIN s : j # k => s[j] # s[k]
      /\ \A j, k \in DOMAIN s : j < k => s[j].from <= s[k].from
    BY SameCardinality DEF G!SortedByStart
<1> HIDE DEF n
<1>3. DOMAIN s = 1..n /\ Len(s) = n BY <1>1, <1>2
<1>4. s \in Injection(1..n, M) BY <1>2, <1>3 DEF Injection, IsInjective
<1>5. s \in Surjection(1..n, M)
    <2>1. Cardinality(1..n) = n BY <1>1, FS_Interval
    <2>2. Cardinality(1..n) = Cardinality(M) BY <2>1 DEF n
    <2> QED BY <1>4, <2>2, FS_Injection
<1>6. \A p \in M : \E k \in 1..n : s[k] = p BY <1>5 DEF Surjection
<1> QED BY <1>1, <1>2, <1>3, <1>6

\* One interval passes its tests exactly when it continues what is covered and is priced.
LEMMA NoFault ==
    ASSUME NEW s, NEW k \in Nat, NEW a \in Int, k >= 1,
           s[k].from \in Int, s[k].unit \in Nat \cup {Nil}, s[k].zero \in BOOLEAN,
           k # 1 => s[k-1].to \in Int
    PROVE  (G!IntervalFault(s, k, a) = "") <=>
             (/\ s[k].from <= Cursor(s, k, a)
              /\ k > 1 => Cursor(s, k, a) <= s[k].from
              /\ Priced(s[k]))
<1>1. PICK c \in Int : c = Cursor(s, k, a) BY DEF Cursor
<1> DEFINE p == s[k]
<1>2. G!IntervalFault(s, k, a) =
        CASE p.from > c -> "PRICING_HORIZON_NOT_FULLY_COVERED"
          [] k > 1 /\ p.from < c -> "PRICING_INTERVAL_CONFLICT"
          [] p.unit = Nil -> "PRICING_HORIZON_NOT_FULLY_COVERED"
          [] p.unit = 0 /\ ~p.zero -> "PRICING_HORIZON_NOT_FULLY_COVERED"
          [] p.unit # 0 /\ p.zero -> "PRICING_INTERVAL_CONFLICT"
          [] OTHER -> ""
    BY <1>1 DEF G!IntervalFault, G!Overlaps, Cursor
<1>3. (G!IntervalFault(s, k, a) = "") <=>
        ~(\/ p.from > c \/ (k > 1 /\ p.from < c) \/ p.unit = Nil
          \/ (p.unit = 0 /\ ~p.zero) \/ (p.unit # 0 /\ p.zero))
    BY <1>2
<1>4. (p.from > c <=> ~(p.from <= c)) /\ (p.from < c <=> ~(c <= p.from))
    OBVIOUS
<1>5. Priced(p) <=> ~(p.unit = Nil \/ (p.unit = 0 /\ ~p.zero) \/ (p.unit # 0 /\ p.zero))
    BY DEF Priced
<1> QED BY <1>1, <1>3, <1>4, <1>5

\* The greatest of a list of prices, and zero.
LEMMA GreatestUnit ==
    ASSUME NEW s, Len(s) \in Nat, \A k \in 1..Len(s) : s[k].unit \in Nat
    PROVE  \E u \in Units(s) : \A v \in Units(s) : v <= u
<1> DEFINE n == Len(s)
           U(m) == {s[k].unit : k \in 1..m} \cup {0}
           Bad == {m \in 0..n : ~\E u \in U(m) : \A v \in U(m) : v <= u}
<1>1. ASSUME NEW m \in Bad, \A j \in Bad : m <= j PROVE FALSE
    <2>1. m \in 0..n /\ ~\E u \in U(m) : \A v \in U(m) : v <= u OBVIOUS
    <2>2. m # 0
        <3>1. U(0) = {0} OBVIOUS
        <3> QED BY <2>1, <3>1
    <2>3. m - 1 \in 0..n /\ m \in 1..n /\ ~(m <= m - 1) BY <2>1, <2>2
    <2>4. PICK u \in U(m - 1) : \A v \in U(m - 1) : v <= u
        <3>1. m - 1 \notin Bad
            <4> HIDE DEF Bad
            <4> QED BY <1>1, <2>3
        <3> QED BY <2>3, <3>1
    <2>5. U(m) = U(m - 1) \cup {s[m].unit}
        <3>1. 1..m = (1..(m - 1)) \cup {m} BY <2>3
        <3> QED BY <3>1
    <2>6. s[m].unit \in Nat /\ U(m - 1) \subseteq Nat BY <2>3
    <2> HIDE DEF U
    <2>7. CASE s[m].unit <= u BY <2>1, <2>4, <2>5, <2>7
    <2>8. CASE ~(s[m].unit <= u)
        <3>1. \A v \in U(m) : v <= s[m].unit BY <2>4, <2>5, <2>6, <2>8
        <3> QED BY <2>1, <2>5, <3>1
    <2> QED BY <2>7, <2>8
<1>2. Bad = {}
    <2>1. Bad \subseteq Nat OBVIOUS
    <2> HIDE DEF Bad
    <2> QED BY <1>1, <2>1, LeastNatural
<1>3. n \in 0..n OBVIOUS
<1>4. \E u \in U(n) : \A v \in U(n) : v <= u
    <2> HIDE DEF U
    <2> QED BY <1>2, <1>3
<1> QED BY <1>4 DEF Units

PriceInterval == [from : Int \cup {Nil}, to : Int \cup {Nil}, unit : Nat \cup {Nil}, zero : BOOLEAN]

\* Intervals of the code's types that are well formed and meet the horizon.
Relevant(M, a, e) ==
    /\ IsFiniteSet(M) /\ M \subseteq PriceInterval /\ a \in Int /\ e \in Int /\ a <= e
    /\ \A p \in M : p.from \in Int /\ p.to \in Int /\ p.from < p.to /\ a < p.to /\ p.from <= e

LEMMA RelevantListing ==
    ASSUME NEW M, NEW a, NEW e, Relevant(M, a, e), NEW s \in G!SortedByStart(M)
    PROVE  Listing(s, Len(s), M, a, e)
<1>1. IsFiniteSet(M) BY DEF Relevant
<1>2. /\ Len(s) \in Nat /\ s \in [1..Len(s) -> M]
      /\ \A p \in M : \E k \in 1..Len(s) : s[k] = p
      /\ \A j, k \in 1..Len(s) : j # k => s[j] # s[k]
      /\ \A j, k \in 1..Len(s) : j < k => s[j].from <= s[k].from
    BY <1>1, SorterLists
<1> QED BY <1>2 DEF Listing, Relevant

\* The last instant that the list covers without a gap is after e.
Reaches(s, a, e) == ~((IF Len(s) = 0 THEN a ELSE s[Len(s)].to) <= e)

LEMMA WalkRefuses ==
    ASSUME NEW s, NEW a, NEW e, Len(s) \in Nat,
           ~((\A k \in 1..Len(s) : G!IntervalFault(s, k, a) = "") /\ Reaches(s, a, e))
    PROVE  G!Walk(s, a, e).error # ""
<1>1. \A c : c # "" => G!PricingError(c).error # "" BY DEF G!PricingError
<1>2. CASE \E k \in 1..Len(s) : G!IntervalFault(s, k, a) # ""
    <2>1. PICK k \in 1..Len(s) : G!IntervalFault(s, k, a) # "" BY <1>2
    <2>2. PICK j \in 1..Len(s) : /\ G!IntervalFault(s, j, a) # ""
                                /\ G!Walk(s, a, e) = G!PricingError(G!IntervalFault(s, j, a))
        BY <2>1, WalkFaulty
    <2> QED BY <1>1, <2>2, Zenon
<1>3. CASE (\A k \in 1..Len(s) : G!IntervalFault(s, k, a) = "") /\ ~Reaches(s, a, e)
    <2>1. G!Walk(s, a, e) = G!PricingError("PRICING_HORIZON_NOT_FULLY_COVERED")
        BY <1>3, WalkShort DEF Reaches
    <2>2. "PRICING_HORIZON_NOT_FULLY_COVERED" # "" OBVIOUS
    <2> QED BY <1>1, <2>1, <2>2, Zenon
<1> QED BY <1>2, <1>3

LEMMA WalkReaches ==
    ASSUME NEW s, NEW a, NEW e, \A k \in 1..Len(s) : G!IntervalFault(s, k, a) = "", Reaches(s, a, e)
    PROVE  /\ G!Walk(s, a, e).error = ""
           /\ G!Walk(s, a, e).maximum = CHOOSE u \in Units(s) : \A v \in Units(s) : v <= u
<1>1. \A m : [error |-> "", maximum |-> m].error = "" /\ [error |-> "", maximum |-> m].maximum = m
    OBVIOUS
<1>2. G!Walk(s, a, e) = [error |-> "",
                         maximum |-> CHOOSE u \in Units(s) : \A v \in Units(s) : v <= u]
    BY WalkThrough DEF Reaches
<1> QED BY <1>1, <1>2, Zenon

\* The walk accepts exactly the lists without a gap, an overlap or a missing price.
LEMMA WalkAccepts ==
    ASSUME NEW M, NEW a, NEW e, Relevant(M, a, e), NEW s \in G!SortedByStart(M)
    PROVE  (G!Walk(s, a, e).error = "") <=> Gapless(s, Len(s), a, e)
<1> PICK n : n = Len(s) OBVIOUS
<1>1. Listing(s, n, M, a, e) BY RelevantListing
<1>2. n \in Nat /\ a \in Int /\ e \in Int BY <1>1 DEF Listing
<1>3. ASSUME NEW k \in 1..n
      PROVE  (G!IntervalFault(s, k, a) = "") <=>
               (/\ s[k].from <= Cursor(s, k, a)
                /\ k > 1 => Cursor(s, k, a) <= s[k].from
                /\ Priced(s[k]))
    <2>1. s[k] \in M /\ s[k].from \in Int BY <1>1, ListedInterval
    <2>2. s[k].unit \in Nat \cup {Nil} /\ s[k].zero \in BOOLEAN
        BY <2>1 DEF Relevant, PriceInterval
    <2>3. k # 1 => s[k-1].to \in Int
        <3>1. k # 1 => k - 1 \in 1..n BY <1>2
        <3> QED BY <1>1, <3>1, ListedInterval
    <2>4. k \in Nat /\ k >= 1 BY <1>2
    <2> QED BY <1>2, <2>1, <2>2, <2>3, <2>4, NoFault
<1>4. PICK reach \in Int : reach = IF n = 0 THEN a ELSE s[n].to
    <2>1. n # 0 => n \in 1..n BY <1>2
    <2> QED BY <1>1, <1>2, <2>1, ListedInterval
<1>5. Reaches(s, a, e) <=> e < reach
    <2>1. Reaches(s, a, e) <=> ~(reach <= e) BY <1>4 DEF Reaches
    <2>2. ~(reach <= e) <=> e < reach BY <1>2
    <2> QED BY <2>1, <2>2
<1>6. Gapless(s, n, a, e) <=> ((\A k \in 1..n : G!IntervalFault(s, k, a) = "") /\ Reaches(s, a, e))
    BY <1>3, <1>4, <1>5 DEF Gapless
<1>7. CASE Gapless(s, n, a, e) BY <1>6, <1>7, WalkReaches
<1>8. CASE ~Gapless(s, n, a, e)
    <2>1. ~((\A k \in 1..Len(s) : G!IntervalFault(s, k, a) = "") /\ Reaches(s, a, e)) BY <1>6, <1>8
    <2>2. G!Walk(s, a, e).error # "" BY <1>2, <2>1, WalkRefuses
    <2> QED BY <1>8, <2>2, Zenon
<1> QED BY <1>7, <1>8

LEMMA ZeroIsLeast == \A u \in Nat : u <= 0 => u = 0
OBVIOUS

LEMMA SomethingListed ==
    ASSUME NEW n \in Nat, NEW a \in Int, NEW e \in Int, a <= e, NEW x, e < IF n = 0 THEN a ELSE x
    PROVE  1 \in 1..n
OBVIOUS

\* An accepted walk returns the highest price of the list.
LEMMA WalkMaximum ==
    ASSUME NEW M, NEW a, NEW e, Relevant(M, a, e), NEW s \in G!SortedByStart(M),
           Gapless(s, Len(s), a, e)
    PROVE  \E p \in M : G!Walk(s, a, e).maximum = p.unit /\ \A q \in M : q.unit <= p.unit
<1> PICK n : n = Len(s) OBVIOUS
<1>1. Listing(s, n, M, a, e) BY RelevantListing
<1>2. n \in Nat /\ a \in Int /\ e \in Int /\ a <= e BY <1>1 DEF Listing
<1>3. Gapless(s, n, a, e) /\ G!Walk(s, a, e).error = "" BY WalkAccepts
<1>4. ASSUME NEW k \in 1..n PROVE s[k] \in M /\ s[k].unit \in Nat
    <2>1. s[k] \in M /\ s[k].unit # Nil BY <1>1, <1>3, ListedInterval DEF Gapless, Priced
    <2>2. M \subseteq PriceInterval BY DEF Relevant
    <2>3. \A p \in PriceInterval : p.unit \in Nat \cup {Nil} BY DEF PriceInterval
    <2> QED BY <2>1, <2>2, <2>3
<1>5. 1 \in 1..n
    <2>1. e < IF n = 0 THEN a ELSE s[n].to BY <1>3 DEF Gapless
    <2> QED BY <1>2, <2>1, SomethingListed
<1> PICK m : m = G!Walk(s, a, e).maximum OBVIOUS
<1>6. m = CHOOSE u \in Units(s) : \A v \in Units(s) : v <= u
    <2>1. (\A k \in 1..Len(s) : G!IntervalFault(s, k, a) = "") /\ Reaches(s, a, e)
        BY <1>2, <1>3, WalkRefuses
    <2> QED BY <2>1, WalkReaches
<1>7. \E u \in Units(s) : \A v \in Units(s) : v <= u BY <1>2, <1>4, GreatestUnit
<1>8. m \in Units(s) /\ \A v \in Units(s) : v <= m BY <1>6, <1>7
<1>9. \A k \in 1..n : s[k].unit \in Units(s) BY DEF Units
<1>10. \A p \in M : p.unit <= m
    <2> SUFFICES ASSUME NEW p \in M PROVE p.unit <= m
        OBVIOUS
    <2>1. PICK k \in 1..n : s[k] = p BY <1>1 DEF Listing
    <2> QED BY <1>8, <1>9, <2>1
<1>11. \E p \in M : m = p.unit
    <2>1. CASE m = 0
        <3>1. s[1].unit <= 0 /\ s[1].unit \in Nat /\ s[1] \in M BY <1>4, <1>5, <1>8, <1>9, <2>1
        <3> QED BY <2>1, <3>1, ZeroIsLeast
    <2>2. CASE m # 0
        <3>1. PICK k \in 1..n : m = s[k].unit BY <1>8, <2>2 DEF Units
        <3> QED BY <1>4, <3>1
    <2> QED BY <2>1, <2>2
<1> QED BY <1>10, <1>11

LEMMA WellFormedInterval ==
    ASSUME NEW p \in PriceInterval
    PROVE  G!WellFormed(p) <=> p.from \in Int /\ p.to \in Int /\ p.from < p.to
<1>1. p.from \in Int \cup {Nil} /\ p.to \in Int \cup {Nil} BY DEF PriceInterval
<1>2. p.from \in Int /\ p.to \in Int => (p.to > p.from <=> p.from < p.to) OBVIOUS
<1> QED BY <1>1, <1>2, ProceduresAssumption DEF G!WellFormed

\* Whatever well-typed intervals are published, intervalMaximum accepts exactly the
\* horizons of which every instant has one valid price, and returns the highest of
\* them, in whatever order the sorter leaves equal starts (exposure.go:49-88).
THEOREM MaximumFound ==
    ASSUME \/ intervals = Nil
           \/ /\ start \in Int /\ end \in Int
              /\ intervals \subseteq PriceInterval /\ IsFiniteSet(intervals)
    PROVE  MaximumIsExact
<1> SUFFICES ASSUME start \in Int, end \in Int, intervals \subseteq PriceInterval, IsFiniteSet(intervals)
             PROVE  MaximumIsExact
    BY DEF MaximumIsExact, G!MaximumIsExact
<1> PICK a \in Int : a = start OBVIOUS
<1> PICK e \in Int : e = end OBVIOUS
<1> DEFINE at(t) == {p \in intervals : p.from <= t /\ t < p.to}
           M == {p \in intervals : G!Meets(p, a, e)}
           exact == /\ a <= e
                    /\ \A p \in intervals : G!WellFormed(p)
                    /\ \A t \in a..e : \E p \in at(t) : at(t) = {p} /\ Priced(p)
           paid == {p.unit : p \in UNION {at(t) : t \in a..e}}
<1>1. ASSUME NEW r \in G!IntervalMaximum(a, e, intervals)
      PROVE  /\ r.error = "" <=> exact
             /\ r.error = "" => r.maximum \in paid /\ \A u \in paid : u <= r.maximum
    <2>1. CASE e < a \/ \E p \in intervals : ~G!WellFormed(p)
        <3>1. r = G!PricingError("PRICING_HORIZON_NOT_FULLY_COVERED")
            BY <2>1 DEF G!IntervalMaximum
        <3>2. r.error # "" BY <3>1 DEF G!PricingError
        <3>3. ~exact BY <2>1
        <3> QED BY <3>2, <3>3, Zenon
    <2>2. CASE a <= e /\ \A p \in intervals : G!WellFormed(p)
        <3>1. \A p \in intervals : p.from \in Int /\ p.to \in Int /\ p.from < p.to
            BY <2>2, WellFormedInterval
        <3>2. M \in SUBSET intervals /\ \A p \in M : a < p.to /\ p.from <= e
            BY <3>1 DEF G!Meets
        <3>3. Relevant(M, a, e)
            <4>1. IsFiniteSet(M) BY <3>2, FS_Subset
            <4> HIDE DEF M
            <4> QED BY <2>2, <3>1, <3>2, <4>1 DEF Relevant
        <3>4. \A t \in a..e : at(t) = {q \in M : Covers(q, t)}
            BY <3>1 DEF Covers, G!Meets
        <3>5. exact <=> CoveredOnce(M, a, e)
            BY <2>2, <3>4 DEF CoveredOnce
        <3>6. paid = {p.unit : p \in M}
            <4>1. ASSUME NEW p \in M PROVE \E t \in a..e : p \in at(t)
                <5>1. p.from \in Int /\ p.to \in Int /\ p.from < p.to /\ a < p.to /\ p.from <= e
                    BY <3>3 DEF Relevant
                <5>2. PICK t \in a..e : Covers(p, t) BY <2>2, <5>1, MeetsHorizon
                <5> QED BY <3>4, <5>2
            <4>2. UNION {at(t) : t \in a..e} = M BY <3>4, <4>1
            <4> QED BY <4>2
        <3>7. PICK s \in G!SortedByStart(M) : r = G!Walk(s, a, e)
            BY <2>2, ProceduresAssumption DEF G!IntervalMaximum
        <3> HIDE DEF M, exact, paid
        <3>8. Listing(s, Len(s), M, a, e) BY <3>3, RelevantListing
        <3>9. (r.error = "") <=> Gapless(s, Len(s), a, e) BY <3>3, <3>7, WalkAccepts
        <3>10. Gapless(s, Len(s), a, e) <=> CoveredOnce(M, a, e)
            BY <3>8, GaplessCoversOnce, CoveredOnceIsGapless
        <3>11. Gapless(s, Len(s), a, e) =>
                 \E p \in M : G!Walk(s, a, e).maximum = p.unit /\ \A q \in M : q.unit <= p.unit
            BY <3>3, WalkMaximum
        <3>12. Gapless(s, Len(s), a, e) => r.maximum \in paid /\ \A u \in paid : u <= r.maximum
            BY <3>6, <3>7, <3>11, Zenon
        <3> QED BY <3>5, <3>9, <3>10, <3>12, Zenon
    <2>3. e < a \/ a <= e OBVIOUS
    <2> HIDE DEF exact, paid
    <2> QED BY <2>1, <2>2, <2>3, Zenon
<1> QED BY <1>1 DEF MaximumIsExact, G!MaximumIsExact, G!Results, G!Accepted, Priced

\* The inputs that the runs give to Evaluate.
TriedInput ==
    [now : Int, authorized : BOOLEAN, sendingEnabled : BOOLEAN, suppressed : BOOLEAN,
     assignment : Int, expectedAssignment : Int, handoff : {"HUMAN", "BOT"},
     messageType : {"TEXT", "TEMPLATE"}, category : {"SERVICE"},
     currencyState : {"UNKNOWN", "VERIFIED"},
     windowExpiry : Int \cup {Nil}, trustedWindow : BOOLEAN,
     policyFrom : Int \cup {Nil}, policyTo : Int \cup {Nil},
     reviewAt : Int, ttl : Int \cup {Nil}, deliveryLatest : Int \cup {Nil}]

\* The inputs of both procedures are of the code's types, and stay so.
Inputs ==
    /\ in = Nil \/ in \in TriedInput
    /\ \/ intervals = Nil
       \/ /\ start \in Int /\ end \in Int
          /\ intervals \subseteq PriceInterval /\ IsFiniteSet(intervals)

LEMMA InputsRight == Inputs => AllowedIffCovered /\ MaximumIsExact
<1>1. \A x \in TriedInput : GuardInput(x) BY DEF TriedInput, GuardInput
<1> QED BY <1>1, AllowedExactly, MaximumFound DEF Inputs

LEMMA FactsAreInputs ==
    ASSUME NEW f \in G!FlagFacts, NEW k \in {<<"TEXT", "SERVICE">>, <<"TEMPLATE", "SERVICE">>},
           NEW cur \in {"UNKNOWN", "VERIFIED"}, NEW w \in Int \cup {Nil}, NEW tr \in BOOLEAN,
           NEW from \in Int \cup {Nil}, NEW to \in Int \cup {Nil}, NEW rev \in Int,
           NEW ttl \in Int \cup {Nil}
    PROVE  G!Facts(f, k, cur, w, tr, from, to, rev, ttl) \in TriedInput
<1> DEFINE F(a, s, x, n, h) == [authorized |-> a, sendingEnabled |-> s, suppressed |-> x,
                                assignment |-> n, expectedAssignment |-> 1, handoff |-> h]
<1>1. \E a \in BOOLEAN, s \in BOOLEAN, x \in BOOLEAN, n \in Int, h \in {"HUMAN", "BOT"} : f = F(a, s, x, n, h)
    <2>1. \/ f = F(TRUE, TRUE, FALSE, 1, "HUMAN") \/ f = F(FALSE, TRUE, FALSE, 1, "HUMAN")
          \/ f = F(TRUE, FALSE, FALSE, 1, "HUMAN") \/ f = F(TRUE, TRUE, TRUE, 1, "HUMAN")
          \/ f = F(TRUE, TRUE, FALSE, 2, "HUMAN") \/ f = F(TRUE, TRUE, FALSE, 1, "BOT")
        BY DEF G!FlagFacts
    <2>2. /\ 1 \in Int /\ 2 \in Int /\ "HUMAN" \in {"HUMAN", "BOT"} /\ "BOT" \in {"HUMAN", "BOT"}
          /\ TRUE \in BOOLEAN /\ FALSE \in BOOLEAN
        OBVIOUS
    <2> HIDE DEF F
    <2> QED BY <2>1, <2>2, Zenon
<1>2. k[1] \in {"TEXT", "TEMPLATE"} /\ k[2] \in {"SERVICE"}
    <2>1. k = <<"TEXT", "SERVICE">> \/ k = <<"TEMPLATE", "SERVICE">> OBVIOUS
    <2>2. CASE k = <<"TEXT", "SERVICE">> BY <2>2
    <2>3. CASE k = <<"TEMPLATE", "SERVICE">> BY <2>3
    <2> QED BY <2>1, <2>2, <2>3
<1>3. f.authorized \in BOOLEAN /\ f.sendingEnabled \in BOOLEAN /\ f.suppressed \in BOOLEAN
      /\ f.assignment \in Int /\ f.expectedAssignment \in Int /\ f.handoff \in {"HUMAN", "BOT"}
    BY <1>1
<1> QED BY <1>2, <1>3 DEF G!Facts, TriedInput

LEMMA InputsStart == PricingInit => Inputs
<1> SUFFICES ASSUME PricingInit PROVE Inputs
    OBVIOUS
<1>1. CASE in = Nil /\ intervals = Nil BY <1>1 DEF Inputs
<1>2. CASE G!EvaluateInit
    <2>1. /\ 0..MaxNow \subseteq Int /\ {Nil, 0, 1} \subseteq Int \cup {Nil}
          /\ {2, MaxNow, MaxNow + 3} \subseteq Int /\ {1, MaxNow - 1, MaxNow + 4} \subseteq Int
          /\ Horizons \subseteq Int \cup {Nil}
        BY ProceduresAssumption
    <2>2. PICK f \in G!FlagFacts, k \in {<<"TEXT", "SERVICE">>, <<"TEMPLATE", "SERVICE">>},
               cur \in {"UNKNOWN", "VERIFIED"}, w \in {Nil} \cup 0..MaxNow, tr \in BOOLEAN,
               from \in {Nil, 0, 1}, to \in {2, MaxNow, MaxNow + 3}, rev \in {1, MaxNow - 1, MaxNow + 4},
               ttl \in Horizons :
                 in = G!Facts(f, k, cur, w, tr, from, to, rev, ttl) /\ intervals = Nil
        BY <1>2 DEF G!EvaluateInit
    <2>3. /\ w \in Int \cup {Nil} /\ from \in Int \cup {Nil} /\ to \in Int \cup {Nil}
          /\ rev \in Int /\ ttl \in Int \cup {Nil}
        BY <2>1
    <2>4. in \in TriedInput BY <2>2, <2>3, FactsAreInputs
    <2> QED BY <2>2, <2>4 DEF Inputs
<1>3. CASE G!IntervalInit
    <2>1. start \in Int /\ end \in Int BY <1>3, ProceduresAssumption DEF G!IntervalInit
    <2>2. in = Nil /\ intervals = {} BY <1>3 DEF G!IntervalInit
    <2> QED BY <2>1, <2>2, FS_EmptySet DEF Inputs
<1> QED BY <1>1, <1>2, <1>3 DEF PricingInit, G!Init

LEMMA InputsStep ==
    ASSUME Inputs, [PricingNext]_<<registryVars, budgetVars, in, start, end, intervals, part>>
    PROVE  Inputs'
<1>1. CASE UNCHANGED <<in, start, end, intervals>> BY <1>1 DEF Inputs
<1>2. CASE G!Tick
    <2>1. in \in TriedInput /\ UNCHANGED <<start, end, intervals>> BY <1>2 DEF Inputs, G!Tick
    <2>2. PICK latest : latest = IF in.ttl = Nil THEN Nil ELSE in.now + 1 + in.ttl OBVIOUS
    <2>3. in.now + 1 \in Int /\ latest \in Int \cup {Nil} BY <2>1, <2>2 DEF TriedInput
    <2>4. in' = [in EXCEPT !.now = in.now + 1, !.deliveryLatest = latest]
        BY <1>2, <2>1, <2>2 DEF G!Tick, TriedInput
    <2>5. in' \in TriedInput BY <2>1, <2>3, <2>4 DEF TriedInput
    <2> QED BY <2>1, <2>5 DEF Inputs
<1>3. ASSUME NEW p \in G!Interval, G!Publish(p) PROVE Inputs'
    <2>1. /\ start \in Int /\ end \in Int /\ intervals \subseteq PriceInterval /\ IsFiniteSet(intervals)
          /\ intervals' = intervals \cup {p} /\ UNCHANGED <<in, start, end>>
        BY <1>3 DEF Inputs, G!Publish
    <2>2. p \in PriceInterval
        <3>1. PICK b \in {x \in (0..MaxInstant - 1) \X (1..MaxInstant) : x[1] < x[2]} \cup {<<1, 1>>},
                   q \in G!Prices :
                p = [from |-> b[1], to |-> b[2], unit |-> q[1], zero |-> q[2]]
            BY <1>3 DEF G!Interval
        <3>2. b[1] \in Int /\ b[2] \in Int BY <3>1, ProceduresAssumption
        <3>3. q[1] \in Nat \cup {Nil} /\ q[2] \in BOOLEAN
            <4>1. \/ q = <<0, TRUE>> \/ q = <<1, FALSE>> \/ q = <<2, FALSE>> \/ q = <<0, FALSE>>
                  \/ q = <<Nil, FALSE>>
                BY DEF G!Prices
            <4>2. CASE q = <<0, TRUE>> BY <4>2
            <4>3. CASE q = <<1, FALSE>> BY <4>3
            <4>4. CASE q = <<2, FALSE>> BY <4>4
            <4>5. CASE q = <<0, FALSE>> BY <4>5
            <4>6. CASE q = <<Nil, FALSE>> BY <4>6
            <4> QED BY <4>1, <4>2, <4>3, <4>4, <4>5, <4>6
        <3> QED BY <3>1, <3>2, <3>3 DEF PriceInterval
    <2>3. IsFiniteSet(intervals') BY <2>1, FS_AddElement
    <2> QED BY <2>1, <2>2, <2>3 DEF Inputs
<1> QED BY <1>1, <1>2, <1>3 DEF PricingNext, G!Next

\* Both properties of the procedures hold throughout, however long the clock runs and
\* however many intervals are published (guard.go:33-91, exposure.go:49-88).
THEOREM ProceduresRight == PricingSpec => [](AllowedIffCovered /\ MaximumIsExact)
BY InputsStart, InputsStep, InputsRight, PTL DEF PricingSpec

------------------------------------------------------------------------------
(* Budgets.  What a period's reservations add up to is computed by recursion on *)
(* a finite set; a least counterexample stands for the induction.              *)

\* g sums the amounts of the subsets of S, one element after the other.
Adds(g, S) ==
    g = [s \in SUBSET S |-> IF s = {} THEN 0
                            ELSE (CHOOSE x \in s : TRUE).amount + g[s \ {CHOOSE x \in s : TRUE}]]

SumsOf(S) == CHOOSE g : Adds(g, S)

Sum(S) == SumsOf(S)[S]

LEMMA ExposureIsSum == ASSUME NEW p PROVE Exposure(p) = Sum({x \in reserved : x.period = p})
BY DEF Exposure, MapThenSumSet, MapThenFoldSet, Sum, SumsOf, Adds

LEMMA NextExposureIsSum == ASSUME NEW p PROVE Exposure(p)' = Sum({x \in reserved' : x.period = p})
BY DEF Exposure, MapThenSumSet, MapThenFoldSet, Sum, SumsOf, Adds

\* Among subsets of a finite set, one that contains none of the others.
LEMMA LeastSubset ==
    ASSUME NEW S, IsFiniteSet(S), NEW B, B \subseteq SUBSET S, B # {}
    PROVE  \E s \in B : \A t \in B : t \subseteq s => t = s
<1> DEFINE sizes == {Cardinality(s) : s \in B}
<1>1. \A s \in B : IsFiniteSet(s) /\ Cardinality(s) \in Nat
    BY FS_Subset, FS_CardinalityType
<1>2. sizes \subseteq Nat /\ sizes # {} BY <1>1
<1>3. PICK n \in sizes : \A m \in sizes : n <= m
    <2> HIDE DEF sizes
    <2> QED BY <1>2, LeastNatural
<1>4. PICK s \in B : n = Cardinality(s) BY <1>3
<1>5. ASSUME NEW t \in B, t \subseteq s PROVE t = s
    <2>1. Cardinality(t) <= Cardinality(s) BY <1>1, <1>5, FS_Subset
    <2>2. Cardinality(s) <= Cardinality(t) BY <1>3, <1>4
    <2>3. Cardinality(s) = Cardinality(t) BY <1>1, <2>1, <2>2
    <2> QED BY <1>1, <1>5, <2>3, FS_Subset
<1> QED BY <1>5

\* The sums exist, because the sets are finite.
LEMMA SumsExist == ASSUME NEW S, IsFiniteSet(S) PROVE \E g : Adds(g, S)
<1> DEFINE c(s) == CHOOSE x \in s : TRUE
           D(n) == {s \in SUBSET S : Cardinality(s) <= n}
           Upto(g, n) == g = [s \in D(n) |-> IF s = {} THEN 0 ELSE c(s).amount + g[s \ {c(s)}]]
           Bad == {n \in Nat : ~\E g : Upto(g, n)}
<1>1. \A s \in SUBSET S : IsFiniteSet(s) /\ Cardinality(s) \in Nat
    BY FS_Subset, FS_CardinalityType
<1>2. \A s \in SUBSET S : s # {} => c(s) \in s /\ s \ {c(s)} \in SUBSET S
                                    /\ Cardinality(s \ {c(s)}) = Cardinality(s) - 1
    <2> SUFFICES ASSUME NEW s \in SUBSET S, s # {}
                 PROVE  c(s) \in s /\ Cardinality(s \ {c(s)}) = Cardinality(s) - 1
        OBVIOUS
    <2>1. c(s) \in s OBVIOUS
    <2> HIDE DEF c
    <2> QED BY <1>1, <2>1, FS_RemoveElement
<1>3. \E g : Upto(g, 0)
    <2>1. \A s \in D(0) : s = {} BY <1>1, FS_EmptySet
    <2>2. \A g : (\A s \in D(0) : s = {}) /\ g = [s \in D(0) |-> 0] => Upto(g, 0)
        <3> HIDE DEF c, D
        <3> QED OBVIOUS
    <2> HIDE DEF Upto, D
    <2> QED BY <2>1, <2>2
<1>4. ASSUME NEW n \in Nat, NEW g, Upto(g, n) PROVE \E h : Upto(h, n + 1)
    <2> DEFINE h == [s \in D(n + 1) |-> IF s = {} THEN 0 ELSE c(s).amount + g[s \ {c(s)}]]
    <2>1. ASSUME NEW s \in D(n + 1), s # {} PROVE h[s \ {c(s)}] = g[s \ {c(s)}]
        <3>1. s \ {c(s)} \in D(n) /\ s \ {c(s)} \in D(n + 1)
            <4>1. /\ s \ {c(s)} \in SUBSET S
                  /\ Cardinality(s \ {c(s)}) = Cardinality(s) - 1
                  /\ Cardinality(s) <= n + 1 /\ Cardinality(s) \in Nat
                BY <1>1, <1>2, <2>1
            <4> HIDE DEF c
            <4> QED BY <4>1
        <3> DEFINE t == s \ {c(s)}
        <3>2. t \in D(n) /\ t \in D(n + 1) BY <3>1
        <3> HIDE DEF t, D, c
        <3>3. h[t] = g[t] BY <1>4, <3>2
        <3> QED BY <3>3 DEF t
    <2>2. Upto(h, n + 1)
        <3> HIDE DEF c, D
        <3> QED BY <2>1
    <2> HIDE DEF h
    <2> QED BY <2>2
<1>5. Bad = {}
    <2> SUFFICES ASSUME Bad # {} PROVE FALSE
        OBVIOUS
    <2>1. PICK n \in Bad : \A m \in Bad : n <= m
        <3>1. Bad \subseteq Nat OBVIOUS
        <3> HIDE DEF Bad
        <3> QED BY <3>1, LeastNatural
    <2> HIDE DEF Upto
    <2>2. n # 0 BY <1>3
    <2>3. n - 1 \in Nat /\ n - 1 \notin Bad BY <2>1, <2>2
    <2>4. PICK g : Upto(g, n - 1) BY <2>3
    <2>5. \E h : Upto(h, (n - 1) + 1) BY <1>4, <2>3, <2>4
    <2>6. (n - 1) + 1 = n OBVIOUS
    <2> QED BY <2>1, <2>5, <2>6
<1>6. Cardinality(S) \in Nat /\ D(Cardinality(S)) = SUBSET S
    BY <1>1, FS_Subset
<1>7. PICK g : Upto(g, Cardinality(S))
    <2> HIDE DEF Upto, D
    <2> QED BY <1>5, <1>6
<1>8. Adds(g, S) BY <1>6, <1>7 DEF Adds
<1> QED BY <1>8

LEMMA SumOfNone ==
    ASSUME NEW S, IsFiniteSet(S)
    PROVE  SumsOf(S)[{}] = 0
<1>1. Adds(SumsOf(S), S)
    <2>1. \E h : Adds(h, S) BY SumsExist
    <2> QED BY <2>1 DEF SumsOf
<1>2. {} \in SUBSET S OBVIOUS
<1> QED BY <1>1, <1>2 DEF Adds

LEMMA SumsStep ==
    ASSUME NEW S, IsFiniteSet(S), NEW s \in SUBSET S, s # {}
    PROVE  \E x \in s : x = (CHOOSE y \in s : TRUE) /\ SumsOf(S)[s] = x.amount + SumsOf(S)[s \ {x}]
<1>1. Adds(SumsOf(S), S)
    <2>1. \E h : Adds(h, S) BY SumsExist
    <2> QED BY <2>1 DEF SumsOf
<1>2. (CHOOSE y \in s : TRUE) \in s OBVIOUS
<1>3. SumsOf(S)[s] = (CHOOSE y \in s : TRUE).amount + SumsOf(S)[s \ {CHOOSE y \in s : TRUE}]
    BY <1>1 DEF Adds
<1> QED BY <1>2, <1>3

\* A sum does not depend on the set its subset is summed in.
LEMMA SumOfSubset ==
    ASSUME NEW S, IsFiniteSet(S), NEW T \in SUBSET S
    PROVE  SumsOf(S)[T] = Sum(T)
<1> DEFINE g == SumsOf(S)
           f == SumsOf(T)
           Bad == {t \in SUBSET T : g[t] # f[t]}
<1>1. IsFiniteSet(T) BY FS_Subset
<1>2. ASSUME NEW t \in Bad, \A u \in Bad : u \subseteq t => u = t PROVE FALSE
    <2>1. t \in SUBSET S /\ t \in SUBSET T /\ g[t] # f[t] OBVIOUS
    <2> HIDE DEF g, f
    <2>2. t = {} => g[t] = 0 /\ f[t] = 0
        BY <1>1, SumOfNone DEF g, f
    <2>3. ASSUME t # {} PROVE FALSE
        <3>1. PICK x \in t : x = (CHOOSE y \in t : TRUE) /\ g[t] = x.amount + g[t \ {x}]
            BY <2>1, <2>3, SumsStep DEF g
        <3>2. PICK z \in t : z = (CHOOSE y \in t : TRUE) /\ f[t] = z.amount + f[t \ {z}]
            BY <1>1, <2>1, <2>3, SumsStep DEF f
        <3>3. g[t \ {x}] = f[t \ {x}] BY <1>2, <2>1
        <3> QED BY <2>1, <3>1, <3>2, <3>3
    <2> QED BY <2>1, <2>2, <2>3
<1>3. Bad = {}
    <2>1. Bad \subseteq SUBSET T OBVIOUS
    <2> HIDE DEF Bad
    <2> QED BY <1>1, <1>2, <2>1, LeastSubset
<1>4. g[T] = f[T] BY <1>3
<1> QED BY <1>4 DEF Sum

LEMMA SumsAreNumbers ==
    ASSUME NEW S, IsFiniteSet(S), \A x \in S : x.amount \in Nat,
           NEW s \in SUBSET S
    PROVE  SumsOf(S)[s] \in Nat
<1> DEFINE Bad == {t \in SUBSET S : SumsOf(S)[t] \notin Nat}
<1>1. ASSUME NEW t \in Bad, \A u \in Bad : u \subseteq t => u = t PROVE FALSE
    <2>1. t \in SUBSET S /\ SumsOf(S)[t] \notin Nat OBVIOUS
    <2>2. t # {}
        <3>1. SumsOf(S)[{}] \in Nat BY SumOfNone
        <3> QED BY <2>1, <3>1
    <2>3. PICK x \in t : SumsOf(S)[t] = x.amount + SumsOf(S)[t \ {x}] BY <2>1, <2>2, SumsStep
    <2>4. SumsOf(S)[t \ {x}] \in Nat BY <1>1, <2>1
    <2> QED BY <2>1, <2>3, <2>4
<1>2. Bad = {}
    <2>1. Bad \subseteq SUBSET S OBVIOUS
    <2> HIDE DEF Bad
    <2> QED BY <1>1, <2>1, LeastSubset
<1> QED BY <1>2

\* Whichever element is taken out first.
LEMMA SumWithout ==
    ASSUME NEW S, IsFiniteSet(S), \A x \in S : x.amount \in Nat,
           NEW s \in SUBSET S, NEW y \in s
    PROVE  SumsOf(S)[s] = y.amount + SumsOf(S)[s \ {y}]
<1> DEFINE Bad == {t \in SUBSET S : \E x \in t : SumsOf(S)[t] # x.amount + SumsOf(S)[t \ {x}]}
<1>1. ASSUME NEW t \in Bad, \A u \in Bad : u \subseteq t => u = t PROVE FALSE
    <2>1. PICK x \in t : t \in SUBSET S /\ SumsOf(S)[t] # x.amount + SumsOf(S)[t \ {x}] OBVIOUS
    <2>2. PICK z \in t : z = (CHOOSE w \in t : TRUE) /\ SumsOf(S)[t] = z.amount + SumsOf(S)[t \ {z}]
        BY <2>1, SumsStep
    <2>3. x # z BY <2>1, <2>2
    <2>4. /\ t \ {x} \in SUBSET S /\ t \ {x} \notin Bad /\ z \in t \ {x}
          /\ t \ {z} \in SUBSET S /\ t \ {z} \notin Bad /\ x \in t \ {z}
        BY <1>1, <2>1, <2>3
    <2>5. /\ SumsOf(S)[t \ {x}] = z.amount + SumsOf(S)[(t \ {x}) \ {z}]
          /\ SumsOf(S)[t \ {z}] = x.amount + SumsOf(S)[(t \ {z}) \ {x}]
        BY <2>4
    <2>6. (t \ {x}) \ {z} = (t \ {z}) \ {x} OBVIOUS
    <2>7. (t \ {z}) \ {x} \in SUBSET S BY <2>4
    <2>8. SumsOf(S)[(t \ {z}) \ {x}] \in Nat BY <2>7, SumsAreNumbers
    <2>9. x.amount \in Nat /\ z.amount \in Nat BY <2>1
    <2>10. SumsOf(S)[t] = z.amount + (x.amount + SumsOf(S)[(t \ {z}) \ {x}])
        BY <2>2, <2>5
    <2>11. SumsOf(S)[t] # x.amount + (z.amount + SumsOf(S)[(t \ {z}) \ {x}])
        BY <2>1, <2>5, <2>6
    <2>12. \A a, b, c \in Nat : a + (b + c) = b + (a + c) OBVIOUS
    <2> QED BY <2>8, <2>9, <2>10, <2>11, <2>12
<1>2. Bad = {}
    <2>1. Bad \subseteq SUBSET S OBVIOUS
    <2> HIDE DEF Bad
    <2> QED BY <1>1, <2>1, LeastSubset
<1> QED BY <1>2

\* One more reservation adds its amount.
LEMMA SumAdds ==
    ASSUME NEW S, IsFiniteSet(S), \A x \in S : x.amount \in Nat,
           NEW y, y \notin S, y.amount \in Nat
    PROVE  /\ Sum(S) \in Nat
           /\ Sum(S \cup {y}) = Sum(S) + y.amount
<1> DEFINE T == S \cup {y}
           g == SumsOf(T)
<1>1. IsFiniteSet(T) /\ \A x \in T : x.amount \in Nat BY FS_AddElement
<1>2. S \in SUBSET T /\ T \in SUBSET T /\ T \ {y} = S /\ y \in T OBVIOUS
<1> HIDE DEF T
<1>3. g[T] = Sum(T) /\ g[S] = Sum(S) BY <1>1, <1>2, SumOfSubset
<1> HIDE DEF g
<1>4. g[T] = y.amount + g[T \ {y}] BY <1>1, <1>2, SumWithout DEF g
<1>5. g[S] \in Nat BY <1>1, <1>2, SumsAreNumbers DEF g
<1>6. Sum(T) = y.amount + Sum(S) BY <1>2, <1>3, <1>4
<1>7. Sum(S) \in Nat BY <1>3, <1>5
<1>8. y.amount + Sum(S) = Sum(S) + y.amount BY <1>7
<1> QED BY <1>6, <1>7, <1>8 DEF T

ReservationType == [period : Periods, intent : Intents, amount : Nat]

\* A transaction that holds a period's lock.
HolderType == [pc : {"locked", "fresh", "approved"}, period : Periods, intent : Intents, amount : Nat]

BudgetTypes ==
    /\ period \in [Periods -> Nat \cup {None}]
    /\ reserved \subseteq ReservationType /\ IsFiniteSet(reserved)
    /\ reserver \in [Reservers -> HolderType \cup {Idle}]

\* A period is locked by one transaction, and only once it is there.
OneHolder ==
    /\ \A r \in Reservers : reserver[r].pc # "idle" => period[reserver[r].period] # None
    /\ \A r, s \in Reservers : reserver[r].pc # "idle" /\ reserver[s].pc # "idle"
                               /\ reserver[r].period = reserver[s].period => r = s

\* No reservation without its period.
PeriodsExist == \A x \in reserved : period[x.period] # None

\* What was compared with the limit still holds.
StillWithin == \A r \in Reservers : reserver[r].pc = "approved" => Within(r)

BudgetInv == BudgetTypes /\ OneHolder /\ PeriodsExist /\ StillWithin /\ BudgetHolds

LEMMA BudgetStart == BudgetInit => BudgetInv
<1> SUFFICES ASSUME BudgetInit PROVE BudgetInv
    OBVIOUS
<1>1. BudgetTypes BY FS_EmptySet DEF BudgetInit, BudgetTypes
<1>2. \A r \in Reservers : reserver[r].pc = "idle" BY DEF BudgetInit, Idle
<1>3. reserved = {} /\ \A p \in Periods : period[p] = None BY DEF BudgetInit
<1> QED BY <1>1, <1>2, <1>3 DEF BudgetInv, OneHolder, PeriodsExist, StillWithin, BudgetHolds

\* A step that records no reservation keeps every exposure.
LEMMA SameExposure ==
    ASSUME reserved' = reserved
    PROVE  \A p : Exposure(p)' = Exposure(p)
BY ExposureIsSum, NextExposureIsSum

LEMMA BudgetKept ==
    ASSUME BudgetInv, UNCHANGED budgetVars PROVE BudgetInv'
<1>1. UNCHANGED <<period, reserved, reserver>> BY DEF budgetVars
<1>2. \A p : Exposure(p)' = Exposure(p) BY <1>1, SameExposure
<1> QED BY <1>1, <1>2 DEF BudgetInv, BudgetTypes, OneHolder, PeriodsExist, StillWithin, BudgetHolds, Within

\* A transaction ends or moves on under its lock.
LEMMA ReserverMoves ==
    ASSUME BudgetInv, NEW r \in Reservers, NEW v \in HolderType \cup {Idle},
           UNCHANGED <<period, reserved>>,
           reserver' = [reserver EXCEPT ![r] = v],
           v = Idle \/ /\ reserver[r].pc # "idle" /\ v.period = reserver[r].period
                       /\ v.pc = "approved" => Exposure(v.period) + v.amount <= period[v.period]
    PROVE  BudgetInv'
<1>1. \A p : Exposure(p)' = Exposure(p) BY SameExposure
<1>2. BudgetTypes' BY DEF BudgetInv, BudgetTypes
<1>3. /\ reserver \in [Reservers -> HolderType \cup {Idle}]
      /\ reserver'[r] = v /\ \A s \in Reservers \ {r} : reserver'[s] = reserver[s]
    BY DEF BudgetInv, BudgetTypes
<1>4. Idle.pc = "idle" BY DEF Idle
<1>5. OneHolder' BY <1>3, <1>4 DEF BudgetInv, OneHolder
<1>6. StillWithin'
    <2> SUFFICES ASSUME NEW s \in Reservers, reserver'[s].pc = "approved" PROVE Within(s)'
        BY DEF StillWithin
    <2>1. CASE s = r BY <1>1, <1>3, <1>4, <2>1 DEF Within
    <2>2. CASE s # r BY <1>1, <1>3, <2>2 DEF Within, BudgetInv, StillWithin
    <2> QED BY <2>1, <2>2
<1>7. BudgetHolds' /\ PeriodsExist' BY <1>1 DEF BudgetInv, BudgetHolds, PeriodsExist
<1> QED BY <1>2, <1>5, <1>6, <1>7 DEF BudgetInv

LEMMA StartStep ==
    ASSUME BudgetInv, NEW r \in Reservers, NEW p \in Periods, NEW i \in Intents, NEW a \in Amounts,
           Start(r, p, i, a)
    PROVE  BudgetInv'
<1> DEFINE v == [pc |-> "locked", period |-> p, intent |-> i, amount |-> a]
<1>1. v \in HolderType BY BudgetAssumption DEF HolderType
<1>2. /\ reserver \in [Reservers -> HolderType \cup {Idle}]
      /\ reserver' = [reserver EXCEPT ![r] = v]
      /\ UNCHANGED <<period, reserved>> /\ period[p] # None /\ PeriodFree(p)
    BY DEF BudgetInv, BudgetTypes, Start
<1>3. /\ reserver'[r] = v /\ \A s \in Reservers \ {r} : reserver'[s] = reserver[s]
    BY <1>2
<1>4. v.pc = "locked" /\ v.period = p OBVIOUS
<1> HIDE DEF v
<1>5. BudgetTypes' BY <1>1, <1>2 DEF BudgetInv, BudgetTypes
<1>6. OneHolder' BY <1>2, <1>3, <1>4 DEF BudgetInv, OneHolder, PeriodFree
<1>7. \A q : Exposure(q)' = Exposure(q) BY <1>2, SameExposure
<1>8. StillWithin'
    <2> SUFFICES ASSUME NEW s \in Reservers, reserver'[s].pc = "approved" PROVE Within(s)'
        BY DEF StillWithin
    <2>1. s # r BY <1>3, <1>4
    <2> QED BY <1>2, <1>3, <1>7, <2>1 DEF Within, BudgetInv, StillWithin
<1>9. BudgetHolds' /\ PeriodsExist' BY <1>2, <1>7 DEF BudgetInv, BudgetHolds, PeriodsExist
<1> QED BY <1>5, <1>6, <1>8, <1>9 DEF BudgetInv

LEMMA CreatePeriodStep ==
    ASSUME BudgetInv, NEW p \in Periods, NEW limit \in Limits, CreatePeriod(p, limit)
    PROVE  BudgetInv'
<1>1. /\ period \in [Periods -> Nat \cup {None}] /\ period' = [period EXCEPT ![p] = limit]
      /\ UNCHANGED <<reserved, reserver>> /\ period[p] = None /\ limit \in Nat
    BY BudgetAssumption DEF BudgetInv, BudgetTypes, CreatePeriod
<1>2. /\ period'[p] = limit /\ limit # None
      /\ \A q \in Periods \ {p} : period'[q] = period[q]
    BY <1>1, RegistryAssumption
<1>3. reserved' \subseteq ReservationType BY <1>1 DEF BudgetInv, BudgetTypes
<1>4. BudgetTypes' BY <1>1 DEF BudgetInv, BudgetTypes
<1>5. \A q : Exposure(q)' = Exposure(q) BY <1>1, SameExposure
<1>6. \A r \in Reservers : reserver[r].pc # "idle" => reserver[r].period \in Periods \ {p}
    BY <1>1 DEF BudgetInv, BudgetTypes, OneHolder, HolderType, Idle
<1>7. OneHolder' BY <1>1, <1>2, <1>6 DEF BudgetInv, OneHolder
<1>8. StillWithin' BY <1>1, <1>2, <1>5, <1>6 DEF BudgetInv, StillWithin, Within
<1>9. \A x \in reserved : x.period \in Periods \ {p} /\ period[x.period] # None
    BY <1>1 DEF BudgetInv, BudgetTypes, PeriodsExist, ReservationType
<1>10. PeriodsExist' BY <1>1, <1>2, <1>9 DEF PeriodsExist
<1>11. Exposure(p) = 0
    <2>1. {x \in reserved : x.period = p} = {} BY <1>9
    <2>2. SumsOf({})[{}] = 0 BY FS_EmptySet, SumOfNone
    <2> QED BY <2>1, <2>2, ExposureIsSum DEF Sum
<1>12. BudgetHolds' BY <1>1, <1>2, <1>5, <1>11 DEF BudgetInv, BudgetHolds
<1> QED BY <1>4, <1>7, <1>8, <1>10, <1>12 DEF BudgetInv

LEMMA ReserveStep ==
    ASSUME BudgetInv, NEW r \in Reservers, Reserve(r)
    PROVE  BudgetInv'
<1>1. /\ reserver \in [Reservers -> HolderType \cup {Idle}]
      /\ reserver[r] \in HolderType /\ reserver[r].pc = "approved"
    BY DEF BudgetInv, BudgetTypes, Reserve, Idle
<1> PICK p \in Periods : p = reserver[r].period BY <1>1 DEF HolderType
<1> PICK new : new = [period |-> p, intent |-> reserver[r].intent, amount |-> reserver[r].amount]
    OBVIOUS
<1>2. new \in ReservationType BY <1>1 DEF HolderType, ReservationType
<1>3. /\ reserved' = reserved \cup {new} /\ period' = period
      /\ reserver' = [reserver EXCEPT ![r] = Idle]
      /\ \A x \in reserved : ~(x.period = p /\ x.intent = reserver[r].intent)
    BY DEF Reserve, Existing
<1>4. new.period = p /\ new.intent = reserver[r].intent /\ new.amount = reserver[r].amount
      /\ new.amount \in Nat /\ p \in Periods
    BY <1>1 DEF HolderType
<1>5. period[p] # None /\ \A s \in Reservers \ {r} : reserver[s].pc # "idle" => reserver[s].period # p
    BY <1>1 DEF BudgetInv, OneHolder
<1>6. Exposure(p) + new.amount <= period[p]
    BY <1>1, <1>4 DEF BudgetInv, StillWithin, Within
<1>7. reserver'[r] = Idle /\ \A s \in Reservers \ {r} : reserver'[s] = reserver[s]
    BY <1>1, <1>3
<1>8. new \notin reserved BY <1>3, <1>4
<1>9. BudgetTypes'
    BY <1>2, <1>3, <1>1, FS_AddElement DEF BudgetInv, BudgetTypes
<1>10. Exposure(p)' = Exposure(p) + new.amount
    <2> DEFINE S == {x \in reserved : x.period = p}
    <2>1. IsFiniteSet(S) /\ \A x \in S : x.amount \in Nat
        <3>1. S \in SUBSET reserved /\ IsFiniteSet(reserved) BY DEF BudgetInv, BudgetTypes
        <3>2. \A x \in reserved : x.amount \in Nat BY DEF BudgetInv, BudgetTypes, ReservationType
        <3> QED BY <3>1, <3>2, FS_Subset
    <2>2. {x \in reserved' : x.period = p} = S \cup {new} BY <1>3, <1>4
    <2>3. new \notin S BY <1>8
    <2>4. Exposure(p) = Sum(S) /\ Exposure(p)' = Sum(S \cup {new}) BY <2>2, ExposureIsSum, NextExposureIsSum
    <2> HIDE DEF S
    <2>5. Sum(S \cup {new}) = Sum(S) + new.amount BY <2>1, <2>3, <1>4, SumAdds
    <2> QED BY <2>4, <2>5
<1>11. ASSUME NEW q, q # p PROVE Exposure(q)' = Exposure(q)
    <2>1. {x \in reserved' : x.period = q} = {x \in reserved : x.period = q} BY <1>3, <1>4, <1>11
    <2> QED BY <2>1, ExposureIsSum, NextExposureIsSum
<1>12. OneHolder' BY <1>3, <1>7 DEF BudgetInv, OneHolder, Idle
<1>13. PeriodsExist' BY <1>3, <1>4, <1>5 DEF BudgetInv, PeriodsExist
<1>14. StillWithin'
    <2> SUFFICES ASSUME NEW s \in Reservers, reserver'[s].pc = "approved" PROVE Within(s)'
        BY DEF StillWithin
    <2>1. s # r BY <1>7 DEF Idle
    <2>2. reserver'[s] = reserver[s] /\ reserver[s].period # p BY <1>5, <1>7, <2>1
    <2>3. Exposure(reserver[s].period)' = Exposure(reserver[s].period) BY <1>11, <2>2
    <2> QED BY <1>3, <2>2, <2>3 DEF Within, BudgetInv, StillWithin
<1>15. BudgetHolds'
    <2>1. ASSUME NEW q \in Periods, period[q] # None PROVE Exposure(q)' <= period[q]
        <3>1. CASE q = p BY <1>6, <1>10, <3>1
        <3>2. CASE q # p BY <1>11, <2>1, <3>2 DEF BudgetInv, BudgetHolds
        <3> QED BY <3>1, <3>2
    <2>2. ASSUME NEW q \in Periods, NEW x \in reserved', NEW y \in reserved',
                 x.period = q, y.period = q, x.intent = y.intent
          PROVE  x = y
        BY <1>3, <1>4, <2>2 DEF BudgetInv, BudgetHolds
    <2> QED BY <1>3, <2>1, <2>2 DEF BudgetHolds
<1> QED BY <1>9, <1>12, <1>13, <1>14, <1>15 DEF BudgetInv

\* Every step of the project's prices is one of these or leaves the budgets alone.
LEMMA BudgetStepPreserves ==
    ASSUME BudgetInv, [PricingNext]_<<registryVars, budgetVars, in, start, end, intervals, part>>
    PROVE  BudgetInv'
<1>1. CASE UNCHANGED budgetVars BY <1>1, BudgetKept
<1>2. ASSUME NEW p \in Periods, NEW limit \in Limits, CreatePeriod(p, limit) PROVE BudgetInv'
    BY <1>2, CreatePeriodStep
<1>3. ASSUME NEW r \in Reservers, NEW p \in Periods, NEW i \in Intents, NEW a \in Amounts,
             Start(r, p, i, a)
      PROVE  BudgetInv'
    BY <1>3, StartStep
<1>4. ASSUME NEW r \in Reservers, ReadExisting(r) \/ ReadExposure(r) \/ Abandon(r) PROVE BudgetInv'
    <2>1. /\ reserver[r] \in HolderType /\ reserver[r].pc # "idle"
          /\ UNCHANGED <<period, reserved>>
        BY <1>4 DEF BudgetInv, BudgetTypes, ReadExisting, ReadExposure, Abandon, Idle
    <2>2. CASE reserver' = [reserver EXCEPT ![r] = Idle]
        BY <2>1, <2>2, ReserverMoves
    <2>3. CASE ReadExisting(r) /\ Existing(r) = {}
        <3> DEFINE v == [reserver[r] EXCEPT !.pc = "fresh"]
        <3>1. v \in HolderType /\ v.pc = "fresh" /\ v.period = reserver[r].period BY <2>1 DEF HolderType
        <3>2. reserver' = [reserver EXCEPT ![r] = v] BY <2>3 DEF ReadExisting
        <3> HIDE DEF v
        <3> QED BY <2>1, <3>1, <3>2, ReserverMoves
    <2>4. CASE ReadExposure(r) /\ Within(r)
        <3> DEFINE v == [reserver[r] EXCEPT !.pc = "approved"]
        <3>1. v \in HolderType /\ v.period = reserver[r].period /\ v.amount = reserver[r].amount
            BY <2>1 DEF HolderType
        <3>2. reserver' = [reserver EXCEPT ![r] = v] BY <2>4 DEF ReadExposure
        <3>3. Exposure(reserver[r].period) + reserver[r].amount <= period[reserver[r].period]
            BY <2>4 DEF Within
        <3> HIDE DEF v
        <3> QED BY <2>1, <3>1, <3>2, <3>3, ReserverMoves
    <2> QED BY <1>4, <2>2, <2>3, <2>4 DEF ReadExisting, ReadExposure, Abandon
<1>5. ASSUME NEW r \in Reservers, Reserve(r) PROVE BudgetInv'
    BY <1>5, ReserveStep
<1> QED BY <1>1, <1>2, <1>3, <1>4, <1>5 DEF PricingNext, BudgetStep, RegistryStep

\* Whatever the transactions of a period, their amounts stay within its limit
\* (registry.go:421-457).
THEOREM LimitsHold == PricingSpec => []BudgetHolds
<1>1. PricingInit => BudgetInv BY BudgetStart DEF PricingInit
<1>2. BudgetInv => BudgetHolds BY DEF BudgetInv
<1> QED BY <1>1, <1>2, BudgetStepPreserves, PTL DEF PricingSpec
==============================================================================
