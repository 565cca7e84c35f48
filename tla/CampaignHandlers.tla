-------------------------- MODULE CampaignHandlers --------------------------
(***************************************************************************)
(* The Campaign use cases over the Campaign repository, called by several  *)
(* clients at once.                                                        *)
(***************************************************************************)
EXTENDS AggregateStore

CONSTANT ScopeStatement

\* The Campaign aggregate, and the atomic object the stored rows must behave as.
Domain == INSTANCE Campaign WITH campaign <- db, NoCampaign <- NoRow, Scope <- ScopeStatement

ASSUME NoRowAssumption == NoRow \notin Domain!Campaigns

CreateCampaign == \E s \in ScopeStatement : add(Domain!create(s))

\* get() hands the aggregate to the handler only if it reconstructs.
get(c) == IsLoaded(c) /\ Domain!Reconstructs(Loaded(c))

Command(c, results) == get(c) /\ Handle(c, results)

ReviseCampaignScopeStatement(c) ==
    \E s \in ScopeStatement : Command(c, Domain!revise_scope_statement(Loaded(c), s))

PrepareCampaignForAuthorization(c) ==
    Command(c, Domain!prepare_for_authorization(Loaded(c)))

RecordCampaignAuthorization(c) == Command(c, Domain!record_authorization(Loaded(c)))

ActivateCampaign(c) == Command(c, Domain!activate(Loaded(c)))

SuspendCampaign(c) == Command(c, Domain!suspend(Loaded(c)))

ResumeCampaign(c) == Command(c, Domain!resume(Loaded(c)))

CompleteCampaign(c) == Command(c, Domain!complete(Loaded(c)))

CancelCampaign(c) ==
    \E reason \in Reasons : Command(c, Domain!cancel(Loaded(c), reason))

CampaignInit == StoreInit

ClientStep(c) ==
    \/ Reading(c)
    \/ ReviseCampaignScopeStatement(c) \/ PrepareCampaignForAuthorization(c)
    \/ RecordCampaignAuthorization(c) \/ ActivateCampaign(c) \/ SuspendCampaign(c)
    \/ ResumeCampaign(c) \/ CompleteCampaign(c) \/ CancelCampaign(c)

CampaignNext == CreateCampaign \/ \E c \in Client : ClientStep(c)

CampaignSpec == CampaignInit /\ [][CampaignNext]_storeVars

------------------------------------------------------------------------------
\* Type invariant of the stored rows and of what the handlers hold.
TypeOK == StoreTypes(Domain!Campaigns, Domain!Root, Seq(Domain!Record), 1)

\* What is stored can always be loaded again: whatever the interleaving of
\* handlers, the root row and the history it is stored with pass
\* _reconstruct_campaign, so get() does not answer InvalidPersistedAggregateState
\* for good.
CampaignReconstructs == db # NoRow => Domain!Reconstructs(db)

\* get() never hands out a mixture of two saves: rows read in different
\* statements that reconstruct are one committed version of the Campaign.
LoadedIsCommitted ==
    \A c \in Client :
        get(c) => \E i \in 1..Len(committed) : committed[i] = Loaded(c)

\* No lost update: the stored Campaign behaves as one object whose methods are
\* called one at a time, each on the value the previous one left.
AtomicCampaign == Domain!Spec

=============================================================================
