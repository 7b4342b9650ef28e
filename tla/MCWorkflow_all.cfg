\* One record after the other, from feed or queue, and the graph run up to three times.
SPECIFICATION FairWorkflowSpec
CONSTANTS
  Records <- MCRecords
  Indexes <- MCIndexes
  MaxInvocations = 3
INVARIANTS TextsAreSanitized QueueKeepsMessage QueueKeepsKey NothingUngroundedPasses GatesAgree GraveNeedsApproval
PROPERTIES InvocationsEnd
