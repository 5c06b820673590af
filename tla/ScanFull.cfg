SPECIFICATION Spec
CONSTANTS
    f1 = f1
    f2 = f2
    f3 = f3
    Invocations <- MCInvocations
    Listing <- MCListing
    Ignored = {f3}
    Below <- MCBelow
    Fixture = f2
    Lines = {"p", "q", "c"}
    Trees <- MCTrees
    MaxInput = 2
    WorkerInput = 1
    StdinCapacity = 2
    StdoutCapacity = 1
    MaxOutput = 3
    MaxObservations = 2
INVARIANT CompleteMeansAll
