SPECIFICATION JpegSpec
CONSTANTS
    MaxBatches = 2
    Available = 2
    CodecCap = 3
    BatchMetadataCap = 10
    PlanBytes = 1
    SlotBytes = 1
    SummaryBytes = 1
    ResultBytes = 1
    HandleBytes = 1
    Calls <- MCCalls
INVARIANT FirstFailureInInputOrder
