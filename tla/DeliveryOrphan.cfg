\* One worker records an acceptance while another materializes its status.
CONSTANTS
    None = None
    ma = ma
    mb = mb
    Crew = {w1, w2}
    Messages = {ma, mb}
    Shifts <- Racing
    MaxInterrupts = 0
SPECIFICATION DeliverySpec
INVARIANT StatusesReflected
