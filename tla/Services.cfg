\* Two clients with a number each, or one with two numbers one after the other.
CONSTANTS
    Programs <- AllServices
    QueueRoom = 1
    First <- FirstNumbers
    Second <- SecondNumbers
    Several <- SeveralNumbers
SPECIFICATION Spec
INVARIANTS AnswersRight ServerStands
PROPERTY Served
CHECK_DEADLOCK FALSE
