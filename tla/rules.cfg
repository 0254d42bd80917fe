SPECIFICATION RulesSpec
CONSTANTS
    Years = {2023, 2024, 2100}
    Prices = {1, 5001}
    Ratings = {1, 3, 4, 5}
    Guard = 30
    PAGE_SECTIONS <- MCSections
    MAX_CUSTOM_BLOCKS = 1
    MAX_BLOCK_ITEMS = 1
    MAX_TESTIMONIALS = 1
    MAX_SERVICES = 2
    Refusal = Refusal
    MAX_PER_BATCH = 2
    No = No
INVARIANTS CalendarRules  DocumentsSettle
CHECK_DEADLOCK FALSE
