SPECIFICATION AccountFairSpec
CONSTANTS
    tab1 = tab1
    tab2 = tab2
    phoneTab = phoneTab
    laptop = laptop
    phone = phone
    Profiles = {laptop}
    Tabs = {tab1}
    ProfileOf <- OneTab
    Peers = {payer}
    Calls = {start}
    MaxAccounts = 2
    MaxUpsets = 1
PROPERTY
    PublishedAgain
CHECK_DEADLOCK FALSE
